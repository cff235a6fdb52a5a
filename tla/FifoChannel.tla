----------------------------- MODULE FifoChannel -----------------------------
(***************************************************************************)
(* What the rest of RoyalVNCKit expects of clientToServerMessageQueue and  *)
(* of the send loop that empties it: messages leave in the order in which  *)
(* they were put in, none is lost, repeated or invented, except that the   *)
(* handshake throws away everything at once.                               *)
(***************************************************************************)
EXTENDS Sequences

CONSTANT Messages
VARIABLE channel

Init  == channel = <<>>
Put   == \E m \in Messages : channel' = Append(channel, m)
Get   == channel # <<>> /\ channel' = Tail(channel)
Clear == channel' = <<>>

Spec == Init /\ [][Put \/ Get \/ Clear]_channel
=============================================================================
