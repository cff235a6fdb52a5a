------------------------- MODULE ConnectionLifecycle -------------------------
(***************************************************************************)
(* What a VNCConnection promises to the code that owns it, with everything *)
(* about threads and transports left out.  The delegate hears of two       *)
(* things: of the opening, connecting and then connected, each once; and   *)
(* of the end, disconnecting and then disconnected, after somebody has     *)
(* requested it.  Two threads that end the connection together may tell    *)
(* the end a second time.                                                  *)
(*                                                                         *)
(* Nothing orders the two with respect to each other: a connection may be  *)
(* reported connected after it was reported disconnected.                  *)
(***************************************************************************)

VARIABLES
    opening,   \* how much of the opening the delegate has heard
    ending,    \* how far the end has got
    told       \* the status the delegate heard last

vars == <<opening, ending, told>>

Openings == {"new", "connecting", "connected"}
Endings  == {"none", "requested", "announced", "reported"}

Init ==
    /\ opening = "new"
    /\ ending = "none"
    /\ told = "nothing"

HearConnecting ==
    /\ opening = "new"
    /\ opening' = "connecting" /\ told' = "connecting"
    /\ UNCHANGED ending

HearConnected ==
    /\ opening = "connecting"
    /\ opening' = "connected" /\ told' = "connected"
    /\ UNCHANGED ending

RequestEnd ==
    /\ ending = "none"
    /\ ending' = "requested"
    /\ UNCHANGED <<opening, told>>

HearDisconnecting ==
    /\ ending # "none"
    /\ ending' = IF ending = "requested" THEN "announced" ELSE ending
    /\ told' = "disconnecting"
    /\ UNCHANGED opening

HearDisconnected ==
    /\ ending \in {"announced", "reported"}
    /\ ending' = "reported" /\ told' = "disconnected"
    /\ UNCHANGED opening

Next ==
    \/ HearConnecting \/ HearConnected
    \/ RequestEnd \/ HearDisconnecting \/ HearDisconnected

(* The part of Spec that says what may happen and nothing about what must. *)
SafeSpec == Init /\ [][Next]_vars

(* Nobody has to end a connection, but an end that was requested is announced and
   then reported.                                                                 *)
Spec == SafeSpec /\ (ending # "none" ~> ending = "reported")
=============================================================================
