--------------------------- MODULE UpdateFlowProofs ---------------------------
(***************************************************************************)
(* Proofs about UpdateFlow, for any sizes and depths, any number of        *)
(* resizes, depth changes and EndOfContinuousUpdates: type correctness,    *)
(* and the stream of updates does not dry up.  When only the receive Task  *)
(* replaces the framebuffer, it follows the desktop and is painted anew.   *)
(***************************************************************************)
EXTENDS UpdateFlow, SequenceTheorems, TLAPS

(* The Task recreates the framebuffer for the rectangle it is at. *)
RecreatesForARect == reader.at = "recreate" => reader.rects # <<>>

(* The request is on its way before the Task has set the flag: it may be answered by then. *)
TokenElsewhere ==
    \/ Sent("request")
    \/ server.wants
    \/ \E i \in 1..Len(toClient) : toClient[i].kind = "update"
WrittenIsSent == reader.at = "written" => TokenElsewhere

IInv == TypeOK /\ RecreatesForARect /\ WrittenIsSent /\ StreamAlive

-----------------------------------------------------------------------------
(* What is added to the end or taken from the front of a sequence. *)
LEMMA Appended ==
    ASSUME NEW S, NEW q \in Seq(S), NEW x \in S
    PROVE  /\ Append(q, x) \in Seq(S)
           /\ Len(Append(q, x)) = Len(q) + 1
           /\ \A i \in 1..Len(q) : Append(q, x)[i] = q[i]
           /\ Append(q, x)[Len(q) + 1] = x
BY AppendProperties

LEMMA TakenOff ==
    ASSUME NEW S, NEW q \in Seq(S), q # <<>>
    PROVE  /\ Head(q) \in S /\ Head(q) = q[1]
           /\ Tail(q) \in Seq(S)
           /\ \A i \in 2..Len(q) : i - 1 \in 1..Len(Tail(q)) /\ Tail(q)[i - 1] = q[i]
           /\ \A i \in 1..Len(Tail(q)) : i + 1 \in 2..Len(q) /\ Tail(q)[i] = q[i + 1]
BY HeadTailProperties

LEMMA OnlyOne ==
    ASSUME NEW S, NEW x \in S
    PROVE  <<x>> \in Seq(S)
OBVIOUS

(* Named parts of the types. *)
StateType  == [incremental : BOOLEAN, cuSupported : BOOLEAN, cuEnabled : BOOLEAN,
               disconnectRequested : BOOLEAN]
ReaderType == [at : {"read", "rects", "recreate", "request", "write", "written", "lost"},
               held : Framebuffers, attached : BOOLEAN, rects : Seq(Rects),
               full : BOOLEAN, size : Sizes]
ServerType == [desktop : Sizes, depth : Depths, announced : BOOLEAN, wants : BOOLEAN,
               owed : Sizes \cup {0}, resizes : 0..MaxResizes, ends : 0..EndsOfCU]
OwnerType  == [at : {"idle", "store", "reset", "replace"}, new : Framebuffers,
               copy : Seq(Depths), changes : 0..MaxDepthChanges]
SenderType == [at : {"idle", "store", "write"}, depth : Depths, rest : Seq(Depths)]

LEMMA Types ==
    TypeOK <=> /\ framebuffer \in Framebuffers /\ painted \in BOOLEAN
               /\ state \in StateType
               /\ reader \in ReaderType /\ owner \in OwnerType
               /\ queue \in Seq(Depths) /\ sender \in SenderType
               /\ toServer \in Seq(Requests \cup DepthMessages)
               /\ toClient \in Seq(Updates \cup EndMessages)
               /\ server \in ServerType
BY DEF TypeOK, StateType, ReaderType, OwnerType, SenderType, ServerType

LEMMA TypesAfter ==
    TypeOK' <=> /\ framebuffer' \in Framebuffers /\ painted' \in BOOLEAN
                /\ state' \in StateType
                /\ reader' \in ReaderType /\ owner' \in OwnerType
                /\ queue' \in Seq(Depths) /\ sender' \in SenderType
                /\ toServer' \in Seq(Requests \cup DepthMessages)
                /\ toClient' \in Seq(Updates \cup EndMessages)
                /\ server' \in ServerType
BY DEF TypeOK, StateType, ReaderType, OwnerType, SenderType, ServerType

LEMMA InitTypes == Init => TypeOK /\ RecreatesForARect
<1> SUFFICES ASSUME Init PROVE TypeOK /\ RecreatesForARect
  OBVIOUS
<1>1. [size |-> FirstSize, depth |-> FirstDepth, told |-> FALSE] \in Framebuffers
  BY FlowAssumption DEF Framebuffers
<1>2. toServer \in Seq(Requests \cup DepthMessages)
  <2>1. Request(TRUE, FirstSize) \in Requests \cup DepthMessages
    BY FlowAssumption DEF Request, Requests
  <2>2. <<Request(TRUE, FirstSize)>> \in Seq(Requests \cup DepthMessages)
    BY <2>1, OnlyOne
  <2>3. CASE RequestUpdates
    BY <2>2, <2>3 DEF Init
  <2>4. CASE ~RequestUpdates
    BY <2>4 DEF Init
  <2> QED
    BY <2>3, <2>4
<1>3. reader \in ReaderType
  BY <1>1, FlowAssumption DEF Init, ReaderType
<1>4. server \in ServerType
  BY FlowAssumption DEF Init, ServerType
<1>5. owner \in OwnerType
  BY <1>1, FlowAssumption DEF Init, OwnerType
<1>6. framebuffer \in Framebuffers /\ painted \in BOOLEAN
  BY <1>1 DEF Init
<1>7. state \in StateType
  BY FlowAssumption DEF Init, StateType
<1>8. queue \in Seq(Depths) /\ toClient \in Seq(Updates \cup EndMessages)
  BY DEF Init
<1>9. sender \in SenderType
  BY FlowAssumption DEF Init, SenderType
<1> QED
  BY <1>2, <1>3, <1>4, <1>5, <1>6, <1>7, <1>8, <1>9, Types DEF Init, RecreatesForARect

LEMMA ReaderTypes ==
    ASSUME TypeOK, RecreatesForARect, Receive
    PROVE  TypeOK' /\ RecreatesForARect'
<1> USE FlowAssumption, Types, TypesAfter DEF sending
<1>1. CASE ReadUpdate
  <2>1. Head(toClient) \in Updates
    BY <1>1, TakenOff DEF ReadUpdate, Updates, EndMessages
  <2>2. toClient' \in Seq(Updates \cup EndMessages)
    BY <1>1, TakenOff DEF ReadUpdate
  <2>3. reader' \in ReaderType /\ reader'.at = "rects"
    BY <1>1, <2>1 DEF ReadUpdate, ReaderType, Updates
  <2> QED
    BY <1>1, <2>2, <2>3 DEF ReadUpdate, RecreatesForARect
<1>2. CASE ReadEnd
  <2>1. toClient' \in Seq(Updates \cup EndMessages)
    BY <1>2, TakenOff DEF ReadEnd
  <2>2. reader' \in ReaderType /\ reader'.at # "recreate"
    BY <1>2 DEF ReadEnd, ReaderType
  <2> QED
    BY <1>2, <2>1, <2>2 DEF ReadEnd, RecreatesForARect, StateType
<1>3. ASSUME reader.rects # <<>> PROVE Tail(reader.rects) \in Seq(Rects) /\ Head(reader.rects) \in Rects
  BY <1>3, TakenOff DEF ReaderType
<1>4. CASE DecodeFrame
  <2>1. reader' \in ReaderType /\ reader'.at # "recreate"
    BY <1>3, <1>4 DEF DecodeFrame, NextIs, ReaderType
  <2> QED
    BY <1>4, <2>1 DEF DecodeFrame, RecreatesForARect
<1>5. CASE IgnoreResize
  <2>1. reader' \in ReaderType /\ reader'.at # "recreate"
    BY <1>3, <1>5 DEF IgnoreResize, NextIs, ReaderType
  <2> QED
    BY <1>5, <2>1 DEF IgnoreResize, RecreatesForARect
<1>6. CASE Resize
  <2>1. reader' \in ReaderType /\ reader'.rects # <<>>
    BY <1>6 DEF Resize, NextIs, ReaderType
  <2> QED
    BY <1>6, <2>1 DEF Resize, ResetIncremental, RecreatesForARect, StateType
<1>7. CASE Recreate
  <2>1. Head(reader.rects).size \in Sizes
    BY <1>3, <1>7 DEF Recreate, RecreatesForARect, Rects
  <2>2. framebuffer' \in Framebuffers
    BY <1>7, <2>1 DEF Recreate, Replace, Framebuffers, ReaderType
  <2>3. reader' \in ReaderType /\ reader'.at # "recreate"
    BY <1>3, <1>7 DEF Recreate, RecreatesForARect, ReaderType
  <2> QED
    BY <1>7, <2>2, <2>3 DEF Recreate, Replace, RecreatesForARect
<1>8. CASE FinishUpdate \/ PrepareRequest
  <2>1. CASE FinishUpdate
    BY <2>1 DEF FinishUpdate, ReaderType, RecreatesForARect
  <2>2. CASE PrepareRequest
    <3>1. framebuffer.size \in Sizes /\ (~state.incremental) \in BOOLEAN
      BY DEF Framebuffers, StateType
    <3>2. reader' \in ReaderType /\ reader'.at # "recreate"
      BY <2>2, <3>1 DEF PrepareRequest, ReaderType
    <3> QED
      BY <2>2, <3>2 DEF PrepareRequest, RecreatesForARect
  <2> QED
    BY <1>8, <2>1, <2>2
<1>9. CASE WriteRequest
  <2>1. Request(reader.full, reader.size) \in Requests \cup DepthMessages
    BY DEF Request, Requests, ReaderType
  <2>2. toServer' \in Seq(Requests \cup DepthMessages)
    BY <1>9, <2>1, Appended DEF WriteRequest
  <2>3. reader' \in ReaderType /\ reader'.at # "recreate"
    BY <1>9 DEF WriteRequest, ReaderType
  <2> QED
    BY <1>9, <2>2, <2>3 DEF WriteRequest, RecreatesForARect
<1>10. CASE SetIncremental
  <2>1. reader' \in ReaderType /\ reader'.at # "recreate"
    BY <1>10 DEF SetIncremental, ReaderType
  <2>2. state' \in StateType
    BY <1>10 DEF SetIncremental, ReaderType, StateType
  <2> QED
    BY <1>10, <2>1, <2>2 DEF SetIncremental, RecreatesForARect
<1> QED
  BY <1>1, <1>2, <1>4, <1>5, <1>6, <1>7, <1>8, <1>9, <1>10 DEF Receive

(* The steps of updateColorDepth and of the send Task. *)
DepthStep == (\E depth \in Depths : UpdateColorDepth(depth)) \/ UpdatesColorDepth \/ Send

LEMMA DepthTypes ==
    ASSUME TypeOK, RecreatesForARect, DepthStep
    PROVE  TypeOK' /\ RecreatesForARect'
<1> USE FlowAssumption, Types, TypesAfter DEF sending
<1>1. ASSUME NEW depth \in Depths, UpdateColorDepth(depth) PROVE TypeOK' /\ RecreatesForARect'
  <2>1. [framebuffer EXCEPT !.depth = depth] \in Framebuffers
    BY DEF Framebuffers
  <2>2. Append(queue, depth) \in Seq(Depths)
    BY Appended
  <2>3. owner' \in OwnerType
    BY <1>1, <2>1, <2>2 DEF UpdateColorDepth, OwnerType
  <2> QED
    BY <1>1, <2>3 DEF UpdateColorDepth, RecreatesForARect
<1>2. CASE Enqueue
  <2>1. owner' \in OwnerType /\ queue' \in Seq(Depths)
    BY <1>2 DEF Enqueue, OwnerType
  <2> QED
    BY <1>2, <2>1 DEF Enqueue, RecreatesForARect
<1>3. CASE OwnerResets
  <2>1. owner' \in OwnerType
    BY <1>3 DEF OwnerResets, OwnerType
  <2> QED
    BY <1>3, <2>1 DEF OwnerResets, ResetIncremental, RecreatesForARect, StateType
<1>4. CASE OwnerReplaces
  <2>1. owner' \in OwnerType /\ framebuffer' \in Framebuffers
    BY <1>4 DEF OwnerReplaces, Replace, OwnerType
  <2>2. reader' \in ReaderType /\ reader'.at = reader.at /\ reader'.rects = reader.rects
    BY <1>4 DEF OwnerReplaces, ReaderType
  <2> QED
    BY <1>4, <2>1, <2>2 DEF OwnerReplaces, Replace, RecreatesForARect
<1>5. CASE Dequeue
  <2>1. Head(queue) \in Depths /\ Tail(queue) \in Seq(Depths)
    BY <1>5, TakenOff DEF Dequeue
  <2>2. sender' \in SenderType
    BY <1>5, <2>1 DEF Dequeue, SenderType
  <2> QED
    BY <1>5, <2>2 DEF Dequeue, RecreatesForARect
<1>6. CASE StoreRest
  <2>1. sender' \in SenderType /\ queue' \in Seq(Depths)
    BY <1>6 DEF StoreRest, SenderType
  <2> QED
    BY <1>6, <2>1 DEF StoreRest, RecreatesForARect
<1>7. CASE WriteDepth
  <2>1. [kind |-> "depth", depth |-> sender.depth] \in Requests \cup DepthMessages
    BY DEF DepthMessages, SenderType
  <2>2. toServer' \in Seq(Requests \cup DepthMessages)
    BY <1>7, <2>1, Appended DEF WriteDepth
  <2>3. sender' \in SenderType
    BY <1>7 DEF WriteDepth, SenderType
  <2> QED
    BY <1>7, <2>2, <2>3 DEF WriteDepth, RecreatesForARect
<1> QED
  BY <1>1, <1>2, <1>3, <1>4, <1>5, <1>6, <1>7 DEF DepthStep, UpdatesColorDepth, Send

(* The updates the server sends are made of rectangles of known sizes. *)
LEMMA ServerUpdatesType ==
    ASSUME TypeOK, ServerUpdates
    PROVE  /\ toClient' \in Seq(Updates \cup EndMessages)
           /\ server' \in ServerType
           /\ Len(toClient') = Len(toClient) + 1
           /\ toClient'[Len(toClient) + 1].kind = "update"
           /\ \A i \in 1..Len(toClient) : toClient'[i] = toClient[i]
<1> USE FlowAssumption, Types, TypesAfter DEF sending
<1>1. Change(server.owed > 0) \in Rects /\ NewSize \in Rects
  BY DEF Change, NewSize, Rects, ServerType, Smaller
<1>2. \E rects \in Seq(Rects) : toClient' = Append(toClient, [kind |-> "update", rects |-> rects])
  <2>1. /\ <<NewSize>> \in Seq(Rects) /\ <<Change(server.owed > 0)>> \in Seq(Rects)
        /\ <<NewSize, Change(server.owed > 0)>> \in Seq(Rects)
    BY <1>1
  <2> QED
    BY <2>1 DEF ServerUpdates
<1>3. PICK update \in Updates : toClient' = Append(toClient, update) /\ update.kind = "update"
  <2>1. PICK rects \in Seq(Rects) :
          toClient' = Append(toClient, [kind |-> "update", rects |-> rects])
    BY <1>2
  <2>2. [kind |-> "update", rects |-> rects] \in Updates
    BY DEF Updates
  <2> QED
    BY <2>1, <2>2
<1>4. server' \in ServerType
  <2>1. (server.owed > 0) \in BOOLEAN
    BY DEF ServerType
  <2>2. \/ server' = [server EXCEPT !.wants = FALSE, !.owed = 0]
        \/ server' = [server EXCEPT !.wants = FALSE, !.owed = 0, !.announced = TRUE]
        \/ server' = [server EXCEPT !.wants = server.owed > 0, !.announced = TRUE]
    BY DEF ServerUpdates
  <2>3. CASE server' = [server EXCEPT !.wants = FALSE, !.owed = 0]
    BY <2>3 DEF ServerType
  <2>4. CASE server' = [server EXCEPT !.wants = FALSE, !.owed = 0, !.announced = TRUE]
    BY <2>4 DEF ServerType
  <2>5. CASE server' = [server EXCEPT !.wants = server.owed > 0, !.announced = TRUE]
    BY <2>1, <2>5 DEF ServerType
  <2> QED
    BY <2>2, <2>3, <2>4, <2>5
<1> QED
  BY <1>3, <1>4, Appended

LEMMA ServerTypes ==
    ASSUME TypeOK, RecreatesForARect,
           ServerReads \/ DesktopResizes \/ ServerUpdates \/ ServerEndsCU
    PROVE  TypeOK' /\ RecreatesForARect'
<1> USE FlowAssumption, Types, TypesAfter DEF sending
<1>1. CASE ServerReads
  <2>1. /\ Head(toServer) \in Requests \cup DepthMessages
        /\ toServer' \in Seq(Requests \cup DepthMessages)
    BY <1>1, TakenOff DEF ServerReads
  <2>2. server' \in ServerType
    BY <1>1, <2>1 DEF ServerReads, ServerType, Requests, DepthMessages, Larger
  <2> QED
    BY <1>1, <2>1, <2>2 DEF ServerReads, RecreatesForARect
<1>2. CASE DesktopResizes
  <2>1. PICK size \in Sizes :
          server' = [server EXCEPT !.desktop = size, !.announced = FALSE, !.resizes = @ + 1]
    BY <1>2 DEF DesktopResizes
  <2>2. server.resizes + 1 \in 0..MaxResizes
    <3>1. server.resizes \in 0..MaxResizes /\ server.resizes < MaxResizes
      BY <1>2 DEF DesktopResizes, ServerType
    <3> QED
      BY <3>1
  <2>3. server' \in ServerType
    BY <2>1, <2>2 DEF ServerType
  <2> QED
    BY <1>2, <2>3 DEF DesktopResizes, RecreatesForARect
<1>3. CASE ServerUpdates
  BY <1>3, ServerUpdatesType DEF ServerUpdates, RecreatesForARect
<1>4. CASE ServerEndsCU
  <2>1. [kind |-> "end"] \in Updates \cup EndMessages
    BY DEF EndMessages
  <2>2. toClient' \in Seq(Updates \cup EndMessages)
    BY <1>4, <2>1, Appended DEF ServerEndsCU
  <2>3. server' \in ServerType
    <3>1. server.ends \in 0..EndsOfCU /\ server.ends < EndsOfCU
      BY <1>4 DEF ServerEndsCU, ServerType
    <3>2. server.ends + 1 \in 0..EndsOfCU
      BY <3>1
    <3> QED
      BY <1>4, <3>2 DEF ServerEndsCU, ServerType
  <2> QED
    BY <1>4, <2>2, <2>3 DEF ServerEndsCU, RecreatesForARect
<1> QED
  BY <1>1, <1>2, <1>3, <1>4

(* An error ends the connection and leaves the rest well-typed. *)
LEMMA FailsTypes ==
    ASSUME TypeOK, RecreatesForARect, Fails
    PROVE  TypeOK' /\ RecreatesForARect' /\ ~Lives'
<1> USE Types, TypesAfter DEF sending
<1>1. state' \in StateType /\ ~Lives'
  BY DEF Fails, RecreateFails, ReplaceFails, LostThrows, EndConnection, StateType, Lives
<1>2. CASE RecreateFails
  <2>1. Tail(reader.rects) \in Seq(Rects)
    BY <1>2, TakenOff DEF RecreateFails, RecreatesForARect, ReaderType
  <2>2. reader' \in ReaderType /\ reader'.at # "recreate"
    BY <1>2, <2>1 DEF RecreateFails, ReaderType
  <2> QED
    BY <1>1, <1>2, <2>2 DEF RecreateFails, EndConnection, RecreatesForARect
<1>3. CASE ReplaceFails
  <2>1. owner' \in OwnerType
    BY <1>3 DEF ReplaceFails, OwnerType
  <2> QED
    BY <1>1, <1>3, <2>1 DEF ReplaceFails, EndConnection, RecreatesForARect
<1>4. CASE LostThrows
  BY <1>1, <1>4 DEF LostThrows, EndConnection, RecreatesForARect
<1> QED
  BY <1>2, <1>3, <1>4 DEF Fails

LEMMA StepTypes ==
    TypeOK /\ RecreatesForARect /\ [Next]_vars => TypeOK' /\ RecreatesForARect'
<1>1. TypeOK /\ RecreatesForARect /\ UNCHANGED vars => TypeOK' /\ RecreatesForARect'
  BY DEF vars, sending, TypeOK, RecreatesForARect
<1> QED
  BY <1>1, ReaderTypes, DepthTypes, ServerTypes, FailsTypes DEF Next, DepthStep

(* A connection that is ended stays so. *)
LEMMA EndIsFinal ==
    ASSUME TypeOK, [Next]_vars, Lives'
    PROVE  Lives
<1> USE Types DEF Lives
<1>1. CASE Receive
  BY <1>1 DEF Receive, ReadUpdate, ReadEnd, DecodeFrame, IgnoreResize, Resize, Recreate,
     FinishUpdate, PrepareRequest, WriteRequest, SetIncremental, ResetIncremental, StateType
<1>2. CASE DepthStep
  BY <1>2 DEF DepthStep, UpdateColorDepth, UpdatesColorDepth, Enqueue, OwnerResets,
     OwnerReplaces, Send, Dequeue, StoreRest, WriteDepth, ResetIncremental, StateType
<1>3. CASE ServerReads \/ DesktopResizes \/ ServerUpdates \/ ServerEndsCU
  BY <1>3 DEF ServerReads, DesktopResizes, ServerUpdates, ServerEndsCU
<1>4. CASE Fails
  BY <1>4 DEF Fails, RecreateFails, ReplaceFails, LostThrows, EndConnection, StateType
<1>5. CASE UNCHANGED vars
  BY <1>5 DEF vars
<1> QED
  BY <1>1, <1>2, <1>3, <1>4, <1>5 DEF Next, DepthStep

(* Two threads and a server may replace framebuffers, sizes and depths in any order:
   what they hold, send and queue stays of its kind.                                 *)
THEOREM TypeCorrect == SafeSpec => []TypeOK
BY InitTypes, StepTypes, PTL DEF SafeSpec

-----------------------------------------------------------------------------
(***************************************************************************)
(* The stream.  StreamAlive alone is not inductive: the Task goes back to  *)
(* "read" after SetIncremental, and by then the request it wrote may have  *)
(* been read, and answered.  WrittenIsSent says where it went.             *)
(***************************************************************************)
Stream == WrittenIsSent /\ StreamAlive

(* The other parties may move the token, not lose it. *)
LEMMA TokenMoves ==
    ASSUME Stream, reader'.at = reader.at, state'.cuEnabled = state.cuEnabled,
           Lives' => Lives, TokenElsewhere => TokenElsewhere'
    PROVE  Stream'
BY DEF Stream, WrittenIsSent, StreamAlive, TokenExists, TokenElsewhere

(* While the Task is between two reads it will see to the next request itself. *)
LEMMA TaskHoldsToken ==
    ASSUME reader'.at \notin {"read", "written"}
    PROVE  Stream'
BY DEF Stream, WrittenIsSent, StreamAlive, TokenExists

LEMMA StillSent ==
    ASSUME TypeOK, NEW x \in Requests \cup DepthMessages, toServer' = Append(toServer, x)
    PROVE  /\ Sent("request") => Sent("request")'
           /\ x.kind = "request" => Sent("request")'
<1>1. toServer \in Seq(Requests \cup DepthMessages) /\ Len(toServer) \in Nat
  BY DEF TypeOK
<1>2. /\ Len(toServer') = Len(toServer) + 1
      /\ \A i \in 1..Len(toServer) : toServer'[i] = toServer[i]
      /\ toServer'[Len(toServer) + 1] = x
  BY <1>1, Appended
<1> QED
  BY <1>1, <1>2 DEF Sent

LEMMA ReceiveKeepsStream ==
    ASSUME TypeOK, RecreatesForARect, Stream, Receive
    PROVE  Stream'
<1> USE Types
<1>1. CASE ReadUpdate
  BY <1>1, TaskHoldsToken DEF ReadUpdate, ReaderType
<1>2. CASE ReadEnd
  <2>1. CASE state.cuSupported
    BY <1>2, <2>1, TaskHoldsToken DEF ReadEnd, ReaderType
  <2>2. CASE ~state.cuSupported
    <3>1. state'.cuEnabled /\ reader'.at = "read"
      BY <1>2, <2>2 DEF ReadEnd, ReaderType, StateType
    <3> QED
      BY <3>1 DEF Stream, WrittenIsSent, StreamAlive
  <2> QED
    BY <2>1, <2>2
<1>3. CASE DecodeFrame
  BY <1>3, TaskHoldsToken DEF DecodeFrame, ReaderType
<1>4. CASE IgnoreResize
  BY <1>4, TaskHoldsToken DEF IgnoreResize, NextIs, ReaderType
<1>5. CASE Resize \/ Recreate \/ FinishUpdate
  BY <1>5, TaskHoldsToken DEF Resize, Recreate, FinishUpdate, ReaderType
<1>6. CASE PrepareRequest
  <2>1. CASE state.cuEnabled
    <3>1. state'.cuEnabled /\ reader'.at = "read"
      BY <1>6, <2>1 DEF PrepareRequest, ReaderType
    <3> QED
      BY <3>1 DEF Stream, WrittenIsSent, StreamAlive
  <2>2. CASE ~state.cuEnabled
    BY <1>6, <2>2, TaskHoldsToken DEF PrepareRequest, ReaderType
  <2> QED
    BY <2>1, <2>2
<1>7. CASE WriteRequest
  <2>1. /\ Request(reader.full, reader.size) \in Requests \cup DepthMessages
        /\ Request(reader.full, reader.size).kind = "request"
    BY DEF Request, Requests, ReaderType
  <2>2. Sent("request")'
    BY <1>7, <2>1, StillSent DEF WriteRequest
  <2>3. reader'.at = "written"
    BY <1>7 DEF WriteRequest, ReaderType
  <2> QED
    BY <2>2, <2>3 DEF Stream, WrittenIsSent, StreamAlive, TokenExists, TokenElsewhere
<1>8. CASE SetIncremental
  <2>1. TokenElsewhere
    BY <1>8 DEF SetIncremental, Stream, WrittenIsSent
  <2>2. TokenElsewhere'
    BY <1>8, <2>1 DEF SetIncremental, TokenElsewhere, Sent
  <2>3. reader'.at = "read"
    BY <1>8 DEF SetIncremental, ReaderType
  <2> QED
    BY <2>2, <2>3 DEF Stream, WrittenIsSent, StreamAlive, TokenExists, TokenElsewhere
<1> QED
  BY <1>1, <1>2, <1>3, <1>4, <1>5, <1>6, <1>7, <1>8 DEF Receive

LEMMA DepthKeepsStream ==
    ASSUME TypeOK, Stream, Lives' => Lives, DepthStep
    PROVE  Stream'
<1> USE Types DEF sending
<1>1. CASE \E depth \in Depths : UpdateColorDepth(depth)
  BY <1>1, TokenMoves DEF UpdateColorDepth, TokenElsewhere, Sent
<1>2. CASE OwnerResets
  BY <1>2, TokenMoves DEF OwnerResets, ResetIncremental, TokenElsewhere, Sent, StateType
<1>3. CASE OwnerReplaces
  BY <1>3, TokenMoves DEF OwnerReplaces, Replace, TokenElsewhere, Sent, ReaderType
<1>4. CASE Enqueue \/ Dequeue \/ StoreRest
  BY <1>4, TokenMoves DEF Enqueue, Dequeue, StoreRest, TokenElsewhere, Sent
<1>5. CASE WriteDepth
  <2>1. [kind |-> "depth", depth |-> sender.depth] \in Requests \cup DepthMessages
    BY DEF DepthMessages, SenderType
  <2>2. Sent("request") => Sent("request")'
    BY <1>5, <2>1, StillSent DEF WriteDepth
  <2> QED
    BY <1>5, <2>2, TokenMoves DEF WriteDepth, TokenElsewhere
<1> QED
  BY <1>1, <1>2, <1>3, <1>4, <1>5 DEF DepthStep, UpdatesColorDepth, Send

LEMMA ServerKeepsStream ==
    ASSUME TypeOK, Stream, Lives' => Lives,
           ServerReads \/ DesktopResizes \/ ServerUpdates \/ ServerEndsCU
    PROVE  Stream'
<1> USE Types
<1>1. CASE ServerReads
  <2>1. /\ Head(toServer) = toServer[1]
        /\ \A i \in 2..Len(toServer) :
              i - 1 \in 1..Len(toServer') /\ toServer'[i - 1] = toServer[i]
    BY <1>1, TakenOff DEF ServerReads
  <2>2. server.wants => server'.wants
    BY <1>1 DEF ServerReads, ServerType
  <2>3. CASE toServer[1].kind = "request"
    <3>1. server'.wants
      BY <1>1, <2>1, <2>3 DEF ServerReads, ServerType
    <3> QED
      BY <1>1, <3>1, TokenMoves DEF ServerReads, TokenElsewhere
  <2>4. CASE toServer[1].kind # "request"
    <3>1. Sent("request") => Sent("request")'
      <4>1. ASSUME NEW i \in 1..Len(toServer), toServer[i].kind = "request"
            PROVE  Sent("request")'
        <5>1. i \in 2..Len(toServer)
          BY <2>4, <4>1
        <5> QED
          BY <2>1, <4>1, <5>1 DEF Sent
      <4> QED
        BY <4>1 DEF Sent
    <3> QED
      BY <1>1, <2>2, <3>1, TokenMoves DEF ServerReads, TokenElsewhere
  <2> QED
    BY <2>3, <2>4
<1>2. CASE DesktopResizes
  BY <1>2, TokenMoves DEF DesktopResizes, TokenElsewhere, Sent, ServerType
<1>3. CASE ServerUpdates
  <2>1. Len(toClient) + 1 \in 1..Len(toClient') /\ toClient'[Len(toClient) + 1].kind = "update"
    BY <1>3, ServerUpdatesType
  <2>2. TokenElsewhere'
    BY <2>1 DEF TokenElsewhere
  <2> QED
    BY <1>3, <2>2, TokenMoves DEF ServerUpdates
<1>4. CASE ServerEndsCU
  <2>1. [kind |-> "end"] \in Updates \cup EndMessages
    BY DEF EndMessages
  <2>2. /\ Len(toClient') = Len(toClient) + 1
        /\ \A i \in 1..Len(toClient) : toClient'[i] = toClient[i]
    BY <1>4, <2>1, Appended DEF ServerEndsCU
  <2>3. server'.wants = server.wants /\ toServer' = toServer
    BY <1>4 DEF ServerEndsCU, ServerType
  <2>4. TokenElsewhere => TokenElsewhere'
    BY <2>2, <2>3 DEF TokenElsewhere, Sent
  <2> QED
    BY <1>4, <2>4, TokenMoves DEF ServerEndsCU
<1> QED
  BY <1>1, <1>2, <1>3, <1>4

(* An error ends the connection; the Task may still be writing. *)
LEMMA FailsKeepStream ==
    ASSUME TypeOK, RecreatesForARect, Stream, Fails
    PROVE  Stream'
<1>1. StreamAlive'
  BY FailsTypes DEF StreamAlive
<1>2. reader'.at = "written" => reader.at = "written"
  BY Types DEF Fails, RecreateFails, ReplaceFails, LostThrows, ReaderType
<1>3. TokenElsewhere => TokenElsewhere'
  BY DEF Fails, RecreateFails, ReplaceFails, LostThrows, EndConnection, TokenElsewhere, Sent
<1> QED
  BY <1>1, <1>2, <1>3 DEF Stream, WrittenIsSent

(* Whatever the desktop, the owner and the server do, a connected client that asks for
   updates and has not lost its place in the stream has a request or an answer under way:
   no number and no order of resizes and ends of continuous updates freezes the picture.
   A change of depth may make the client lose its place; of what follows nothing is said. *)
THEOREM StreamStaysAlive == SafeSpec => []StreamAlive
<1>1. Init => IInv
  <2>1. ASSUME Init PROVE Stream
    <3>1. reader.at = "read"
      BY <2>1 DEF Init
    <3>2. CASE RequestUpdates
      <4>1. toServer = <<Request(TRUE, FirstSize)>>
        BY <2>1, <3>2 DEF Init
      <4>2. Len(toServer) = 1 /\ toServer[1].kind = "request"
        BY <4>1 DEF Request
      <4> QED
        BY <3>1, <4>2 DEF Stream, WrittenIsSent, StreamAlive, TokenExists, Sent
    <3>3. CASE ~RequestUpdates
      BY <3>1, <3>3 DEF Stream, WrittenIsSent, StreamAlive
    <3> QED
      BY <3>2, <3>3
  <2> QED
    BY <2>1, InitTypes DEF IInv, Stream
<1>2. IInv /\ [Next]_vars => IInv'
  <2> SUFFICES ASSUME IInv, [Next]_vars PROVE IInv'
    OBVIOUS
  <2>1. TypeOK /\ RecreatesForARect /\ Stream
    BY DEF IInv, Stream
  <2>2. TypeOK' /\ RecreatesForARect'
    BY <2>1, StepTypes
  <2>3. CASE UNCHANGED vars
    BY <2>1, <2>2, <2>3, TokenMoves DEF vars, IInv, Stream, TokenElsewhere, Sent, Lives
  <2>4. CASE Next
    <3>1. Stream'
      BY <2>1, <2>4, EndIsFinal, ReceiveKeepsStream, DepthKeepsStream, ServerKeepsStream,
         FailsKeepStream DEF Next, DepthStep
    <3> QED
      BY <2>2, <3>1 DEF IInv, Stream
  <2> QED
    BY <2>3, <2>4
<1>3. IInv => StreamAlive
  BY DEF IInv
<1> QED
  BY <1>1, <1>2, <1>3, PTL DEF SafeSpec

-----------------------------------------------------------------------------
(***************************************************************************)
(* The size.  FollowsDesktop says that some announcement is under way; the *)
(* induction needs the last one, and that it names the desktop's size.     *)
(* This holds when only the receive Task replaces the framebuffer.         *)
(***************************************************************************)
ResizesFirst(rects) == \A k \in 2..Len(rects) : rects[k].kind = "frame"
Announces(rects)    == rects # <<>> /\ rects[1].kind = "resize"
MessageAnnounces(m) == m.kind = "update" /\ Announces(m.rects)
ReaderAnnounces     == reader.at \in {"rects", "recreate"} /\ Announces(reader.rects)

(* A new size comes first in its update. *)
OrderOfRects ==
    /\ \A i \in 1..Len(toClient) : toClient[i].kind = "update" => ResizesFirst(toClient[i].rects)
    /\ ResizesFirst(reader.rects)

(* When the Task meets it, it decodes into the current framebuffer. *)
MeetsIt ==
    /\ reader.at = "recreate" => Announces(reader.rects)
    /\ ReaderAnnounces => reader.attached /\ reader.held = framebuffer

LastOnTheWire ==
    \E i \in 1..Len(toClient) :
        /\ MessageAnnounces(toClient[i]) /\ toClient[i].rects[1].size = server.desktop
        /\ \A j \in i + 1..Len(toClient) : ~MessageAnnounces(toClient[j])
LastInHand ==
    /\ \A j \in 1..Len(toClient) : ~MessageAnnounces(toClient[j])
    /\ IF ReaderAnnounces THEN reader.rects[1].size = server.desktop
                          ELSE framebuffer.size = server.desktop

LastIsRight == server.announced => LastOnTheWire \/ LastInHand

Following == OrderOfRects /\ MeetsIt /\ LastIsRight /\ owner.at = "idle"

LEMMA NothingMoves ==
    ASSUME Following, toClient' = toClient, framebuffer' = framebuffer,
           server'.desktop = server.desktop, server'.announced = server.announced,
           reader'.rects = reader.rects, reader'.held = reader.held,
           reader'.attached = reader.attached, owner'.at = "idle",
           ReaderAnnounces' <=> ReaderAnnounces,
           reader'.at = "recreate" => Announces(reader.rects)
    PROVE  Following'
<1>1. OrderOfRects'
  BY DEF Following, OrderOfRects
<1>2. MeetsIt'
  BY DEF Following, MeetsIt
<1>3. LastOnTheWire => LastOnTheWire'
  BY DEF LastOnTheWire
<1>4. LastInHand => LastInHand'
  BY DEF LastInHand
<1>5. LastIsRight'
  BY <1>3, <1>4 DEF Following, LastIsRight
<1> QED
  BY <1>1, <1>2, <1>5 DEF Following

(* What is left of an update after its first rectangle announces nothing. *)
LEMMA RestIsFrames ==
    ASSUME NEW rects \in Seq(Rects), ResizesFirst(rects), rects # <<>>
    PROVE  ResizesFirst(Tail(rects)) /\ ~Announces(Tail(rects)) /\ Head(rects) = rects[1]
<1>1. /\ Head(rects) = rects[1]
      /\ Tail(rects) \in Seq(Rects)
      /\ \A k \in 1..Len(Tail(rects)) : k + 1 \in 2..Len(rects) /\ Tail(rects)[k] = rects[k + 1]
  BY TakenOff
<1>2. \A k \in 1..Len(Tail(rects)) : Tail(rects)[k].kind = "frame"
  BY <1>1 DEF ResizesFirst
<1>3. Tail(rects) # <<>> => 1 \in 1..Len(Tail(rects))
  BY <1>1
<1>4. Len(Tail(rects)) \in Nat
  BY <1>1
<1> QED
  BY <1>1, <1>2, <1>3, <1>4 DEF ResizesFirst, Announces

(* The Task is done with a rectangle; if it was an announcement, the framebuffer has its size. *)
LEMMA RectIsHandled ==
    ASSUME TypeOK, Following, reader.rects # <<>>, reader.at \in {"rects", "recreate"},
           toClient' = toClient, server' = server, owner' = owner,
           reader'.rects = Tail(reader.rects), reader'.at # "recreate",
           IF Announces(reader.rects) THEN framebuffer'.size = reader.rects[1].size
                                      ELSE framebuffer' = framebuffer
    PROVE  Following'
<1>1. /\ ResizesFirst(reader'.rects) /\ ~Announces(reader'.rects)
  BY RestIsFrames, Types DEF ReaderType, Following, OrderOfRects
<1>2. OrderOfRects'
  BY <1>1 DEF Following, OrderOfRects
<1>3. MeetsIt' /\ ~ReaderAnnounces'
  BY <1>1 DEF MeetsIt, ReaderAnnounces
<1>4. LastOnTheWire => LastOnTheWire'
  BY DEF LastOnTheWire
<1>5. LastInHand => LastInHand'
  BY <1>3 DEF LastInHand, ReaderAnnounces
<1>6. LastIsRight'
  BY <1>4, <1>5 DEF Following, LastIsRight
<1> QED
  BY <1>2, <1>3, <1>6 DEF Following

(* The Task takes the first message off the wire. *)
LEMMA MessageIsRead ==
    ASSUME TypeOK, Following, reader.at = "read", toClient # <<>>,
           toClient' = Tail(toClient), framebuffer' = framebuffer, server' = server,
           owner' = owner, ResizesFirst(reader'.rects), MeetsIt',
           ReaderAnnounces' <=> MessageAnnounces(Head(toClient)),
           MessageAnnounces(Head(toClient)) => reader'.rects = Head(toClient).rects
    PROVE  Following'
<1>1. /\ Head(toClient) = toClient[1]
      /\ Len(toClient) \in Nat /\ Len(toClient') \in Nat
      /\ \A i \in 2..Len(toClient) : i - 1 \in 1..Len(toClient') /\ toClient'[i - 1] = toClient[i]
      /\ \A i \in 1..Len(toClient') : i + 1 \in 2..Len(toClient) /\ toClient'[i] = toClient[i + 1]
  <2>1. toClient \in Seq(Updates \cup EndMessages)
    BY Types
  <2> QED
    BY <2>1, TakenOff
<1>2. OrderOfRects'
  BY <1>1 DEF Following, OrderOfRects
<1>3. ~ReaderAnnounces
  BY DEF ReaderAnnounces
<1>4. LastOnTheWire => LastOnTheWire' \/ LastInHand'
  <2> SUFFICES ASSUME NEW i \in 1..Len(toClient),
                      MessageAnnounces(toClient[i]), toClient[i].rects[1].size = server.desktop,
                      \A j \in i + 1..Len(toClient) : ~MessageAnnounces(toClient[j])
               PROVE  LastOnTheWire' \/ LastInHand'
    BY DEF LastOnTheWire
  <2>1. CASE i = 1
    <3>1. \A j \in 1..Len(toClient') : ~MessageAnnounces(toClient'[j])
      BY <1>1, <2>1
    <3>2. ReaderAnnounces' /\ reader'.rects[1].size = server'.desktop
      BY <1>1, <2>1
    <3> QED
      BY <3>1, <3>2 DEF LastInHand, MessageAnnounces, Announces
  <2>2. CASE i # 1
    <3>1. i - 1 \in 1..Len(toClient') /\ toClient'[i - 1] = toClient[i]
      BY <1>1, <2>2
    <3>2. \A j \in (i - 1) + 1..Len(toClient') : ~MessageAnnounces(toClient'[j])
      BY <1>1, <2>2
    <3> QED
      BY <3>1, <3>2 DEF LastOnTheWire, MessageAnnounces, Announces
  <2> QED
    BY <2>1, <2>2
<1>5. LastInHand => LastInHand'
  <2> SUFFICES ASSUME LastInHand PROVE LastInHand'
    OBVIOUS
  <2>1. ~MessageAnnounces(Head(toClient))
    <3>1. 1 \in 1..Len(toClient)
      <4>1. toClient \in Seq(Updates \cup EndMessages)
        BY Types
      <4> QED
        BY <4>1
    <3> QED
      BY <1>1, <3>1 DEF LastInHand
  <2>2. \A j \in 1..Len(toClient') : ~MessageAnnounces(toClient'[j])
    BY <1>1 DEF LastInHand
  <2>3. framebuffer'.size = server'.desktop /\ ~ReaderAnnounces'
    BY <1>3, <2>1 DEF LastInHand
  <2> QED
    BY <2>2, <2>3 DEF LastInHand, MessageAnnounces, Announces
<1>6. LastIsRight'
  BY <1>4, <1>5 DEF Following, LastIsRight
<1> QED
  BY <1>2, <1>6 DEF Following

(* The server puts a message on the wire: the announcement of its size, or none. *)
LEMMA MessageIsSent ==
    ASSUME TypeOK, Following, NEW m \in Updates \cup EndMessages,
           toClient' = Append(toClient, m),
           reader' = reader, framebuffer' = framebuffer, owner' = owner,
           server'.desktop = server.desktop,
           m.kind = "update" => ResizesFirst(m.rects),
           IF MessageAnnounces(m) THEN m.rects[1].size = server.desktop
                                  ELSE server'.announced = server.announced
    PROVE  Following'
<1>1. /\ Len(toClient) \in Nat
      /\ Len(toClient') = Len(toClient) + 1
      /\ \A i \in 1..Len(toClient) : toClient'[i] = toClient[i]
      /\ toClient'[Len(toClient) + 1] = m
  <2>1. toClient \in Seq(Updates \cup EndMessages)
    BY Types
  <2> QED
    BY <2>1, Appended
<1>2. OrderOfRects'
  BY <1>1 DEF Following, OrderOfRects
<1>3. MeetsIt'
  BY DEF Following, MeetsIt, ReaderAnnounces
<1>4. CASE MessageAnnounces(m)
  <2>1. \A j \in (Len(toClient) + 1) + 1..Len(toClient') : ~MessageAnnounces(toClient'[j])
    BY <1>1
  <2>2. LastOnTheWire'
    BY <1>1, <1>4, <2>1 DEF LastOnTheWire, MessageAnnounces, Announces
  <2> QED
    BY <1>2, <1>3, <2>2 DEF Following, LastIsRight
<1>5. CASE ~MessageAnnounces(m)
  <2>1. ASSUME NEW n \in Nat, \A j \in n..Len(toClient) : ~MessageAnnounces(toClient[j]), n >= 1
        PROVE  \A j \in n..Len(toClient') : ~MessageAnnounces(toClient'[j])
    BY <1>1, <1>5, <2>1
  <2>2. LastOnTheWire => LastOnTheWire'
    <3> SUFFICES ASSUME NEW i \in 1..Len(toClient),
                        MessageAnnounces(toClient[i]), toClient[i].rects[1].size = server.desktop,
                        \A j \in i + 1..Len(toClient) : ~MessageAnnounces(toClient[j])
                 PROVE  LastOnTheWire'
      BY DEF LastOnTheWire
    <3>1. i + 1 \in Nat /\ i + 1 >= 1
      OBVIOUS
    <3>3. \A j \in i + 1..Len(toClient') : ~MessageAnnounces(toClient'[j])
      BY <2>1, <3>1
    <3>2. i \in 1..Len(toClient') /\ toClient'[i] = toClient[i]
      BY <1>1
    <3> QED
      BY <3>3, <3>2 DEF LastOnTheWire, MessageAnnounces, Announces
  <2>3. LastInHand => LastInHand'
    <3> SUFFICES ASSUME LastInHand PROVE LastInHand'
      OBVIOUS
    <3>1. \A j \in 1..Len(toClient') : ~MessageAnnounces(toClient'[j])
      BY <2>1 DEF LastInHand
    <3> QED
      BY <3>1 DEF LastInHand, ReaderAnnounces, MessageAnnounces, Announces
  <2> QED
    BY <1>2, <1>3, <1>5, <2>2, <2>3 DEF Following, LastIsRight
<1> QED
  BY <1>4, <1>5

LEMMA ReceiveFollows ==
    ASSUME TypeOK, Following, Receive
    PROVE  Following'
<1> USE Types
<1>0. /\ reader.rects \in Seq(Rects) /\ ResizesFirst(reader.rects)
      /\ toClient \in Seq(Updates \cup EndMessages)
      /\ owner.at = "idle"
  BY DEF ReaderType, Following, OrderOfRects
<1>1. CASE ReadUpdate
  <2>1. /\ Head(toClient) \in Updates /\ Head(toClient) = toClient[1] /\ 1 \in 1..Len(toClient)
    BY <1>0, <1>1, TakenOff DEF ReadUpdate, Updates, EndMessages
  <2>2. /\ reader'.rects = Head(toClient).rects /\ reader'.at = "rects"
        /\ reader'.held = framebuffer /\ reader'.attached /\ framebuffer' = framebuffer
    BY <1>1 DEF ReadUpdate, ReaderType
  <2>3. ResizesFirst(reader'.rects)
    BY <1>1, <2>1, <2>2 DEF ReadUpdate, Following, OrderOfRects
  <2>4. ReaderAnnounces' <=> MessageAnnounces(Head(toClient))
    BY <1>1, <2>2 DEF ReadUpdate, ReaderAnnounces, MessageAnnounces, Announces
  <2>5. MeetsIt'
    BY <2>2 DEF MeetsIt
  <2> QED
    BY <1>1, <2>2, <2>3, <2>4, <2>5, MessageIsRead DEF ReadUpdate
<1>2. CASE ReadEnd
  <2>1. reader'.rects = reader.rects /\ reader'.at \in {"request", "read"}
    BY <1>2 DEF ReadEnd, ReaderType
  <2>2. ~ReaderAnnounces' /\ ~MessageAnnounces(Head(toClient)) /\ MeetsIt'
    BY <1>2, <2>1 DEF ReadEnd, ReaderAnnounces, MessageAnnounces, MeetsIt
  <2> QED
    BY <1>0, <1>2, <2>1, <2>2, MessageIsRead DEF ReadEnd
<1>3. CASE DecodeFrame
  <2>1. /\ reader'.rects = Tail(reader.rects) /\ reader'.at # "recreate"
        /\ reader.rects # <<>> /\ reader.at = "rects"
    BY <1>3 DEF DecodeFrame, NextIs, ReaderType
  <2>2. ~Announces(reader.rects)
    BY <1>0, <1>3, RestIsFrames DEF DecodeFrame, NextIs, Announces
  <2> QED
    BY <1>3, <2>1, <2>2, RectIsHandled DEF DecodeFrame
<1>4. CASE IgnoreResize
  <2>1. /\ reader'.rects = Tail(reader.rects) /\ reader'.at # "recreate"
        /\ reader.rects # <<>> /\ reader.at = "rects" /\ Head(reader.rects) = reader.rects[1]
    BY <1>0, <1>4, RestIsFrames DEF IgnoreResize, NextIs, ReaderType
  <2>2. ReaderAnnounces
    BY <1>4, <2>1 DEF IgnoreResize, NextIs, ReaderAnnounces, Announces
  <2>3. framebuffer.size = reader.rects[1].size
    BY <1>4, <2>1, <2>2 DEF IgnoreResize, SizeDidChange, Following, MeetsIt
  <2> QED
    BY <1>4, <2>1, <2>3, RectIsHandled DEF IgnoreResize
<1>5. CASE Resize
  <2>1. /\ reader'.at = "recreate" /\ reader'.rects = reader.rects /\ reader'.held = reader.held
        /\ reader'.attached = reader.attached
    BY <1>5 DEF Resize, ReaderType
  <2>2. Announces(reader.rects) /\ reader.at = "rects"
    BY <1>0, <1>5, RestIsFrames DEF Resize, NextIs, Announces
  <2>3. ReaderAnnounces' <=> ReaderAnnounces
    BY <2>1, <2>2 DEF ReaderAnnounces
  <2> QED
    BY <1>0, <1>5, <2>1, <2>2, <2>3, NothingMoves DEF Resize
<1>6. CASE Recreate
  <2>1. /\ reader'.rects = Tail(reader.rects) /\ reader'.at # "recreate"
        /\ framebuffer'.size = Head(reader.rects).size
    BY <1>6 DEF Recreate, Replace, ReaderType
  <2>2. Announces(reader.rects) /\ reader.rects # <<>>
    BY <1>6 DEF Recreate, Following, MeetsIt, Announces
  <2>3. Head(reader.rects) = reader.rects[1]
    BY <1>0, <2>2, RestIsFrames
  <2> QED
    BY <1>6, <2>1, <2>2, <2>3, RectIsHandled DEF Recreate
<1>7. CASE FinishUpdate
  <2>1. /\ reader'.at = "request" /\ reader'.rects = reader.rects /\ reader'.held = reader.held
        /\ reader'.attached = reader.attached /\ reader.rects = <<>>
    BY <1>7 DEF FinishUpdate, ReaderType
  <2>2. ~ReaderAnnounces' /\ ~ReaderAnnounces
    BY <2>1 DEF ReaderAnnounces, Announces
  <2> QED
    BY <1>0, <1>7, <2>1, <2>2, NothingMoves DEF FinishUpdate
<1>8. CASE PrepareRequest \/ WriteRequest \/ SetIncremental
  <2>1. /\ reader'.at \in {"read", "write", "written"} /\ reader.at \in {"request", "write", "written"}
        /\ reader'.rects = reader.rects /\ reader'.held = reader.held
        /\ reader'.attached = reader.attached
    BY <1>8 DEF PrepareRequest, WriteRequest, SetIncremental, ReaderType
  <2>2. ~ReaderAnnounces' /\ ~ReaderAnnounces
    BY <2>1 DEF ReaderAnnounces
  <2> QED
    BY <1>0, <1>8, <2>1, <2>2, NothingMoves DEF PrepareRequest, WriteRequest, SetIncremental
<1> QED
  BY <1>1, <1>2, <1>3, <1>4, <1>5, <1>6, <1>7, <1>8 DEF Receive

LEMMA OthersFollow ==
    ASSUME MaxDepthChanges = 0, TypeOK, Following,
           \/ DepthStep
           \/ ServerReads \/ DesktopResizes \/ ServerUpdates \/ ServerEndsCU
    PROVE  Following'
<1> USE Types
<1>0. owner.at = "idle"
  BY DEF Following
<1>1. ~\E depth \in Depths : UpdateColorDepth(depth)
  BY DEF UpdateColorDepth, OwnerType
<1>2. ~UpdatesColorDepth
  BY <1>0 DEF UpdatesColorDepth, Enqueue, OwnerResets, OwnerReplaces
<1>3. CASE Send \/ ServerReads
  <2>1. server'.desktop = server.desktop /\ server'.announced = server.announced
    BY <1>3 DEF Send, Dequeue, StoreRest, WriteDepth, ServerReads, ServerType
  <2>2. ReaderAnnounces' <=> ReaderAnnounces
    BY <1>3 DEF Send, Dequeue, StoreRest, WriteDepth, ServerReads, ReaderAnnounces
  <2> QED
    BY <1>0, <1>3, <2>1, <2>2, NothingMoves
       DEF Send, Dequeue, StoreRest, WriteDepth, ServerReads, Following, MeetsIt
<1>4. CASE DesktopResizes
  <2>1. ~server'.announced
    BY <1>4 DEF DesktopResizes, ServerType
  <2> QED
    BY <1>0, <1>4, <2>1 DEF DesktopResizes, Following, OrderOfRects, MeetsIt, ReaderAnnounces,
                            LastIsRight
<1>5. CASE ServerUpdates
  <2>1. Change(server.owed > 0) \in Rects /\ NewSize \in Rects
    BY FlowAssumption DEF Change, NewSize, Rects, ServerType, Smaller
  <2>2. /\ <<NewSize>> \in Seq(Rects) /\ <<Change(server.owed > 0)>> \in Seq(Rects)
        /\ <<NewSize, Change(server.owed > 0)>> \in Seq(Rects)
    BY <2>1
  <2>3. server'.desktop = server.desktop
    BY <1>5 DEF ServerUpdates, ServerType
  <2> DEFINE Meets(rects) ==
        /\ toClient' = Append(toClient, [kind |-> "update", rects |-> rects])
        /\ rects = <<Change(server.owed > 0)>> => server'.announced = server.announced
  <2>a. \/ /\ toClient' = Append(toClient, [kind |-> "update",
                                            rects |-> <<Change(server.owed > 0)>>])
           /\ server'.announced = server.announced
        \/ toClient' = Append(toClient, [kind |-> "update",
                                         rects |-> <<NewSize, Change(server.owed > 0)>>])
        \/ toClient' = Append(toClient, [kind |-> "update", rects |-> <<NewSize>>])
    BY <1>5 DEF ServerUpdates, ServerType
  <2>b. /\ <<NewSize, Change(server.owed > 0)>> # <<Change(server.owed > 0)>>
        /\ <<NewSize>> # <<Change(server.owed > 0)>>
    BY DEF NewSize, Change
  <2>4. PICK rects \in {<<NewSize>>, <<NewSize, Change(server.owed > 0)>>,
                        <<Change(server.owed > 0)>>} : Meets(rects)
    BY <2>a, <2>b, Zenon
  <2>c. Change(server.owed > 0).kind = "frame"
    BY DEF Change
  <2>5. ResizesFirst(rects)
    <3>1. CASE rects = <<NewSize, Change(server.owed > 0)>>
      BY <2>c, <3>1 DEF ResizesFirst
    <3>2. CASE rects = <<NewSize>> \/ rects = <<Change(server.owed > 0)>>
      BY <2>c, <3>2 DEF ResizesFirst
    <3> QED
      BY <3>1, <3>2
  <2>6. IF Announces(rects) THEN rects[1].size = server.desktop
                            ELSE server'.announced = server.announced
    BY <2>4 DEF Announces, Change, NewSize
  <2>7. [kind |-> "update", rects |-> rects] \in Updates
    BY <2>2, <2>4 DEF Updates
  <2> QED
    BY <1>5, <2>3, <2>4, <2>5, <2>6, <2>7, MessageIsSent DEF ServerUpdates, MessageAnnounces
<1>6. CASE ServerEndsCU
  <2>1. [kind |-> "end"] \in EndMessages
    BY DEF EndMessages
  <2>2. server'.desktop = server.desktop /\ server'.announced = server.announced
    BY <1>6 DEF ServerEndsCU, ServerType
  <2> QED
    BY <1>6, <2>1, <2>2, MessageIsSent DEF ServerEndsCU, MessageAnnounces
<1> QED
  BY <1>1, <1>2, <1>3, <1>4, <1>5, <1>6 DEF DepthStep

(* If only the receive Task replaces the framebuffer, then for any number of resizes, at
   any moment before the connection ends, the framebuffer has the desktop's size or an
   announcement is under way; with updateColorDepth on another thread TLC finds the
   resize that gets lost.                                                               *)
THEOREM FramebufferFollowsDesktop ==
    MaxDepthChanges = 0 => (SafeSpec => []FollowsDesktop)
<1> SUFFICES ASSUME MaxDepthChanges = 0 PROVE SafeSpec => []FollowsDesktop
  OBVIOUS
<1> DEFINE Inv == TypeOK /\ RecreatesForARect /\ (Lives => Following)
<1>1. Init => Inv
  <2> SUFFICES ASSUME Init PROVE Following
    BY InitTypes
  <2>1. /\ reader.at = "read" /\ reader.rects = <<>> /\ toClient = <<>> /\ owner.at = "idle"
        /\ framebuffer.size = server.desktop
    BY DEF Init
  <2> QED
    BY <2>1 DEF Following, OrderOfRects, ResizesFirst, MeetsIt, ReaderAnnounces, LastIsRight,
                LastInHand
<1>2. Inv /\ [Next]_vars => Inv'
  <2> SUFFICES ASSUME Inv, [Next]_vars PROVE Inv'
    OBVIOUS
  <2>1. TypeOK' /\ RecreatesForARect'
    BY StepTypes
  <2> SUFFICES ASSUME Lives' PROVE Following'
    BY <2>1
  <2>a. Following
    BY EndIsFinal
  <2>2. CASE UNCHANGED vars
    <3>1. Following'
      BY <2>2, <2>a DEF vars, Following, OrderOfRects, MeetsIt, ReaderAnnounces, LastIsRight,
                  LastOnTheWire, LastInHand
    <3> QED
      BY <3>1
  <2>3. CASE Next
    BY <2>3, <2>a, FailsTypes, ReceiveFollows, OthersFollow DEF Next, DepthStep
  <2> QED
    BY <2>2, <2>3
<1>3. Inv => FollowsDesktop
  <2> SUFFICES ASSUME Inv, Lives, server.announced, framebuffer.size # server.desktop
               PROVE  ResizePending
    BY DEF FollowsDesktop, ResizePending
  <2>1. /\ toClient \in Seq(Updates \cup EndMessages) /\ reader.rects \in Seq(Rects)
    BY Types DEF ReaderType
  <2>2. CASE LastOnTheWire
    <3>1. PICK i \in 1..Len(toClient) : MessageAnnounces(toClient[i])
      BY <2>2 DEF LastOnTheWire
    <3>2. toClient[i].rects \in Seq(Rects) /\ toClient[i].rects # <<>>
      BY <2>1, <3>1 DEF MessageAnnounces, Announces, Updates, EndMessages
    <3>3. 1 \in 1..Len(toClient[i].rects)
      BY <3>2
    <3> QED
      BY <3>1, <3>3 DEF ResizePending, MessageAnnounces, Announces
  <2>3. CASE LastInHand
    <3>1. ReaderAnnounces
      BY <2>3 DEF LastInHand
    <3>2. 1 \in 1..Len(reader.rects)
      BY <2>1, <3>1 DEF ReaderAnnounces, Announces
    <3> QED
      BY <3>1, <3>2 DEF ReaderAnnounces, Announces, ResizePending
  <2> QED
    BY <2>2, <2>3 DEF Following, LastIsRight
<1> QED
  BY <1>1, <1>2, <1>3, PTL DEF SafeSpec
-----------------------------------------------------------------------------
(***************************************************************************)
(* The picture.  FullUpdateComing is not inductive: that the whole desktop *)
(* is on the wire helps only if it will fit the framebuffer it meets.      *)
(* Repainting says that it will, or that the flag is cleared before, by an *)
(* announcement of another size in front of it.                            *)
(***************************************************************************)
Whole(rect)      == rect.kind = "frame" /\ rect.all
HasWhole(rects)  == \E j \in 1..Len(rects) : Whole(rects[j])
HasFit(rects)    == \E j \in 1..Len(rects) :
                        Whole(rects[j]) /\ rects[j].size = framebuffer.size
Differs(rects)   == \E j \in 1..Len(rects) :
                        rects[j].kind = "resize" /\ rects[j].size # framebuffer.size
UpdateDiffers(m) == m.kind = "update" /\ Differs(m.rects)

(* What the Task knows about the flag and the framebuffer between two awaits. *)
TaskKnows ==
    /\ reader.at \in {"write", "written"} =>
            reader.full = ~state.incremental /\ reader.size = framebuffer.size
    /\ reader.at = "recreate" => ~state.incremental
    /\ reader.at = "rects" => IF reader.attached THEN reader.held = framebuffer
                                                 ELSE ~state.incremental

ReaderDiffers == reader.at = "rects" /\ reader.attached /\ Differs(reader.rects)

Requested ==
    \E i \in 1..Len(toServer) :
        toServer[i].kind = "request" /\ toServer[i].full /\ toServer[i].size >= framebuffer.size
InHand ==
    /\ reader.at = "rects" /\ reader.attached
    /\ HasFit(reader.rects) \/ (Differs(reader.rects) /\ HasWhole(reader.rects))
OnTheWire ==
    \E i \in 1..Len(toClient) :
        /\ toClient[i].kind = "update" /\ HasWhole(toClient[i].rects)
        /\ \/ HasFit(toClient[i].rects)
           \/ ReaderDiffers
           \/ \E k \in 1..i : UpdateDiffers(toClient[k])

FullPending == Requested \/ server.owed >= framebuffer.size \/ InHand \/ OnTheWire

AsksForChanges == state.incremental \/ (reader.at = "written" /\ reader.full)
Repainting == ~painted /\ AsksForChanges => FullPending \/ reader.at = "lost"

Picture == TaskKnows /\ Repainting

LEMMA PictureStays ==
    ASSUME Picture, TaskKnows', painted' = painted, AsksForChanges' => AsksForChanges,
           AsksForChanges => reader.at # "lost" \/ reader'.at = "lost",
           AsksForChanges /\ FullPending => FullPending' \/ reader'.at = "lost"
    PROVE  Picture'
BY DEF Picture, Repainting

(* A request stays, and a new one for the whole framebuffer counts. *)
LEMMA RequestAdded ==
    ASSUME TypeOK, NEW x \in Requests \cup DepthMessages, toServer' = Append(toServer, x),
           framebuffer' = framebuffer
    PROVE  /\ Requested => Requested'
           /\ x.kind = "request" /\ x.full /\ x.size >= framebuffer.size => Requested'
<1>1. toServer \in Seq(Requests \cup DepthMessages) /\ Len(toServer) \in Nat
  BY DEF TypeOK
<1>2. /\ Len(toServer') = Len(toServer) + 1
      /\ \A i \in 1..Len(toServer) : toServer'[i] = toServer[i]
      /\ toServer'[Len(toServer) + 1] = x
  BY <1>1, Appended
<1>3. Requested => Requested'
  BY <1>1, <1>2 DEF Requested
<1>4. ASSUME x.kind = "request", x.full, x.size >= framebuffer.size PROVE Requested'
  BY <1>1, <1>2, <1>4 DEF Requested
<1> QED
  BY <1>3, <1>4

(* What is on the wire stays there when the server adds to it; a whole frame that it
   adds counts if it fits, or comes after an announcement of another size.          *)
LEMMA WireGrows ==
    ASSUME TypeOK, NEW m \in Updates \cup EndMessages, toClient' = Append(toClient, m),
           framebuffer' = framebuffer, reader' = reader
    PROVE  /\ OnTheWire => OnTheWire'
           /\ /\ m.kind = "update" /\ HasWhole(m.rects)
              /\ \/ HasFit(m.rects) \/ Differs(m.rects) \/ ReaderDiffers
                 \/ \E k \in 1..Len(toClient) : UpdateDiffers(toClient[k])
              => OnTheWire'
<1>1. /\ Len(toClient) \in Nat
      /\ Len(toClient') = Len(toClient) + 1
      /\ \A i \in 1..Len(toClient) : toClient'[i] = toClient[i]
      /\ toClient'[Len(toClient) + 1] = m
  BY Types, Appended
<1>2. ReaderDiffers => ReaderDiffers'
  BY DEF ReaderDiffers, Differs
<1>3. ASSUME NEW i \in 1..Len(toClient)
      PROVE  /\ HasFit(toClient[i].rects) => HasFit(toClient[i].rects)'
             /\ UpdateDiffers(toClient[i]) => UpdateDiffers(toClient[i])'
             /\ HasWhole(toClient[i].rects) => HasWhole(toClient[i].rects)'
  <2>1. toClient'[i] = toClient[i]
    BY <1>1
  <2> QED
    BY <2>1 DEF HasFit, UpdateDiffers, Differs, HasWhole, Whole
<1>4. ASSUME OnTheWire PROVE OnTheWire'
  <2>1. PICK i \in 1..Len(toClient) :
          /\ toClient[i].kind = "update" /\ HasWhole(toClient[i].rects)
          /\ \/ HasFit(toClient[i].rects)
             \/ ReaderDiffers
             \/ \E k \in 1..i : UpdateDiffers(toClient[k])
    BY <1>4 DEF OnTheWire
  <2>2. /\ i \in 1..Len(toClient') /\ toClient'[i].kind = "update" /\ HasWhole(toClient[i].rects)'
    BY <1>1, <1>3, <2>1
  <2>3. (\E k \in 1..i : UpdateDiffers(toClient[k])) => \E k \in 1..i : UpdateDiffers(toClient[k])'
    BY <1>1, <1>3
  <2> QED
    BY <1>2, <1>3, <2>1, <2>2, <2>3 DEF OnTheWire
<1>5. ASSUME m.kind = "update", HasWhole(m.rects),
             \/ HasFit(m.rects) \/ Differs(m.rects) \/ ReaderDiffers
             \/ \E k \in 1..Len(toClient) : UpdateDiffers(toClient[k])
      PROVE  OnTheWire'
  <2>0. PICK n \in Nat : n = Len(toClient) + 1
    BY <1>1
  <2>1. n \in 1..Len(toClient') /\ toClient'[n] = m
    BY <1>1, <2>0
  <2>2. toClient'[n].kind = "update" /\ HasWhole(toClient[n].rects)'
    BY <1>5, <2>1 DEF HasWhole, Whole
  <2>3. HasFit(m.rects) => HasFit(toClient[n].rects)'
    BY <2>1 DEF HasFit, Whole
  <2>4. Differs(m.rects) => UpdateDiffers(toClient[n])'
    BY <1>5, <2>1 DEF UpdateDiffers, Differs
  <2>5. n \in 1..n
    BY <1>1, <2>0
  <2>6. \A k \in 1..Len(toClient) : k \in 1..n
    BY <1>1, <2>0
  <2> QED
    BY <1>2, <1>3, <1>5, <2>1, <2>2, <2>3, <2>4, <2>5, <2>6 DEF OnTheWire
<1> QED
  BY <1>4, <1>5

(* The Task takes the first message: what it brought is in hand, the rest moves up. *)
LEMMA WireMovesUp ==
    ASSUME TypeOK, reader.at = "read", toClient # <<>>, toClient' = Tail(toClient),
           framebuffer' = framebuffer, OnTheWire,
           toClient[1].kind = "update" =>
               reader'.at = "rects" /\ reader'.attached /\ reader'.rects = toClient[1].rects
    PROVE  InHand' \/ OnTheWire'
<1>1. /\ Len(toClient) \in Nat /\ 1 \in 1..Len(toClient)
      /\ \A i \in 2..Len(toClient) : i - 1 \in 1..Len(toClient') /\ toClient'[i - 1] = toClient[i]
  BY Types, TakenOff
<1>2. PICK i \in 1..Len(toClient) :
        /\ toClient[i].kind = "update" /\ HasWhole(toClient[i].rects)
        /\ \/ HasFit(toClient[i].rects)
           \/ \E k \in 1..i : UpdateDiffers(toClient[k])
  BY DEF OnTheWire, ReaderDiffers
<1>3. UpdateDiffers(toClient[1]) => ReaderDiffers'
  BY DEF UpdateDiffers, ReaderDiffers, Differs
<1>4. CASE i = 1
  <2>1. HasFit(reader.rects)' \/ (Differs(reader.rects)' /\ HasWhole(reader.rects)')
    <3>1. CASE HasFit(toClient[1].rects)
      BY <1>2, <1>4, <3>1 DEF HasFit, Whole
    <3>2. CASE \E k \in 1..i : UpdateDiffers(toClient[k])
      BY <1>2, <1>4, <3>2 DEF UpdateDiffers, Differs, HasWhole, Whole
    <3> QED
      BY <1>2, <1>4, <3>1, <3>2
  <2> QED
    BY <1>2, <1>4, <2>1 DEF InHand
<1>5. CASE i # 1
  <2>1. i - 1 \in 1..Len(toClient') /\ toClient'[i - 1] = toClient[i]
    BY <1>1, <1>5
  <2>2. toClient'[i - 1].kind = "update" /\ HasWhole(toClient[i - 1].rects)'
    BY <1>2, <2>1 DEF HasWhole, Whole
  <2>3. HasFit(toClient[i].rects) => HasFit(toClient[i - 1].rects)'
    BY <2>1 DEF HasFit, Whole
  <2>4. ASSUME NEW k \in 1..i, UpdateDiffers(toClient[k]), k # 1
        PROVE  k - 1 \in 1..(i - 1) /\ UpdateDiffers(toClient[k - 1])'
    <3>1. toClient'[k - 1] = toClient[k] /\ k - 1 \in 1..(i - 1)
      BY <1>1, <2>4
    <3> QED
      BY <2>4, <3>1 DEF UpdateDiffers, Differs
  <2> QED
    BY <1>2, <1>3, <2>1, <2>2, <2>3, <2>4 DEF OnTheWire
<1> QED
  BY <1>4, <1>5

(* The Task is done with a rectangle that was not the one the framebuffer waits for. *)
LEMMA HandMovesUp ==
    ASSUME TypeOK, reader.at = "rects", reader.rects # <<>>,
           reader'.at = "rects", reader'.attached = reader.attached,
           reader'.rects = Tail(reader.rects),
           framebuffer' = framebuffer, toClient' = toClient,
           ~(Whole(reader.rects[1]) /\ reader.rects[1].size = framebuffer.size),
           \/ reader.rects[1].kind = "resize" /\ reader.rects[1].size = framebuffer.size
           \/ reader.rects[1].kind = "frame" /\ ResizesFirst(reader.rects)
    PROVE  (InHand => InHand') /\ (OnTheWire => OnTheWire')
<1>1. /\ reader.rects \in Seq(Rects)
      /\ \A j \in 2..Len(reader.rects) : j - 1 \in 1..Len(reader'.rects)
                                         /\ reader'.rects[j - 1] = reader.rects[j]
  BY Types, TakenOff DEF ReaderType
<1>2. HasFit(reader.rects) => HasFit(reader.rects)'
  <2> SUFFICES ASSUME NEW j \in 1..Len(reader.rects),
                      Whole(reader.rects[j]), reader.rects[j].size = framebuffer.size
               PROVE  HasFit(reader.rects)'
    BY DEF HasFit
  <2>1. j \in 2..Len(reader.rects)
    BY <1>1
  <2> QED
    BY <1>1, <2>1 DEF HasFit, Whole
<1>3. Differs(reader.rects) => Differs(reader.rects)' /\ reader.rects[1].kind = "resize"
  <2> SUFFICES ASSUME NEW j \in 1..Len(reader.rects),
                      reader.rects[j].kind = "resize", reader.rects[j].size # framebuffer.size
               PROVE  Differs(reader.rects)' /\ reader.rects[1].kind = "resize"
    BY DEF Differs
  <2>1. j \in 2..Len(reader.rects)
    BY <1>1 DEF ResizesFirst
  <2>2. reader.rects[1].kind = "resize"
    BY <2>1 DEF ResizesFirst
  <2> QED
    BY <1>1, <2>1, <2>2 DEF Differs
<1>4. HasWhole(reader.rects) /\ reader.rects[1].kind = "resize" => HasWhole(reader.rects)'
  <2> SUFFICES ASSUME NEW j \in 1..Len(reader.rects), Whole(reader.rects[j]),
                      reader.rects[1].kind = "resize"
               PROVE  HasWhole(reader.rects)'
    BY DEF HasWhole
  <2>1. j \in 2..Len(reader.rects)
    BY <1>1 DEF Whole
  <2> QED
    BY <1>1, <2>1 DEF HasWhole, Whole
<1>5. InHand => InHand'
  BY <1>2, <1>3, <1>4 DEF InHand
<1>6. ReaderDiffers => ReaderDiffers'
  BY <1>3 DEF ReaderDiffers
<1>7. OnTheWire => OnTheWire'
  BY <1>6 DEF OnTheWire, HasWhole, Whole, HasFit, UpdateDiffers, Differs
<1> QED
  BY <1>5, <1>7

(* Another place of the Task, the same wire. *)
LEMMA WireStays ==
    ASSUME OnTheWire, ~ReaderDiffers, toClient' = toClient, framebuffer' = framebuffer
    PROVE  OnTheWire'
BY DEF OnTheWire, HasWhole, Whole, HasFit, UpdateDiffers, Differs

LEMMA ReceiveKeepsPicture ==
    ASSUME TypeOK, Following, Picture, Receive
    PROVE  Picture'
<1> USE Types
<1>0. /\ reader.rects \in Seq(Rects) /\ ResizesFirst(reader.rects)
      /\ state.incremental \in BOOLEAN
      /\ TaskKnows
  BY DEF ReaderType, StateType, Following, OrderOfRects, Picture
<1>a. toServer' = toServer /\ framebuffer' = framebuffer => (Requested => Requested')
  BY DEF Requested
<1>1. CASE ReadUpdate
  <2>1. Head(toClient) = toClient[1]
    BY <1>1, TakenOff DEF ReadUpdate
  <2>2. /\ reader'.rects = toClient[1].rects /\ reader'.at = "rects"
        /\ reader'.held = framebuffer /\ reader'.attached
    BY <1>1, <2>1 DEF ReadUpdate, ReaderType
  <2>3. TaskKnows'
    BY <1>1, <2>2 DEF ReadUpdate, TaskKnows
  <2>4. FullPending => FullPending'
    BY <1>1, <1>a, <2>2, WireMovesUp DEF ReadUpdate, FullPending, InHand
  <2>5. AsksForChanges' => AsksForChanges
    BY <1>1, <2>2 DEF ReadUpdate, AsksForChanges
  <2> QED
    BY <1>1, <2>3, <2>4, <2>5, PictureStays DEF ReadUpdate
<1>2. CASE ReadEnd
  <2>1. Head(toClient) = toClient[1] /\ toClient[1].kind = "end"
    BY <1>2, TakenOff DEF ReadEnd
  <2>2. reader'.at \in {"request", "read"} /\ reader.at = "read"
        /\ state'.incremental = state.incremental
    BY <1>2 DEF ReadEnd, ReaderType
  <2>3. TaskKnows'
    BY <2>2 DEF TaskKnows
  <2>4. FullPending => FullPending'
    BY <1>2, <1>a, <2>1, <2>2, WireMovesUp DEF ReadEnd, FullPending, InHand
  <2>5. AsksForChanges' => AsksForChanges
    BY <2>2 DEF AsksForChanges
  <2> QED
    BY <1>2, <2>2, <2>3, <2>4, <2>5, PictureStays DEF ReadEnd
<1>3. CASE DecodeFrame
  <2> DEFINE rect == reader.rects[1]
             understood == rect.depth = reader.held.depth
  <2>1. /\ Head(reader.rects) = rect /\ rect \in Rects /\ rect.kind = "frame"
        /\ reader.rects # <<>> /\ reader.at = "rects"
    BY <1>0, <1>3, TakenOff DEF DecodeFrame, NextIs
  <2>2. /\ reader'.rects = Tail(reader.rects) /\ reader'.held = reader.held
        /\ reader'.attached = reader.attached
        /\ reader'.at = IF understood THEN "rects" ELSE "lost"
    BY <1>3, <2>1 DEF DecodeFrame, ReaderType
  <2>3. /\ painted' = (painted \/ (/\ understood /\ reader.attached
                                   /\ rect.all /\ rect.size = reader.held.size))
        /\ UNCHANGED <<framebuffer, state, toServer, toClient, server>>
    BY <1>3, <2>1 DEF DecodeFrame
  <2>4. TaskKnows'
    BY <1>0, <2>1, <2>2, <2>3 DEF TaskKnows
  <2>5. CASE reader'.at = "lost"
    BY <2>4, <2>5 DEF Picture, Repainting
  <2>6. CASE painted'
    BY <2>4, <2>6 DEF Picture, Repainting
  <2>7. CASE reader'.at = "rects" /\ ~painted'
    <3>1. understood
      BY <2>2, <2>7
    <3>2. AsksForChanges => reader.attached /\ reader.held = framebuffer
      BY <1>0, <2>1 DEF TaskKnows, AsksForChanges
    <3>3. AsksForChanges => ~(Whole(rect) /\ rect.size = framebuffer.size)
      BY <2>3, <2>7, <3>1, <3>2 DEF Whole
    <3>4. AsksForChanges /\ FullPending => FullPending'
      BY <1>0, <1>a, <2>1, <2>2, <2>3, <2>7, <3>3, HandMovesUp DEF FullPending
    <3>5. AsksForChanges' => AsksForChanges
      BY <2>3, <2>7 DEF AsksForChanges
    <3>6. painted' = painted /\ reader.at # "lost"
      BY <2>1, <2>3, <2>7
    <3> QED
      BY <2>4, <3>4, <3>5, <3>6, PictureStays
  <2> QED
    BY <2>2, <2>5, <2>6, <2>7
<1>4. CASE IgnoreResize
  <2>1. /\ Head(reader.rects) = reader.rects[1] /\ reader.rects[1].kind = "resize"
        /\ reader.rects # <<>> /\ reader.at = "rects"
    BY <1>0, <1>4, TakenOff DEF IgnoreResize, NextIs
  <2>2. /\ reader'.rects = Tail(reader.rects) /\ reader'.held = reader.held
        /\ reader'.attached = reader.attached /\ reader'.at = "rects"
    BY <1>4, <2>1 DEF IgnoreResize, ReaderType
  <2>3. UNCHANGED <<framebuffer, painted, state, toServer, toClient, server>>
    BY <1>4 DEF IgnoreResize
  <2>4. TaskKnows'
    BY <1>0, <2>1, <2>2, <2>3 DEF TaskKnows
  <2>5. AsksForChanges => reader.rects[1].size = framebuffer.size
    BY <1>0, <1>4, <2>1 DEF IgnoreResize, TaskKnows, AsksForChanges, SizeDidChange
  <2>6. ~Whole(reader.rects[1])
    BY <2>1 DEF Whole
  <2>7. AsksForChanges /\ FullPending => FullPending'
    BY <1>a, <2>1, <2>2, <2>3, <2>5, <2>6, HandMovesUp DEF FullPending
  <2>8. AsksForChanges' => AsksForChanges
    BY <2>2, <2>3 DEF AsksForChanges
  <2> QED
    BY <2>1, <2>3, <2>4, <2>7, <2>8, PictureStays
<1>5. CASE Resize \/ Recreate
  <2>1. ~state'.incremental /\ reader'.at \in {"rects", "recreate"}
    BY <1>0, <1>5 DEF Resize, Recreate, ResetIncremental, ReaderType, StateType, TaskKnows
  <2>2. reader'.at = "rects" => ~reader'.attached
    BY <1>5 DEF Resize, Recreate, ReaderType
  <2> QED
    BY <2>1, <2>2 DEF Picture, TaskKnows, Repainting, AsksForChanges
<1>6. CASE FinishUpdate
  <2>1. reader'.at = "request" /\ reader.at = "rects" /\ reader.rects = <<>>
    BY <1>6 DEF FinishUpdate, ReaderType
  <2>2. ~InHand /\ ~ReaderDiffers
    BY <2>1 DEF InHand, ReaderDiffers, HasFit, Differs
  <2>3. FullPending => FullPending'
    BY <1>6, <1>a, <2>2, WireStays DEF FinishUpdate, FullPending
  <2>4. TaskKnows' /\ (AsksForChanges' => AsksForChanges)
    BY <1>6, <2>1 DEF FinishUpdate, TaskKnows, AsksForChanges
  <2> QED
    BY <1>6, <2>1, <2>3, <2>4, PictureStays DEF FinishUpdate
<1>7. CASE PrepareRequest
  <2>1. /\ reader.at = "request"
        /\ \/ reader'.at = "read"
           \/ /\ reader'.at = "write" /\ reader'.full = ~state.incremental
              /\ reader'.size = framebuffer.size
    BY <1>7 DEF PrepareRequest, ReaderType
  <2>2. ~InHand /\ ~ReaderDiffers
    BY <2>1 DEF InHand, ReaderDiffers
  <2>3. FullPending => FullPending'
    BY <1>7, <1>a, <2>2, WireStays DEF PrepareRequest, FullPending
  <2>4. TaskKnows' /\ (AsksForChanges' => AsksForChanges)
    BY <1>7, <2>1 DEF PrepareRequest, TaskKnows, AsksForChanges
  <2> QED
    BY <1>7, <2>1, <2>3, <2>4, PictureStays DEF PrepareRequest
<1>8. CASE WriteRequest
  <2> DEFINE request == Request(reader.full, reader.size)
  <2>1. /\ reader.at = "write" /\ reader'.at = "written"
        /\ reader'.full = reader.full /\ reader'.size = reader.size
    BY <1>8 DEF WriteRequest, ReaderType
  <2>2. /\ request \in Requests \cup DepthMessages /\ request.kind = "request"
        /\ request.full = reader.full /\ request.size = reader.size
    BY DEF Request, Requests, ReaderType
  <2>3. TaskKnows'
    BY <1>0, <1>8, <2>1 DEF WriteRequest, TaskKnows
  <2>4. ~InHand /\ ~ReaderDiffers
    BY <2>1 DEF InHand, ReaderDiffers
  <2>5. CASE reader.full
    <3>1. reader.size >= framebuffer.size
      <4>1. reader.size = framebuffer.size
        BY <1>0, <2>1 DEF TaskKnows
      <4>2. framebuffer.size \in Nat
        BY FlowAssumption DEF Framebuffers
      <4> QED
        BY <4>1, <4>2
    <3>2. Requested'
      BY <1>8, <2>2, <2>5, <3>1, RequestAdded DEF WriteRequest
    <3> QED
      BY <2>3, <3>2 DEF Picture, Repainting, FullPending
  <2>6. CASE ~reader.full
    <3>1. AsksForChanges' => AsksForChanges
      BY <1>8, <2>1, <2>6 DEF WriteRequest, AsksForChanges
    <3>2. FullPending => FullPending'
      BY <1>8, <2>2, <2>4, RequestAdded, WireStays DEF WriteRequest, FullPending
    <3> QED
      BY <1>8, <2>1, <2>3, <3>1, <3>2, PictureStays DEF WriteRequest
  <2> QED
    BY <2>5, <2>6
<1>9. CASE SetIncremental
  <2>1. /\ reader.at = "written" /\ reader'.at = "read"
        /\ state'.incremental = (state.incremental \/ reader.full)
    BY <1>9 DEF SetIncremental, ReaderType
  <2>2. TaskKnows' /\ (AsksForChanges' => AsksForChanges)
    BY <2>1 DEF TaskKnows, AsksForChanges
  <2>3. ~InHand /\ ~ReaderDiffers
    BY <2>1 DEF InHand, ReaderDiffers
  <2>4. FullPending => FullPending'
    BY <1>9, <1>a, <2>3, WireStays DEF SetIncremental, FullPending
  <2> QED
    BY <1>9, <2>1, <2>2, <2>4, PictureStays DEF SetIncremental
<1> QED
  BY <1>1, <1>2, <1>3, <1>4, <1>5, <1>6, <1>7, <1>8, <1>9 DEF Receive

(* The other parties leave the Task, the flag and the framebuffer alone. *)
LEMMA PictureStaysPending ==
    ASSUME Picture, UNCHANGED <<framebuffer, painted, state, reader>>,
           AsksForChanges /\ FullPending => FullPending'
    PROVE  Picture'
<1>1. TaskKnows'
  BY DEF Picture, TaskKnows
<1>2. AsksForChanges' => AsksForChanges
  BY DEF AsksForChanges
<1> QED
  BY <1>1, <1>2, PictureStays

(* The answer to a request for everything: the frame fits, or the desktop has another
   size, and the announcement of that is in front of it.                             *)
LEMMA AnswerFits ==
    ASSUME TypeOK, Following, Picture, ServerUpdates, AsksForChanges,
           server.owed >= framebuffer.size
    PROVE  FullPending'
<1> USE Types
<1>0. /\ framebuffer.size \in Nat /\ framebuffer.size > 0 /\ framebuffer.size \in Sizes
      /\ server.owed \in Nat /\ server.owed > 0 /\ server.desktop \in Sizes
      /\ server.desktop \in Nat
  <2>1. framebuffer.size \in Sizes /\ server.owed \in Sizes \cup {0} /\ server.desktop \in Sizes
    BY DEF Framebuffers, ServerType
  <2>2. \A size \in Sizes : size \in Nat /\ size > 0
    BY FlowAssumption
  <2> QED
    BY <2>1, <2>2
<1>1. UNCHANGED <<framebuffer, reader>>
  BY DEF ServerUpdates
<1> DEFINE frame == Change(server.owed > 0)
<1>2. /\ frame.kind = "frame" /\ frame.all
      /\ server.desktop = framebuffer.size => frame.size = framebuffer.size
  <2>1. frame = [kind |-> "frame", depth |-> server.depth, all |-> TRUE,
                 size |-> Smaller(server.owed, server.desktop)]
    BY <1>0 DEF Change
  <2>2. server.desktop = framebuffer.size =>
            Smaller(server.owed, server.desktop) = framebuffer.size
    BY <1>0 DEF Smaller
  <2> QED
    BY <2>1, <2>2
<1>3. frame \in Rects /\ NewSize \in Rects
  BY FlowAssumption DEF Change, NewSize, Rects, ServerType, Smaller
<1>4. CASE /\ server.announced
           /\ toClient' = Append(toClient, [kind |-> "update", rects |-> <<frame>>])
  <2> DEFINE m == [kind |-> "update", rects |-> <<frame>>]
  <2>1. m \in Updates \cup EndMessages /\ m.kind = "update" /\ m.rects = <<frame>>
    BY <1>3, OnlyOne DEF Updates
  <2>2. HasWhole(m.rects)
    BY <1>2, <2>1 DEF HasWhole, Whole
  <2>3. server.desktop = framebuffer.size => HasFit(m.rects)
    BY <1>2, <2>1 DEF HasFit, Whole
  <2>4. ASSUME server.desktop # framebuffer.size
        PROVE  ReaderDiffers \/ \E k \in 1..Len(toClient) : UpdateDiffers(toClient[k])
    <3>1. CASE LastOnTheWire
      <4>1. PICK k \in 1..Len(toClient) :
              MessageAnnounces(toClient[k]) /\ toClient[k].rects[1].size = server.desktop
        BY <3>1 DEF LastOnTheWire
      <4>2. toClient[k].rects \in Seq(Rects) /\ toClient[k].rects # <<>>
        BY <4>1 DEF MessageAnnounces, Announces, Updates, EndMessages
      <4>3. 1 \in 1..Len(toClient[k].rects)
        BY <4>2
      <4> QED
        BY <2>4, <4>1, <4>3 DEF UpdateDiffers, Differs, MessageAnnounces, Announces
    <3>2. CASE LastInHand
      <4>1. ReaderAnnounces /\ reader.rects[1].size = server.desktop
        BY <2>4, <3>2 DEF LastInHand
      <4>2. reader.at = "rects" /\ reader.attached
        BY <4>1 DEF ReaderAnnounces, Following, MeetsIt, Picture, TaskKnows, AsksForChanges
      <4>3. reader.rects \in Seq(Rects) /\ reader.rects # <<>>
        BY <4>1 DEF ReaderAnnounces, Announces, ReaderType
      <4>4. 1 \in 1..Len(reader.rects)
        BY <4>3
      <4> QED
        BY <2>4, <4>1, <4>2, <4>4 DEF ReaderDiffers, Differs, ReaderAnnounces, Announces
    <3> QED
      BY <1>4, <3>1, <3>2 DEF Following, LastIsRight
  <2> HIDE DEF m, frame
  <2>5. toClient' = Append(toClient, m)
    BY <1>4 DEF m
  <2> QED
    BY <1>1, <2>1, <2>2, <2>3, <2>4, <2>5, WireGrows DEF FullPending
<1>5. CASE toClient' = Append(toClient, [kind |-> "update", rects |-> <<NewSize, frame>>])
  <2> DEFINE m == [kind |-> "update", rects |-> <<NewSize, frame>>]
  <2>1. m \in Updates \cup EndMessages /\ m.kind = "update" /\ m.rects = <<NewSize, frame>>
    <3>1. <<NewSize, frame>> \in Seq(Rects)
      BY <1>3
    <3> QED
      BY <3>1 DEF Updates
  <2>a. /\ Len(m.rects) = 2 /\ m.rects[1] = NewSize /\ m.rects[2] = frame
    BY <2>1
  <2>2. HasWhole(m.rects)
    BY <1>2, <2>a DEF HasWhole, Whole
  <2>3. server.desktop = framebuffer.size => HasFit(m.rects)
    BY <1>2, <2>a DEF HasFit, Whole
  <2>4. server.desktop # framebuffer.size => Differs(m.rects)
    BY <2>a DEF Differs, NewSize
  <2> HIDE DEF m, frame
  <2>5. toClient' = Append(toClient, m)
    BY <1>5 DEF m
  <2> QED
    BY <1>1, <2>1, <2>2, <2>3, <2>4, <2>5, WireGrows DEF FullPending
<1>6. CASE server' = [server EXCEPT !.wants = server.owed > 0, !.announced = TRUE]
  BY <1>1, <1>6 DEF FullPending, ServerType
<1> QED
  BY <1>4, <1>5, <1>6 DEF ServerUpdates

LEMMA OthersKeepPicture ==
    ASSUME MaxDepthChanges = 0, TypeOK, Following, Picture,
           \/ DepthStep
           \/ ServerReads \/ DesktopResizes \/ ServerUpdates \/ ServerEndsCU
    PROVE  Picture'
<1> USE Types
<1>0. owner.at = "idle"
  BY DEF Following
<1>1. ~\E depth \in Depths : UpdateColorDepth(depth)
  BY DEF UpdateColorDepth, OwnerType
<1>2. ~UpdatesColorDepth
  BY <1>0 DEF UpdatesColorDepth, Enqueue, OwnerResets, OwnerReplaces
<1>a. UNCHANGED <<framebuffer, reader>> => (InHand => InHand')
  BY DEF InHand, HasFit, HasWhole, Whole, Differs
<1>b. UNCHANGED <<framebuffer, reader, toClient>> => (OnTheWire => OnTheWire')
  <2> SUFFICES ASSUME UNCHANGED <<framebuffer, reader, toClient>>, OnTheWire PROVE OnTheWire'
    OBVIOUS
  <2>0. Len(toClient) \in Nat
    OBVIOUS
  <2>1. ReaderDiffers => ReaderDiffers'
    BY DEF ReaderDiffers, Differs
  <2>2. ASSUME NEW i \in 1..Len(toClient)
        PROVE  /\ HasFit(toClient[i].rects) => HasFit(toClient[i].rects)'
               /\ UpdateDiffers(toClient[i]) => UpdateDiffers(toClient[i])'
    BY DEF HasFit, UpdateDiffers, Differs
  <2> QED
    BY <2>0, <2>1, <2>2 DEF OnTheWire
<1>c. UNCHANGED <<framebuffer, toServer>> => (Requested => Requested')
  BY DEF Requested
<1>3. CASE Send
  <2>1. [kind |-> "depth", depth |-> sender.depth] \in Requests \cup DepthMessages
    BY DEF DepthMessages, SenderType
  <2>2. Requested => Requested'
    BY <1>3, <1>c, <2>1, RequestAdded DEF Send, Dequeue, StoreRest, WriteDepth
  <2>3. FullPending => FullPending'
    BY <1>3, <1>a, <1>b, <2>2 DEF Send, Dequeue, StoreRest, WriteDepth, FullPending
  <2> QED
    BY <1>3, <2>3, PictureStaysPending DEF Send, Dequeue, StoreRest, WriteDepth
<1>4. CASE ServerReads
  <2>1. /\ Head(toServer) = toServer[1] /\ Head(toServer) \in Requests \cup DepthMessages
        /\ \A i \in 2..Len(toServer) :
              i - 1 \in 1..Len(toServer') /\ toServer'[i - 1] = toServer[i]
    BY <1>4, TakenOff DEF ServerReads
  <2>2. /\ framebuffer.size \in Nat /\ server.owed \in Nat /\ Sizes \subseteq Nat
    BY FlowAssumption DEF Framebuffers, ServerType
  <2>3. server'.owed = IF Head(toServer).kind # "depth" /\ Head(toServer).full
                       THEN Larger(server.owed, Head(toServer).size) ELSE server.owed
    BY <1>4 DEF ServerReads, ServerType
  <2>4. Head(toServer).kind # "depth" /\ Head(toServer).full =>
            /\ Larger(server.owed, Head(toServer).size) >= server.owed
            /\ Larger(server.owed, Head(toServer).size) >= Head(toServer).size
            /\ Larger(server.owed, Head(toServer).size) \in Nat
            /\ Head(toServer).size \in Nat
    <3>1. Head(toServer).kind # "depth" => Head(toServer).size \in Nat
      BY <2>1, <2>2 DEF Requests, DepthMessages
    <3>2. \A a, b \in Nat : Larger(a, b) >= a /\ Larger(a, b) >= b /\ Larger(a, b) \in Nat
      BY DEF Larger
    <3> QED
      BY <2>2, <3>1, <3>2
  <2>5. server.owed >= framebuffer.size => server'.owed >= framebuffer'.size
    BY <1>4, <2>2, <2>3, <2>4 DEF ServerReads
  <2>6. Requested => Requested' \/ server'.owed >= framebuffer'.size
    <3> SUFFICES ASSUME NEW i \in 1..Len(toServer), toServer[i].kind = "request",
                        toServer[i].full, toServer[i].size >= framebuffer.size
                 PROVE  Requested' \/ server'.owed >= framebuffer'.size
      BY DEF Requested
    <3>1. CASE i = 1
      BY <1>4, <2>1, <2>2, <2>3, <2>4, <3>1 DEF ServerReads
    <3>2. CASE i # 1
      <4>1. i - 1 \in 1..Len(toServer') /\ toServer'[i - 1] = toServer[i]
        BY <2>1, <3>2
      <4> QED
        BY <1>4, <4>1 DEF ServerReads, Requested
    <3> QED
      BY <3>1, <3>2
  <2>7. FullPending => FullPending'
    BY <1>4, <1>a, <1>b, <2>5, <2>6 DEF ServerReads, FullPending
  <2> QED
    BY <1>4, <2>7, PictureStaysPending DEF ServerReads
<1>5. CASE DesktopResizes
  <2>1. server'.owed = server.owed
    BY <1>5 DEF DesktopResizes, ServerType
  <2>2. FullPending => FullPending'
    BY <1>5, <1>a, <1>b, <1>c, <2>1 DEF DesktopResizes, FullPending
  <2> QED
    BY <1>5, <2>2, PictureStaysPending DEF DesktopResizes
<1>6. CASE ServerUpdates
  <2>1. OnTheWire => OnTheWire'
    <3>1. Change(server.owed > 0) \in Rects /\ NewSize \in Rects
      BY FlowAssumption DEF Change, NewSize, Rects, ServerType, Smaller
    <3>2. /\ <<NewSize>> \in Seq(Rects) /\ <<Change(server.owed > 0)>> \in Seq(Rects)
          /\ <<NewSize, Change(server.owed > 0)>> \in Seq(Rects)
      BY <3>1
    <3>3. PICK rects \in Seq(Rects) :
            toClient' = Append(toClient, [kind |-> "update", rects |-> rects])
      BY <1>6, <3>2 DEF ServerUpdates
    <3>4. [kind |-> "update", rects |-> rects] \in Updates \cup EndMessages
      BY DEF Updates
    <3> QED
      BY <1>6, <3>3, <3>4, WireGrows DEF ServerUpdates
  <2>2. AsksForChanges /\ FullPending => FullPending'
    BY <1>6, <1>a, <1>c, <2>1, AnswerFits DEF ServerUpdates, FullPending
  <2> QED
    BY <1>6, <2>2, PictureStaysPending DEF ServerUpdates
<1>7. CASE ServerEndsCU
  <2>1. [kind |-> "end"] \in Updates \cup EndMessages
    BY DEF EndMessages
  <2>2. server'.owed = server.owed
    BY <1>7 DEF ServerEndsCU, ServerType
  <2>3. FullPending => FullPending'
    BY <1>7, <1>a, <1>c, <2>1, <2>2, WireGrows DEF ServerEndsCU, FullPending
  <2> QED
    BY <1>7, <2>3, PictureStaysPending DEF ServerEndsCU
<1> QED
  BY <1>1, <1>2, <1>3, <1>4, <1>5, <1>6, <1>7 DEF DepthStep

(* If only the receive Task replaces the framebuffer, then as long as the connection lives,
   for any sizes and any number of resizes and ends of continuous updates, a framebuffer
   that is not complete has the whole desktop coming, or the next request asks for it:
   the flag that sendFramebufferUpdateRequest sets after its await never hides that the
   new framebuffer is empty.                                                            *)
THEOREM FullUpdateIsComing ==
    MaxDepthChanges = 0 => (SafeSpec => []FullUpdateComing)
<1> SUFFICES ASSUME MaxDepthChanges = 0 PROVE SafeSpec => []FullUpdateComing
  OBVIOUS
<1> DEFINE Inv == TypeOK /\ RecreatesForARect /\ (Lives => Following /\ Picture)
<1>1. Init => Inv
  <2> SUFFICES ASSUME Init PROVE Following /\ Picture
    BY InitTypes
  <2>1. /\ reader.at = "read" /\ reader.rects = <<>> /\ toClient = <<>> /\ owner.at = "idle"
        /\ framebuffer.size = server.desktop /\ framebuffer.size = FirstSize
        /\ state.incremental = RequestUpdates
    BY DEF Init
  <2>2. Following
    BY <2>1 DEF Following, OrderOfRects, ResizesFirst, MeetsIt, ReaderAnnounces, LastIsRight,
                LastInHand
  <2>3. TaskKnows
    BY <2>1 DEF TaskKnows
  <2>4. RequestUpdates => Requested
    <3>1. ASSUME RequestUpdates
          PROVE  Len(toServer) = 1 /\ toServer[1] = Request(TRUE, FirstSize)
      BY <3>1 DEF Init
    <3>2. FirstSize >= FirstSize
      BY FlowAssumption
    <3> SUFFICES ASSUME RequestUpdates PROVE Requested
      OBVIOUS
    <3>3. 1 \in 1..Len(toServer)
      BY <3>1
    <3>4. toServer[1].kind = "request" /\ toServer[1].full /\ toServer[1].size >= framebuffer.size
      BY <2>1, <3>1, <3>2 DEF Request
    <3> QED
      BY <3>3, <3>4 DEF Requested
  <2>5. Repainting
    BY <2>1, <2>4 DEF Repainting, AsksForChanges, FullPending
  <2> QED
    BY <2>2, <2>3, <2>5 DEF Picture
<1>2. Inv /\ [Next]_vars => Inv'
  <2> SUFFICES ASSUME Inv, [Next]_vars PROVE Inv'
    OBVIOUS
  <2>1. TypeOK' /\ RecreatesForARect'
    BY StepTypes
  <2> SUFFICES ASSUME Lives' PROVE Following' /\ Picture'
    BY <2>1
  <2>a. Following /\ Picture
    BY EndIsFinal
  <2>2. CASE UNCHANGED vars
    <3>1. Following'
      BY <2>2, <2>a DEF vars, Following, OrderOfRects, MeetsIt, ReaderAnnounces, LastIsRight,
                  LastOnTheWire, LastInHand
    <3>a. Requested => Requested'
      BY <2>2 DEF vars, Requested
    <3>b. InHand => InHand'
      BY <2>2 DEF vars, InHand, HasFit, HasWhole, Whole, Differs
    <3>c. OnTheWire => OnTheWire'
      BY <2>2 DEF vars, OnTheWire, ReaderDiffers, HasFit, HasWhole, Whole, UpdateDiffers, Differs
    <3>2. FullPending => FullPending'
      BY <2>2, <3>a, <3>b, <3>c DEF vars, FullPending
    <3>3. Picture'
      BY <2>2, <2>a, <3>2, PictureStaysPending DEF vars
    <3> QED
      BY <3>1, <3>3
  <2>3. CASE Next
    <3>1. ~Fails
      BY FailsTypes
    <3>2. Following'
      BY <2>3, <2>a, <3>1, ReceiveFollows, OthersFollow DEF Next, DepthStep
    <3>3. Picture'
      BY <2>3, <2>a, <3>1, ReceiveKeepsPicture, OthersKeepPicture DEF Next, DepthStep
    <3> QED
      BY <3>2, <3>3
  <2> QED
    BY <2>2, <2>3
<1>3. Inv => FullUpdateComing
  <2> SUFFICES ASSUME Inv, Lives, ~painted, state.incremental, reader.at # "lost"
               PROVE  FullOnItsWay
    BY DEF FullUpdateComing
  <2>1. Requested \/ server.owed >= framebuffer.size \/ InHand \/ OnTheWire
    BY DEF Picture, Repainting, AsksForChanges, FullPending
  <2>2. InHand => FullOnItsWay
    BY DEF InHand, HasFit, HasWhole, Whole, FullOnItsWay
  <2>3. OnTheWire => FullOnItsWay
    BY DEF OnTheWire, HasWhole, Whole, FullOnItsWay
  <2> QED
    BY <2>1, <2>2, <2>3 DEF Requested, FullOnItsWay
<1> QED
  BY <1>1, <1>2, <1>3, PTL DEF SafeSpec
=============================================================================
