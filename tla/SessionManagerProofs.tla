------------------------- MODULE SessionManagerProofs -------------------------
(***************************************************************************)
(* Proofs about SessionManager, for any sets of session ids and of threads *)
(* that run gRPC calls.                                                    *)
(***************************************************************************)
EXTENDS SessionManager, TLAPS

(* A session that is entered stays reachable until its connection is told to end.  Only
   startSession leaves a gap, between the queue's block and connect(), and there
   disconnectRequested tells whether the session was stopped in the meantime.  A handshake
   that goes on after the end was requested stores .connected, so the flag and not the
   state is what reachability hangs on, and the flag is never cleared.                     *)
EnteredOrEnded ==
    /\ \A s \in Sessions :
        status[s] \in {"connecting", "connected"} \/ handshake[s] = "running" =>
            s \in sessions \/ s \in requested
    /\ \A h \in Handlers :
        call[h].at = "connect" => call[h].id \in sessions \/ call[h].id \in requested

IInv == TypeOK /\ EnteredOrEnded

(* What ending a session and removing it from the dictionaries preserves. *)
LEMMA RemoveKeeps ==
    ASSUME IInv, NEW s \in Sessions, Remove(s), UNCHANGED call
    PROVE  /\ EnteredOrEnded'
           /\ sessions' \subseteq Sessions
           /\ requested' \subseteq Sessions
           /\ status' \in [Sessions -> {"none", "created", "connecting", "connected",
                                        "disconnected"}]
           /\ UNCHANGED <<handshake, ending>>
<1> USE DEF IInv, TypeOK, EnteredOrEnded, Remove, connection
<1>1. CASE s \in sessions \ requested
  <2>1. \A r \in Sessions \ {s} : status'[r] = status[r]
    BY <1>1
  <2>2. requested' = requested \cup {s} /\ sessions' = sessions \ {s}
    BY <1>1
  <2>3. EnteredOrEnded'
    BY <1>1, <2>1, <2>2
  <2> QED
    BY <1>1, <2>3
<1>2. CASE s \notin sessions \ requested
  BY <1>2
<1> QED
  BY <1>1, <1>2

LEMMA Inductive == IInv /\ [Next]_vars => IInv'
<1> SUFFICES ASSUME IInv, [Next]_vars PROVE IInv'
  OBVIOUS
<1> USE DEF IInv, TypeOK, connection
<1>1. ASSUME NEW h \in Handlers, CreateConnection(h) PROVE IInv'
  BY <1>1 DEF CreateConnection, Free, Calls, Idle, EnteredOrEnded
<1>2. ASSUME NEW h \in Handlers, StartSession(h) PROVE IInv'
  <2>1. call[h].at \in {"insert", "connect", "reply"} /\ call[h].id \in Sessions
    BY <1>2 DEF StartSession, Insert, Connect, ReplyStarted, Goes, Calls, Idle
  <2>2. CASE Insert(h)
    BY <2>1, <2>2 DEF Insert, Goes, Calls, Idle, EnteredOrEnded
  <2>3. CASE Connect(h)
    BY <2>1, <2>3 DEF Connect, Goes, Calls, Idle, EnteredOrEnded
  <2>4. CASE ReplyStarted(h)
    BY <2>1, <2>4 DEF ReplyStarted, Goes, Calls, Idle, EnteredOrEnded
  <2> QED
    BY <1>2, <2>2, <2>3, <2>4 DEF StartSession
<1>3. ASSUME NEW h \in Handlers, ListSessions(h) PROVE IInv'
  BY <1>3 DEF ListSessions, EnteredOrEnded
<1>4. ASSUME NEW h \in Handlers, NEW s \in Sessions, StopSession(h, s) PROVE IInv'
  BY <1>4, RemoveKeeps DEF StopSession
<1>5. ASSUME NEW s \in Sessions, BecomesReady(s) \/ Connects(s) PROVE IInv'
  BY <1>5 DEF BecomesReady, Connects, Others, EnteredOrEnded
<1>6. ASSUME NEW s \in Sessions, FailBegins(s) \/ FailRequests(s) \/ FailEnds(s) PROVE IInv'
  BY <1>6 DEF FailBegins, FailRequests, FailEnds, Others, EnteredOrEnded
<1>7. CASE StopNext
  <2>1. PICK s \in toStop : Remove(s) /\ toStop' = toStop \ {s}
    BY <1>7 DEF StopNext
  <2> QED
    BY <1>7, <2>1, RemoveKeeps DEF StopNext
<1>8. CASE ShutdownRequested \/ AllSessionIDs \/ StopEventLoops \/ Exit
  BY <1>8 DEF ShutdownRequested, AllSessionIDs, StopEventLoops, Exit, EnteredOrEnded
<1>9. CASE UNCHANGED vars
  BY <1>9 DEF vars, EnteredOrEnded
<1> QED
  BY <1>1, <1>2, <1>3, <1>4, <1>5, <1>6, <1>7, <1>8, <1>9 DEF Next, ConnectionMoves, Main

LEMMA Initially == Init => IInv
BY DEF Init, IInv, TypeOK, EnteredOrEnded, Calls, Idle

(* Whatever calls, failures and shutdown interleave, the manager's state is well-typed. *)
THEOREM TypeCorrect == SafeSpec => []TypeOK
<1>1. IInv => TypeOK
  BY DEF IInv
<1> QED
  BY <1>1, Initially, Inductive, PTL DEF SafeSpec

(* Whatever calls, handshakes, failures and shutdown interleave, no connection that was
   started and has not been told to end is missing from the dictionaries.               *)
THEOREM Reachable == SafeSpec => []ConnectedIsReachable
<1>1. IInv => ConnectedIsReachable
  BY DEF IInv, EnteredOrEnded, ConnectedIsReachable
<1> QED
  BY <1>1, Initially, Inductive, PTL DEF SafeSpec
=============================================================================
