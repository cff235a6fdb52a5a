---------------------------- MODULE SessionManager ----------------------------
(***************************************************************************)
(* RoyalVNCTool: gRPC calls, each on a thread of the server's event loops, *)
(* start, list and stop VNC sessions in one VNCSessionManager, while the   *)
(* main thread waits for a signal and then stops all of them.              *)
(*                                                                         *)
(* The manager's dictionaries change together inside queue.sync, so a      *)
(* block of it is one step.  What is outside the block is a step of its    *)
(* own: startSession calls connect() after it has left the queue.          *)
(*                                                                         *)
(* Each session's VNCConnection is reduced to what the manager can see:    *)
(* its connectionState, State.disconnectRequested, the handshake Task and  *)
(* a thread of its own that ends it (see VNCConnection).                   *)
(***************************************************************************)
EXTENDS FiniteSets

CONSTANTS
    Sessions,   \* session ids, each is handed out once
    Handlers    \* threads that run gRPC calls

VARIABLES
    sessions,    \* ids in the dictionaries sessions, delegates and configs
    status,      \* connectionState of each session's connection, "none" before it exists
    requested,   \* sessions whose connection has disconnectRequested
    handshake,   \* the handshake Task of each connection: "none", "running" or "over"
    ending,      \* a thread that fails in beginDisconnecting: "no", or before the flag, the state
    call,        \* per thread: the session of the startSession call it runs, and where it is
    known,       \* ids a client has been told
    stopped,     \* ids for which a stopSession call has succeeded
    main,        \* where the main thread is
    toStop       \* allSessionIDs() that shutdownAllSessions has not stopped yet

connection == <<status, requested, handshake, ending>>

vars == <<sessions, connection, call, known, stopped, main, toStop>>

Idle == [at |-> "idle"]
Calls == {Idle} \cup [at : {"insert", "connect", "reply"}, id : Sessions]

TypeOK ==
    /\ sessions \subseteq Sessions
    /\ status \in [Sessions -> {"none", "created", "connecting", "connected", "disconnected"}]
    /\ requested \subseteq Sessions
    /\ handshake \in [Sessions -> {"none", "running", "over"}]
    /\ ending \in [Sessions -> {"no", "flag", "state"}]
    /\ call \in [Handlers -> Calls]
    /\ known \subseteq Sessions
    /\ stopped \subseteq Sessions
    /\ main \in {"polling", "shutdown", "stopping", "draining", "exited"}
    /\ toStop \subseteq Sessions

Init ==
    /\ sessions = {}
    /\ status = [s \in Sessions |-> "none"]
    /\ requested = {}
    /\ handshake = [s \in Sessions |-> "none"]
    /\ ending = [s \in Sessions |-> "no"]
    /\ call = [h \in Handlers |-> Idle]
    /\ known = {}
    /\ stopped = {}
    /\ main = "polling"
    /\ toStop = {}

(* The event loops take calls until syncShutdownGracefully closes the channels. *)
Serving == main \notin {"draining", "exited"}
Free(h) == Serving /\ call[h] = Idle

GoesMutant(h, from, to) ==
    /\ call[h].at = from
    /\ call' = [call EXCEPT ![h].at = to]

Goes(h, from, to) ==
    /\ call[h].at = from
    /\ call' = [call EXCEPT ![h] = IF to = "idle" THEN Idle ELSE [@ EXCEPT !.at = to]]

-----------------------------------------------------------------------------
(***************************************************************************)
(* startSession: make a connection, enter it, connect it, answer.          *)
(***************************************************************************)
CreateConnection(h) ==
    /\ Free(h)
    /\ \E s \in Sessions :
        /\ status[s] = "none"
        /\ status' = [status EXCEPT ![s] = "created"]
        /\ call' = [call EXCEPT ![h] = [at |-> "insert", id |-> s]]
    /\ UNCHANGED <<sessions, requested, handshake, ending, known, stopped, main, toStop>>

InsertMutant(h) ==
    /\ Goes(h, "insert", "connect")
    /\ UNCHANGED <<sessions, connection, known, stopped, main, toStop>>

Insert(h) ==
    /\ Goes(h, "insert", "connect")
    /\ sessions' = sessions \cup {call[h].id}
    /\ UNCHANGED <<connection, known, stopped, main, toStop>>

Connect(h) ==
    /\ Goes(h, "connect", "reply")
    /\ status' = [status EXCEPT ![call[h].id] = "connecting"]
    /\ UNCHANGED <<sessions, requested, handshake, ending, known, stopped, main, toStop>>

ReplyStarted(h) ==
    /\ Goes(h, "reply", "idle")
    /\ known' = known \cup {call[h].id}
    /\ UNCHANGED <<sessions, connection, stopped, main, toStop>>

-----------------------------------------------------------------------------
(***************************************************************************)
(* listSessions and stopSession.  Both are one block of the queue.  The    *)
(* block that stops a session calls disconnect(), which does nothing where *)
(* an end was requested before, and removes the entries; stopping an id    *)
(* that is not there changes nothing and succeeds.                         *)
(***************************************************************************)
ListSessions(h) ==
    /\ Free(h)
    /\ known' = known \cup sessions
    /\ UNCHANGED <<sessions, connection, call, stopped, main, toStop>>

RemoveMutant(s) ==
    /\ sessions' = sessions \ {s}
    /\ UNCHANGED connection

Remove(s) ==
    /\ sessions' = sessions \ {s}
    /\ IF s \in sessions \ requested
       THEN /\ status' = [status EXCEPT ![s] = "disconnected"]
            /\ requested' = requested \cup {s}
            /\ UNCHANGED <<handshake, ending>>
       ELSE UNCHANGED connection

StopSession(h, s) ==
    /\ Free(h) /\ s \in known
    /\ Remove(s)
    /\ stopped' = stopped \cup {s}
    /\ UNCHANGED <<call, known, main, toStop>>

-----------------------------------------------------------------------------
(***************************************************************************)
(* The connections.  The status handler is called until an end is          *)
(* requested, the handshake goes on and stores .connected without a look   *)
(* at disconnectRequested.  A thread that fails checks and sets the flag   *)
(* and stores the state in steps, between which stopSession may come.      *)
(* Nothing tells the manager that a connection has ended.                  *)
(***************************************************************************)
Others == <<sessions, call, known, stopped, main, toStop>>

BecomesReady(s) ==
    /\ status[s] = "connecting" /\ s \notin requested
    /\ handshake[s] = "none" /\ ending[s] = "no"
    /\ handshake' = [handshake EXCEPT ![s] = "running"]
    /\ UNCHANGED <<status, requested, ending, Others>>

Connects(s) ==
    /\ handshake[s] = "running"
    /\ handshake' = [handshake EXCEPT ![s] = "over"]
    /\ status' = [status EXCEPT ![s] = "connected"]
    /\ UNCHANGED <<requested, ending, Others>>

(* The thread is the handshake's own, the network layer's or a loop's. *)
FailBegins(s) ==
    /\ status[s] \in {"connecting", "connected"} /\ s \notin requested
    /\ ending[s] = "no"
    /\ ending' = [ending EXCEPT ![s] = "flag"]
    /\ \/ UNCHANGED handshake
       \/ handshake[s] = "running" /\ handshake' = [handshake EXCEPT ![s] = "over"]
    /\ UNCHANGED <<status, requested, Others>>

FailRequests(s) ==
    /\ ending[s] = "flag"
    /\ requested' = requested \cup {s}
    /\ ending' = [ending EXCEPT ![s] = "state"]
    /\ UNCHANGED <<status, handshake, Others>>

FailEnds(s) ==
    /\ ending[s] = "state"
    /\ status' = [status EXCEPT ![s] = "disconnected"]
    /\ ending' = [ending EXCEPT ![s] = "no"]
    /\ UNCHANGED <<requested, handshake, Others>>

ConnectionMoves(s) ==
    BecomesReady(s) \/ Connects(s) \/ FailBegins(s) \/ FailRequests(s) \/ FailEnds(s)

-----------------------------------------------------------------------------
(***************************************************************************)
(* The main thread: the handler of SIGINT and SIGTERM sets a flag that it  *)
(* polls; it stops the sessions there are at that moment, then shuts the   *)
(* event loops down, which waits for the calls they are running.           *)
(***************************************************************************)
ShutdownRequested ==
    /\ main = "polling"
    /\ main' = "shutdown"
    /\ UNCHANGED <<sessions, connection, call, known, stopped, toStop>>

AllSessionIDsMutant ==
    /\ main = "shutdown"
    /\ toStop' = sessions \ requested
    /\ main' = "stopping"
    /\ UNCHANGED <<sessions, connection, call, known, stopped>>

AllSessionIDs ==
    /\ main = "shutdown"
    /\ toStop' = sessions
    /\ main' = "stopping"
    /\ UNCHANGED <<sessions, connection, call, known, stopped>>

StopNext ==
    /\ main = "stopping"
    /\ \E s \in toStop :
        /\ Remove(s)
        /\ toStop' = toStop \ {s}
    /\ UNCHANGED <<call, known, stopped, main>>

StopEventLoops ==
    /\ main = "stopping" /\ toStop = {}
    /\ main' = "draining"
    /\ UNCHANGED <<sessions, connection, call, known, stopped, toStop>>

Exit ==
    /\ main = "draining"
    /\ \A h \in Handlers : call[h] = Idle
    /\ main' = "exited"
    /\ UNCHANGED <<sessions, connection, call, known, stopped, toStop>>

Main == ShutdownRequested \/ AllSessionIDs \/ StopNext \/ StopEventLoops \/ Exit
-----------------------------------------------------------------------------
StartSession(h) == Insert(h) \/ Connect(h) \/ ReplyStarted(h)

Next ==
    \/ \E h \in Handlers :
        \/ CreateConnection(h) \/ StartSession(h) \/ ListSessions(h)
        \/ \E s \in Sessions : StopSession(h, s)
    \/ main # "exited" /\ \E s \in Sessions : ConnectionMoves(s)
    \/ Main

SafeSpec == Init /\ [][Next]_vars

(* A call that began goes on, and so does the main thread once the signal came. *)
Fairness ==
    /\ \A h \in Handlers : WF_vars(StartSession(h))
    /\ WF_vars(AllSessionIDs \/ StopNext \/ StopEventLoops \/ Exit)

Spec == SafeSpec /\ Fairness
-----------------------------------------------------------------------------
(***************************************************************************)
(* Properties.                                                             *)
(***************************************************************************)

(* A connection that was started and that nobody has told to end is in the
   dictionaries: it is kept alive, listed, and can be stopped.  Entering it after
   connect(), or removing it without disconnect(), would leave one that nobody can
   reach any more.                                                                 *)
ConnectedIsReachable ==
    \A s \in Sessions :
        status[s] \in {"connecting", "connected"} /\ s \notin requested => s \in sessions

(* A signal ends the program, although calls and shutdown stop sessions concurrently,
   and when it exits every session that was there at the signal has been told to end
   and is gone from the dictionaries, the ones that have failed by themselves too.    *)
ShutdownEndsSessions ==
    \A s \in Sessions :
        (main = "shutdown" /\ s \in sessions) ~>
            (main = "exited" /\ s \in requested /\ s \notin sessions)

(* README.md of RoyalVNCTool: StopSession terminates a VNC session, for good. *)
StoppedStaysTerminated ==
    [][\A s \in stopped : status[s] = "disconnected" => status'[s] = "disconnected"]_vars
=============================================================================
