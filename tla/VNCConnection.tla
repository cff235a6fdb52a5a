---------------------------- MODULE VNCConnection ----------------------------
(***************************************************************************)
(* The life of one VNCConnection (Sources/RoyalVNCKit/SDK/Connection): the *)
(* owner calls connect() and disconnect(), the network layer reports its   *)
(* status on a dispatch queue, one Task performs the handshake and then    *)
(* starts two more, the receive loop and the send loop.  Five of these     *)
(* threads can end the connection, each by running beginDisconnecting,     *)
(* which takes no lock: every read or write of shared state is therefore a *)
(* step of its own here.                                                   *)
(*                                                                         *)
(* Bytes are left out.  A read or a write either succeeds or throws; what  *)
(* the handshake says is the subject of another module.                    *)
(***************************************************************************)
EXTENDS Naturals

CONSTANTS
    Backends,           \* of "nw" (NWConnection) and "socket" (SocketNetworkConnection)
    OwnerDisconnects,   \* the owner may call disconnect()
    RequestUpdates,     \* settings.requestFramebufferUpdates
    MaxQueued           \* bound on clientToServerMessageQueue

ASSUME ConstantsAssumption ==
    /\ Backends \subseteq {"nw", "socket"}
    /\ OwnerDisconnects \in BOOLEAN
    /\ RequestUpdates \in BOOLEAN
    /\ MaxQueued \in Nat

VARIABLES
    backend,              \* which NetworkConnection the connection was built with
    connectionState,      \* the status of VNCConnection.connectionState
    told,                 \* the status the delegate heard last
    heard,                \* all statuses it has heard
    disconnectRequested,  \* State.disconnectRequested
    monitoring,           \* the clipboard monitor was started and not stopped since
    framebuffer,          \* VNCConnection.framebuffer is not nil
    queued,               \* length of clientToServerMessageQueue
    connection,           \* the lazy var: whose transport is stored, "none" at first
    net,                  \* status of the transport each of the Creators has made
    hooked,               \* transports with a status update handler
    cancelling,           \* transports whose cancel() took effect or is going to
    peer,                 \* "open", or "closed" once the server's end of stream is visible
    late,                 \* per loop: messages it processed after disconnectRequested
    pc                    \* where each thread is

transportVars == <<connection, net, hooked, cancelling>>

vars == <<backend, connectionState, told, heard, disconnectRequested, monitoring,
          framebuffer, queued, transportVars, peer, late, pc>>

Statuses    == {"disconnected", "connecting", "connected", "disconnecting"}
NetStatuses == {"setup", "preparing", "waiting", "ready", "failed", "cancelled"}
Loops       == {"receive", "send"}

(* The threads that can run beginDisconnecting, and all threads. *)
Enders  == {"owner", "net", "handshake", "receive", "send"}
Threads == Enders \cup {"opener"}

(* The threads that may find no transport in the lazy var `connection`: connect()
   starts it and disconnect() unhooks it.  Every other use comes after a start.    *)
Creators == {"opener", "owner"}

(* The steps of beginDisconnecting, in order.  "guard" is before its check of
   disconnectRequested, the others are past it.                              *)
TeardownSteps == {"flag", "disconnecting", "tellDisconnecting", "unhook", "create",
                  "cancel", "disconnected", "tellDisconnected"}

Labels == TeardownSteps \cup
    {"guard", "idle", "none", "done",                                \* common
     "tellConnecting", "start",                   \* opener, which has "create", too
     "onReady",                                                      \* net
     "await", "credential", "init", "request",                       \* handshake
     "connected", "tellConnected", "startReceive", "startSend",
     "loop", "check", "read", "write"}                               \* loops

TypeOK ==
    /\ backend \in Backends
    /\ connectionState \in Statuses
    /\ told \in Statuses \cup {"nothing"}
    /\ heard \subseteq Statuses
    /\ disconnectRequested \in BOOLEAN
    /\ monitoring \in BOOLEAN
    /\ framebuffer \in BOOLEAN
    /\ queued \in 0..MaxQueued
    /\ connection \in Creators \cup {"none"}
    /\ net \in [Creators -> NetStatuses \cup {"none"}]
    /\ hooked \subseteq Creators
    /\ cancelling \subseteq Creators
    /\ peer \in {"open", "closed"}
    /\ late \in [Loops -> Nat]
    /\ pc \in [Threads -> Labels]

Init ==
    /\ backend \in Backends
    /\ connectionState = "disconnected"
    /\ told = "nothing"
    /\ heard = {}
    /\ disconnectRequested = FALSE
    /\ monitoring = FALSE
    /\ framebuffer = FALSE
    /\ queued = 0
    /\ connection = "none"
    /\ net = [c \in Creators |-> "none"]
    /\ hooked = {}
    /\ cancelling = {}
    /\ peer = "open"
    /\ late = [l \in Loops |-> 0]
    /\ pc = [t \in Threads |-> IF t \in {"opener", "owner", "net"} THEN "idle" ELSE "none"]

(***************************************************************************)
(* Helpers.                                                                *)
(***************************************************************************)
Go(t, from, to) ==
    /\ pc[t] = from
    /\ pc' = [pc EXCEPT ![t] = to]

IsReady == connection # "none" /\ net[connection] = "ready"

(* A read or write can succeed: on the stored transport, except that a read that has
   begun goes on when another one gets stored.  None succeeds after cancel() was called,
   although the status is .ready until the transport is cancelled.                      *)
Usable == IsReady /\ connection \notin cancelling
Serves == peer = "open" /\ \E c \in Creators : net[c] = "ready" /\ c \notin cancelling

(* A pending read is certain to throw, on whichever transport: there is none, it has
   failed or is cancelled, the server has closed the stream, or the socket was never
   opened.  A read on an NWConnection that was not started waits.                    *)
Dead(c) ==
    \/ net[c] \in {"none", "failed", "cancelled"}
    \/ net[c] = "ready" /\ peer = "closed"
    \/ net[c] = "setup" /\ backend = "socket"
Broken == \A c \in Creators : Dead(c)

(* The condition of both loops' while statement and of the guards inside. *)
LoopMayContinueMutant == IsReady
LoopMayContinue == ~disconnectRequested /\ IsReady

(* The delegate hears a status. *)
Tells(status) ==
    /\ told' = status
    /\ heard' = heard \cup {status}

(* Count a message that loop l processes although the end was requested. *)
CountLate(l) ==
    late' = [late EXCEPT ![l] = IF disconnectRequested THEN @ + 1 ELSE @]

(* Where a thread continues after handleBreakingError or disconnect() returns. *)
AfterTeardown(t) ==
    CASE t \in Loops       -> "loop"
      [] t = "handshake"   -> "done"
      [] OTHER             -> "idle"

-----------------------------------------------------------------------------
(***************************************************************************)
(* The getter of `lazy var connection`, which takes no lock: a thread that *)
(* finds nothing stored makes a transport with its handler, stores it and  *)
(* goes on with its own, whatever another thread has stored in between.    *)
(***************************************************************************)
Got(t) == IF t \in Creators /\ net[t] # "none" THEN t ELSE connection

FindsNothing(t, at) ==
    /\ connection = "none"
    /\ Go(t, at, "create")
    /\ UNCHANGED <<backend, connectionState, told, heard, disconnectRequested, monitoring,
                   framebuffer, queued, transportVars, peer, late>>

CreateTransport(t, next) ==
    /\ Go(t, "create", next)
    /\ connection' = t
    /\ net' = [net EXCEPT ![t] = "setup"]
    /\ hooked' = hooked \cup {t}
    /\ UNCHANGED <<backend, connectionState, told, heard, disconnectRequested, monitoring,
                   framebuffer, queued, cancelling, peer, late>>

-----------------------------------------------------------------------------
(***************************************************************************)
(* beginDisconnecting, run by thread t.  updateConnectionState stores the  *)
(* state and stops the clipboard monitor before it notifies the delegate,  *)
(* and two threads may be anywhere in here at the same time.               *)
(***************************************************************************)
CheckRequested(t) ==
    /\ Go(t, "guard", IF disconnectRequested THEN AfterTeardown(t) ELSE "flag")
    /\ UNCHANGED <<backend, connectionState, told, heard, disconnectRequested, monitoring,
                   framebuffer, queued, transportVars, peer, late>>

SetRequestedMutant(t) ==
    /\ Go(t, "flag", "disconnecting")
    /\ UNCHANGED <<backend, connectionState, told, heard, disconnectRequested, monitoring,
                   framebuffer, queued, transportVars, peer, late>>

SetRequested(t) ==
    /\ Go(t, "flag", "disconnecting")
    /\ disconnectRequested' = TRUE
    /\ UNCHANGED <<backend, connectionState, told, heard, monitoring, framebuffer, queued,
                   transportVars, peer, late>>

StoreState(t, status, next) ==
    /\ Go(t, status, next)
    /\ connectionState' = status
    /\ monitoring' = FALSE
    /\ UNCHANGED <<backend, told, heard, disconnectRequested, framebuffer, queued, transportVars, peer, late>>

TellDisconnecting(t) ==
    /\ Go(t, "tellDisconnecting", "unhook")
    /\ Tells("disconnecting")
    /\ UNCHANGED <<backend, connectionState, disconnectRequested, monitoring,
                   framebuffer, queued, transportVars, peer, late>>

UnhookMutant(t) ==
    /\ connection # "none"
    /\ Go(t, "unhook", IF net[Got(t)] = "setup" THEN AfterTeardown(t) ELSE "cancel")
    /\ hooked' = hooked \ {Got(t)}
    /\ UNCHANGED <<backend, connectionState, told, heard, disconnectRequested, monitoring,
                   framebuffer, queued, connection, net, cancelling, peer, late>>

Unhook(t) ==
    /\ connection # "none"
    /\ Go(t, "unhook", "cancel")
    /\ hooked' = hooked \ {Got(t)}
    /\ UNCHANGED <<backend, connectionState, told, heard, disconnectRequested, monitoring,
                   framebuffer, queued, connection, net, cancelling, peer, late>>

(* NWConnection.cancel() returns at once, the transport is cancelled later (NetCancelled).
   SocketNetworkConnection.cancel() is a TODO.                                            *)
CancelMutant(t) ==
    /\ Go(t, "cancel", "disconnected")
    /\ UNCHANGED <<backend, connectionState, told, heard, disconnectRequested, monitoring,
                   framebuffer, queued, transportVars, peer, late>>

Cancel(t) ==
    /\ Go(t, "cancel", "disconnected")
    /\ cancelling' = IF backend = "nw" THEN cancelling \cup {connection} ELSE cancelling
    /\ UNCHANGED <<backend, connectionState, told, heard, disconnectRequested, monitoring,
                   framebuffer, queued, connection, net, hooked, peer, late>>

TellDisconnected(t) ==
    /\ Go(t, "tellDisconnected", AfterTeardown(t))
    /\ Tells("disconnected")
    /\ UNCHANGED <<backend, connectionState, disconnectRequested, monitoring, framebuffer,
                   queued, transportVars, peer, late>>

BeginDisconnecting(t) ==
    \/ CheckRequested(t)
    \/ SetRequested(t)
    \/ StoreState(t, "disconnecting", "tellDisconnecting")
    \/ TellDisconnecting(t)
    \/ t = "owner" /\ (FindsNothing(t, "unhook") \/ CreateTransport(t, "unhook"))
    \/ Unhook(t)
    \/ Cancel(t)
    \/ StoreState(t, "disconnected", "tellDisconnected")
    \/ TellDisconnected(t)

-----------------------------------------------------------------------------
(***************************************************************************)
(* The owner: connect() once, disconnect() whenever it likes, any input.   *)
(***************************************************************************)
Connect ==
    /\ Go("opener", "idle", "tellConnecting")
    /\ connectionState' = "connecting"
    /\ UNCHANGED <<backend, told, heard, disconnectRequested, monitoring, framebuffer,
                   queued, transportVars, peer, late>>

TellConnecting ==
    /\ Go("opener", "tellConnecting", "start")
    /\ Tells("connecting")
    /\ UNCHANGED <<backend, connectionState, disconnectRequested, monitoring,
                   framebuffer, queued, transportVars, peer, late>>

(* connection.start: an NWConnection whose cancel() was called does not start. *)
StartNetwork ==
    /\ connection # "none"
    /\ Go("opener", "start", "done")
    /\ LET c == Got("opener") IN
        net' = IF net[c] = "setup" /\ c \notin cancelling
               THEN [net EXCEPT ![c] = "preparing"] ELSE net
    /\ UNCHANGED <<backend, connectionState, told, heard, disconnectRequested, monitoring,
                   framebuffer, queued, connection, hooked, cancelling, peer, late>>

Open == \/ TellConnecting
        \/ FindsNothing("opener", "start") \/ CreateTransport("opener", "start")
        \/ StartNetwork

Disconnect ==
    /\ OwnerDisconnects
    /\ Go("owner", "idle", "guard")
    /\ UNCHANGED <<backend, connectionState, told, heard, disconnectRequested, monitoring,
                   framebuffer, queued, transportVars, peer, late>>

Enqueue ==
    /\ queued < MaxQueued
    /\ queued' = queued + 1
    /\ UNCHANGED <<backend, connectionState, told, heard, disconnectRequested, monitoring,
                   framebuffer, transportVars, peer, late, pc>>

-----------------------------------------------------------------------------
(***************************************************************************)
(* The network layer and connectionStatusDidChange.  A change of status    *)
(* calls the handler that is set at that moment; .waiting and .failed end  *)
(* the connection, .ready spawns the handshake Task.                       *)
(***************************************************************************)
NetBecomes(c, status, handlerStep) ==
    /\ pc["net"] = "idle"
    /\ net' = [net EXCEPT ![c] = status]
    /\ pc' = [pc EXCEPT !["net"] = IF c \in hooked THEN handlerStep ELSE "idle"]
    /\ UNCHANGED <<backend, connectionState, told, heard, disconnectRequested, monitoring,
                   framebuffer, queued, connection, hooked, cancelling, peer, late>>

NetReady(c) == net[c] \in {"preparing", "waiting"} /\ NetBecomes(c, "ready", "onReady")
NetWaiting(c) ==
    backend = "nw" /\ net[c] = "preparing" /\ NetBecomes(c, "waiting", "guard")
NetFailed(c) ==
    /\ \/ net[c] = "preparing"
       \/ backend = "nw" /\ net[c] \in {"waiting", "ready"}
    /\ NetBecomes(c, "failed", "guard")

(* A transport that was never started has no queue to call its handler on. *)
NetCancelled(c) ==
    /\ c \in cancelling /\ net[c] # "cancelled"
    /\ NetBecomes(c, "cancelled", IF net[c] = "setup" THEN "idle" ELSE "guard")

Network(c) == NetReady(c) \/ NetWaiting(c) \/ NetFailed(c) \/ NetCancelled(c)

ConnectionDidBecomeReady ==
    /\ pc["net"] = "onReady"
    /\ pc' = [pc EXCEPT !["net"] = "idle", !["handshake"] = "await"]
    /\ UNCHANGED <<backend, connectionState, told, heard, disconnectRequested, monitoring,
                   framebuffer, queued, transportVars, peer, late>>

PeerCloses ==
    /\ peer = "open" /\ \E c \in Creators : net[c] = "ready"
    /\ peer' = "closed"
    /\ UNCHANGED <<backend, connectionState, told, heard, disconnectRequested, monitoring,
                   framebuffer, queued, transportVars, late, pc>>

-----------------------------------------------------------------------------
(***************************************************************************)
(* The handshake Task.  Its awaits before ServerInit are one "await" that  *)
(* the server answers or not; a credential may be asked for in between.    *)
(***************************************************************************)
Moves(t, from, to) ==
    /\ Go(t, from, to)
    /\ UNCHANGED <<backend, connectionState, told, heard, disconnectRequested, monitoring,
                   framebuffer, queued, transportVars, peer, late>>

AskCredential    == Serves /\ Moves("handshake", "await", "credential")
CredentialGiven  == Moves("handshake", "credential", "await")
CredentialDenied == Moves("handshake", "credential", "guard")

ReceiveServerInit == Serves /\ Moves("handshake", "await", "init")

(* The rest of receiveServerInit: SetPixelFormat and SetEncodings are written,
   the framebuffer is created and input queued so far is dropped.            *)
CreateFramebuffer ==
    /\ Usable
    /\ Go("handshake", "init", IF RequestUpdates THEN "request" ELSE "connected")
    /\ framebuffer' = TRUE
    /\ queued' = 0
    /\ UNCHANGED <<backend, connectionState, told, heard, disconnectRequested, monitoring,
                   transportVars, peer, late>>

RequestFirstUpdate == Usable /\ Moves("handshake", "request", "connected")

(* No check of disconnectRequested between the handshake and .connected. *)
StoreConnected ==
    /\ Go("handshake", "connected", "tellConnected")
    /\ connectionState' = "connected"
    /\ monitoring' = TRUE
    /\ UNCHANGED <<backend, told, heard, disconnectRequested, framebuffer, queued, transportVars, peer, late>>

TellConnected ==
    /\ Go("handshake", "tellConnected", "startReceive")
    /\ Tells("connected")
    /\ UNCHANGED <<backend, connectionState, disconnectRequested, monitoring,
                   framebuffer, queued, transportVars, peer, late>>

StartLoop(l, from, next) ==
    /\ pc["handshake"] = from
    /\ pc' = [pc EXCEPT !["handshake"] = next, ![l] = "loop"]
    /\ UNCHANGED <<backend, connectionState, told, heard, disconnectRequested, monitoring,
                   framebuffer, queued, transportVars, peer, late>>

(* Any await of the handshake may throw, whatever the reason. *)
HandshakeThrows ==
    \E from \in {"await", "init", "request"} : Moves("handshake", from, "guard")

Handshake ==
    \/ AskCredential \/ CredentialGiven \/ CredentialDenied
    \/ ReceiveServerInit \/ CreateFramebuffer \/ RequestFirstUpdate
    \/ StoreConnected \/ TellConnected
    \/ StartLoop("receive", "startReceive", "startSend")
    \/ StartLoop("send", "startSend", "done")
    \/ HandshakeThrows

-----------------------------------------------------------------------------
(***************************************************************************)
(* The two loops.  Each evaluates its while condition, then receive() or   *)
(* send() checks the same things again before it does anything.            *)
(***************************************************************************)
LoopTest(l) == Moves(l, "loop", IF LoopMayContinue THEN "check" ELSE "done")

(* receive() returns when the end was requested and throws .notReady. *)
ReceiveCheck ==
    Moves("receive", "check",
          IF disconnectRequested THEN "loop" ELSE IF IsReady THEN "read" ELSE "guard")

(* One message is read and handled, the update request it may send included. *)
ReceiveMessage ==
    /\ Serves
    /\ Go("receive", "read", "loop")
    /\ CountLate("receive")
    /\ UNCHANGED <<backend, connectionState, told, heard, disconnectRequested, monitoring,
                   framebuffer, queued, transportVars, peer>>

ReceiveThrowsMutant == Moves("receive", "read", "loop")
ReceiveThrows == Moves("receive", "read", "guard")

(* send() takes a message or sleeps for 10 ms. *)
DequeueMutant ==
    /\ LoopMayContinue
    /\ Go("send", "check", "write")
    /\ queued' = queued - 1
    /\ UNCHANGED <<backend, connectionState, told, heard, disconnectRequested, monitoring,
                   framebuffer, transportVars, peer, late>>

Dequeue ==
    /\ LoopMayContinue /\ queued > 0
    /\ Go("send", "check", "write")
    /\ queued' = queued - 1
    /\ UNCHANGED <<backend, connectionState, told, heard, disconnectRequested, monitoring,
                   framebuffer, transportVars, peer, late>>

Sleep == ~(LoopMayContinue /\ queued > 0) /\ Moves("send", "check", "loop")

SendMessage ==
    /\ Usable
    /\ Go("send", "write", "loop")
    /\ CountLate("send")
    /\ UNCHANGED <<backend, connectionState, told, heard, disconnectRequested, monitoring,
                   framebuffer, queued, transportVars, peer>>

SendThrows == Moves("send", "write", "guard")

Receive == LoopTest("receive") \/ ReceiveCheck \/ ReceiveMessage \/ ReceiveThrows
Send    == LoopTest("send") \/ Dequeue \/ Sleep \/ SendMessage \/ SendThrows

-----------------------------------------------------------------------------
Next ==
    \/ \E t \in Enders : BeginDisconnecting(t)
    \/ Connect \/ Open
    \/ Disconnect \/ Enqueue
    \/ \E c \in Creators : Network(c)
    \/ ConnectionDidBecomeReady \/ PeerCloses
    \/ Handshake \/ Receive \/ Send

(***************************************************************************)
(* Fairness.  A thread that is not blocked goes on.  An NWConnection that  *)
(* was told to cancel gets cancelled.  A read that is bound to throw does  *)
(* so, but nothing makes the server answer.  The delegate answers a        *)
(* request for a credential: USAGE.md asks the owner to.                   *)
(***************************************************************************)
Fairness ==
    /\ \A t \in Enders : WF_vars(BeginDisconnecting(t))
    /\ WF_vars(Open)
    /\ \A c \in Creators : WF_vars(NetCancelled(c))
    /\ WF_vars(ConnectionDidBecomeReady)
    /\ WF_vars(CredentialGiven \/ CredentialDenied)
    /\ WF_vars(Broken /\ HandshakeThrows)
    /\ WF_vars(CreateFramebuffer \/ RequestFirstUpdate)
    /\ WF_vars(StoreConnected \/ TellConnected)
    /\ WF_vars(StartLoop("receive", "startReceive", "startSend"))
    /\ WF_vars(StartLoop("send", "startSend", "done"))
    /\ WF_vars(LoopTest("receive") \/ ReceiveCheck)
    /\ WF_vars(Broken /\ ReceiveThrows)
    /\ WF_vars(Send)

SafeSpec == Init /\ [][Next]_vars
Spec == SafeSpec /\ Fairness
-----------------------------------------------------------------------------
(***************************************************************************)
(* Properties.                                                             *)
(***************************************************************************)

(* A thread that is past the guard of beginDisconnecting and not at its end. *)
InTeardown(t) == pc[t] \in TeardownSteps \ {"flag"}

Reported == "disconnected" \in heard

(* beginDisconnecting lets one caller in and turns the others away, so the one
   that got in must finish: once disconnectRequested is set, either the delegate
   has heard .disconnected or some thread is on its way to telling it.  A guard
   or an early return in the wrong place would leave the owner waiting forever. *)
EndIsNeverLost ==
    disconnectRequested => Reported \/ \E t \in Enders : InTeardown(t)

(* When the delegate hears .disconnected, no status callback is going to come and an
   NWConnection has been told to cancel, whichever of five threads did so and however
   far a second one has got.  This is so for the one transport there should be: where
   connect() and disconnect() reach the lazy var together and make two, the one that
   is started may keep its handler and never be cancelled.                            *)
OneTransport == \E c \in Creators : net[c] = "none"
HandlerRemoved == hooked = {}
TransportReleased ==
    backend = "nw" => \A c \in Creators : net[c] # "none" => c \in cancelling
EndedMeansReleased == Reported /\ OneTransport => HandlerRemoved /\ TransportReleased

(* The guards of the loops bound what happens after disconnect(): each loop
   processes at most the one message it was busy with.                       *)
AtMostOneLateMessage == \A l \in Loops : late[l] <= 1

(* A loop that is told to end does: the NWConnection gets cancelled, so a pending
   receive throws, handleBreakingError returns at its guard, the while ends.  A
   socket is not cancelled, and its receive loop stays in the read.             *)
LoopsEnd ==
    (backend = "nw" /\ disconnectRequested) ~> [](\A l \in Loops : pc[l] \in {"none", "done"})

(* When the server goes away while the handshake or a loop is talking to it, the
   owner hears .disconnected, although nobody called disconnect().              *)
LostServerIsReported ==
    (peer = "closed" /\ pc["handshake"] # "none") ~> Reported

(* USAGE.md tells the owner to wait for .disconnected before it considers the
   connection torn down, and to discard it then.  So .disconnected is not followed
   by .connected.                                                                 *)
NeverConnectedAfterDisconnected ==
    [][told = "disconnected" => told' # "connected"]_vars

(* The promise to the owner that does hold, whatever threads interleave: what the
   delegate hears of the opening, and what it hears of the end, comes in order and
   from a start or a request; and an end once requested is announced and reported.  *)
Opening ==
    IF "connected" \in heard THEN "connected"
    ELSE IF "connecting" \in heard THEN "connecting" ELSE "new"

Ending ==
    IF Reported THEN "reported"
    ELSE IF "disconnecting" \in heard THEN "announced"
    ELSE IF disconnectRequested THEN "requested" ELSE "none"

Lifecycle == INSTANCE ConnectionLifecycle WITH opening <- Opening, ending <- Ending
ImplementsLifecycle == Lifecycle!Spec
=============================================================================
