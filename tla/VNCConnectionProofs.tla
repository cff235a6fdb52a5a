------------------------- MODULE VNCConnectionProofs -------------------------
(***************************************************************************)
(* Proofs about VNCConnection, for both backends, any settings and any     *)
(* bound on the queue: type correctness, no requested end is lost, what    *)
(* holds when .disconnected is reported, at most one late message per      *)
(* loop, and the implementation of ConnectionLifecycle.                    *)
(***************************************************************************)
EXTENDS VNCConnection, TLAPS

(* The lazy var holds one of the transports there are.  A thread that is about to make
   one has none; one that is past the getter finds one stored.                        *)
Created == {c \in Creators : net[c] # "none"}

PastTheGetter == {"cancel", "disconnected", "tellDisconnected"}

OneIsStored ==
    /\ connection = "none" => Created = {}
    /\ connection # "none" => connection \in Created
    /\ hooked \subseteq Created /\ cancelling \subseteq Created
    /\ \A c \in Creators : pc[c] = "create" => net[c] = "none"
    /\ \A t \in Enders : pc[t] \in PastTheGetter => connection # "none"
    /\ \A t \in Enders \ {"owner"} : pc[t] # "create"
    /\ Reported => connection # "none"

(* Past the guard of beginDisconnecting the flag is set, the delegate hears of it, and
   the transport is given up step by step: this is what makes EndIsNeverLost and
   EndedMeansReleased inductive.                                                      *)
TeardownOrder ==
    /\ \A t \in Enders : InTeardown(t) => disconnectRequested
    /\ \A t \in Enders : pc[t] \in PastTheGetter /\ OneTransport => HandlerRemoved
    /\ \A t \in Enders :
        pc[t] \in {"disconnected", "tellDisconnected"} /\ OneTransport => TransportReleased
    /\ Reported => disconnectRequested
    /\ EndedMeansReleased

(* A loop that processed a late message is not going to process another. *)
LateMeansLeaving ==
    \A l \in Loops :
        late[l] # 0 => /\ late[l] = 1
                       /\ disconnectRequested
                       /\ pc[l] \notin {"none", "read", "write"}

(* One transport is started, and it reports .ready once, so there is one handshake Task
   and it starts each loop once: no action overwrites the program counter of a running
   thread.                                                                             *)
BeforeLoop(l) ==
    {"none", "await", "credential", "init", "request", "connected", "tellConnected",
     "startReceive"} \cup IF l = "send" THEN {"startSend"} ELSE {}

Pending(c) == net[c] \in {"preparing", "waiting"}

NotStarted ==
    /\ \A c \in Creators : net[c] \in {"none", "setup", "cancelled"}
    /\ pc["net"] = "idle" /\ pc["handshake"] = "none"

ThreadsStartOnce ==
    /\ pc["opener"] # "done" => NotStarted
    /\ \A c \in Creators : Pending(c) =>
        /\ pc["net"] # "onReady" /\ pc["handshake"] = "none"
        /\ \A d \in Creators : Pending(d) => d = c
    /\ pc["net"] = "onReady" => pc["handshake"] = "none"
    /\ \A l \in Loops : pc["handshake"] \in BeforeLoop(l) => pc[l] = "none"

(* What the delegate has heard when a thread is where it is. *)
HeardInOrder ==
    /\ "connecting" \in heard <=> pc["opener"] \notin {"idle", "tellConnecting"}
    /\ "connected" \in heard => pc["handshake"] \notin BeforeLoop("receive") \ {"startReceive"}
    /\ \A t \in Enders :
        pc[t] \in PastTheGetter \cup {"unhook", "create"} => "disconnecting" \in heard
    /\ Reported => "disconnecting" \in heard
    /\ "disconnecting" \in heard => disconnectRequested

IInv ==
    /\ TypeOK /\ OneIsStored /\ TeardownOrder /\ LateMeansLeaving /\ ThreadsStartOnce
    /\ EndIsNeverLost /\ HeardInOrder

-----------------------------------------------------------------------------
(* Where a thread goes is a label. *)
LEMMA AfterTeardownIsLabel == \A t \in Enders : AfterTeardown(t) \in Labels
<1>1. {"loop", "done", "idle"} \subseteq Labels
  BY Zenon DEF Labels
<1> QED
  BY <1>1 DEF AfterTeardown

(* A thread that goes to a label leaves the program counters well-typed. *)
LEMMA GoIsTyped ==
    ASSUME pc \in [Threads -> Labels], NEW t, NEW from, NEW to \in Labels, Go(t, from, to)
    PROVE  pc' \in [Threads -> Labels]
BY DEF Go

LEMMA InitIInv == Init => IInv
<1> SUFFICES ASSUME Init PROVE IInv
  OBVIOUS
<1> USE DEF Init, Enders, Threads, Loops, Creators
<1>1. TypeOK
  <2>1. "idle" \in Labels /\ "none" \in Labels
    BY Zenon DEF Labels
  <2>2. pc \in [Threads -> Labels]
    BY <2>1
  <2>3. late \in [Loops -> Nat]
    OBVIOUS
  <2>4. queued \in 0..MaxQueued
    BY ConstantsAssumption
  <2>5. /\ connectionState \in Statuses
        /\ told \in Statuses \cup {"nothing"}
        /\ net \in [Creators -> NetStatuses \cup {"none"}]
        /\ peer \in {"open", "closed"}
    BY DEF Statuses, NetStatuses
  <2> QED
    BY <2>2, <2>3, <2>4, <2>5, Zenon DEF TypeOK
<1>2. \A t \in Threads : pc[t] \in {"idle", "none"}
  OBVIOUS
<1>3. TeardownOrder /\ OneIsStored
  BY <1>2 DEF TeardownOrder, InTeardown, TeardownSteps, OneIsStored, Created, PastTheGetter,
              Reported, EndedMeansReleased
<1>4. LateMeansLeaving
  BY DEF LateMeansLeaving
<1>5. ThreadsStartOnce
  BY DEF ThreadsStartOnce, BeforeLoop, NotStarted, Pending
<1>6. EndIsNeverLost
  BY DEF EndIsNeverLost
<1>7. HeardInOrder
  BY <1>2 DEF HeardInOrder, PastTheGetter, Reported
<1> QED
  BY <1>1, <1>3, <1>4, <1>5, <1>6, <1>7 DEF IInv

(* The getter keeps the state well-typed. *)
LEMMA GetterTypes ==
    ASSUME TypeOK, NEW t \in Creators, NEW back \in Labels, "create" \in Labels,
           FindsNothing(t, back) \/ CreateTransport(t, back)
    PROVE  TypeOK'
<1> USE GoIsTyped DEF TypeOK
<1>1. CASE FindsNothing(t, back)
  BY <1>1 DEF FindsNothing, transportVars
<1>2. CASE CreateTransport(t, back)
  <2>1. "setup" \in NetStatuses
    BY DEF NetStatuses
  <2> QED
    BY <1>2, <2>1 DEF CreateTransport
<1> QED
  BY <1>1, <1>2

(* Every kind of step keeps the state well-typed. *)
LEMMA TypeStep == TypeOK /\ OneIsStored /\ [Next]_vars => TypeOK'
<1> SUFFICES ASSUME TypeOK, OneIsStored, [Next]_vars PROVE TypeOK'
  OBVIOUS
<1> USE ConstantsAssumption DEF TypeOK, Statuses, NetStatuses, Loops, transportVars, Tells
<1>1. ASSUME NEW t \in Enders, BeginDisconnecting(t) PROVE TypeOK'
  <2> USE GoIsTyped, AfterTeardownIsLabel
  <2>1. TeardownSteps \subseteq Labels
    BY DEF Labels
  <2>2. {"disconnecting", "tellDisconnecting", "unhook", "create", "cancel",
         "disconnected", "tellDisconnected", "flag"} \subseteq Labels
    BY <2>1 DEF TeardownSteps
  <2>3. CASE CheckRequested(t)
    BY <2>2, <2>3 DEF CheckRequested
  <2>4. CASE SetRequested(t)
    BY <2>2, <2>4 DEF SetRequested
  <2>5. CASE \/ StoreState(t, "disconnecting", "tellDisconnecting")
             \/ StoreState(t, "disconnected", "tellDisconnected")
    BY <2>2, <2>5, ZenonT(30) DEF StoreState
  <2>6. CASE TellDisconnecting(t)
    BY <2>2, <2>6 DEF TellDisconnecting
  <2>7. CASE TellDisconnected(t)
    BY <2>7 DEF TellDisconnected
  <2>8. CASE Unhook(t)
    BY <2>2, <2>8, ZenonT(30) DEF Unhook
  <2>9. CASE Cancel(t)
    <3>1. connection \in Creators
      BY <2>9 DEF Cancel, Go, OneIsStored, PastTheGetter
    <3> QED
      BY <2>2, <2>9, <3>1 DEF Cancel
  <2>10. CASE t = "owner" /\ (FindsNothing(t, "unhook") \/ CreateTransport(t, "unhook"))
    BY <2>2, <2>10, GetterTypes DEF Creators
  <2> QED
    BY <1>1, <2>3, <2>4, <2>5, <2>6, <2>7, <2>8, <2>9, <2>10 DEF BeginDisconnecting
<1>2. CASE Connect \/ Open \/ Disconnect \/ Enqueue
  <2>1. CASE Connect \/ TellConnecting \/ Disconnect \/ Enqueue
    <3>1. {"tellConnecting", "start", "guard"} \subseteq Labels
      BY Zenon DEF Labels
    <3>2. CASE Connect
      BY <3>1, <3>2, GoIsTyped DEF Connect
    <3>3. CASE TellConnecting
      BY <3>1, <3>3, GoIsTyped DEF TellConnecting
    <3>4. CASE Disconnect
      BY <3>1, <3>4, GoIsTyped DEF Disconnect
    <3>5. CASE Enqueue
      BY <3>5 DEF Enqueue
    <3> QED
      BY <2>1, <3>2, <3>3, <3>4, <3>5
  <2>2. CASE FindsNothing("opener", "start") \/ CreateTransport("opener", "start")
    <3>1. {"create", "start"} \subseteq Labels
      BY Zenon DEF Labels, TeardownSteps
    <3> QED
      BY <2>2, <3>1, GetterTypes DEF Creators
  <2>3. CASE StartNetwork
    BY <2>3 DEF StartNetwork, Go, Labels
  <2> QED
    BY <1>2, <2>1, <2>2, <2>3 DEF Open
<1>3. CASE (\E c \in Creators : Network(c)) \/ ConnectionDidBecomeReady \/ PeerCloses
  <2>1. {"idle", "onReady", "guard"} \subseteq Labels
    BY Zenon DEF Labels
  <2>2. ASSUME NEW c \in Creators, Network(c) PROVE TypeOK'
    <3>1. PICK status \in NetStatuses, step \in {"idle", "onReady", "guard"} :
            NetBecomes(c, status, step)
      BY <2>2, ZenonT(30) DEF Network, NetReady, NetWaiting, NetFailed, NetCancelled
    <3> QED
      BY <2>1, <3>1 DEF NetBecomes
  <2>3. CASE ConnectionDidBecomeReady \/ PeerCloses
    BY <2>3 DEF ConnectionDidBecomeReady, PeerCloses, Labels
  <2> QED
    BY <1>3, <2>2, <2>3
<1>4. CASE Handshake
  <2>1. CASE CreateFramebuffer
    <3>1. {"request", "connected"} \subseteq Labels
      BY Zenon DEF Labels
    <3> QED
      BY <2>1, <3>1, GoIsTyped DEF CreateFramebuffer
  <2>2. CASE StoreConnected \/ TellConnected
    <3>1. {"tellConnected", "startReceive"} \subseteq Labels
      BY Zenon DEF Labels
    <3>2. CASE StoreConnected
      BY <3>1, <3>2, GoIsTyped DEF StoreConnected
    <3>3. CASE TellConnected
      BY <3>1, <3>3, GoIsTyped DEF TellConnected
    <3> QED
      BY <2>2, <3>2, <3>3
  <2>3. CASE \/ StartLoop("receive", "startReceive", "startSend")
             \/ StartLoop("send", "startSend", "done")
    BY <2>3 DEF StartLoop, Labels
  <2>4. CASE AskCredential \/ CredentialGiven \/ CredentialDenied
             \/ ReceiveServerInit \/ RequestFirstUpdate \/ HandshakeThrows
    <3>1. {"credential", "await", "guard", "init", "connected"} \subseteq Labels
      BY Zenon DEF Labels
    <3>2. PICK from \in {"await", "credential", "init", "request"},
               to \in {"credential", "await", "guard", "init", "connected"} :
            Moves("handshake", from, to)
      BY <2>4, ZenonT(30) DEF AskCredential, CredentialGiven, CredentialDenied,
         ReceiveServerInit, RequestFirstUpdate, HandshakeThrows
    <3> QED
      BY <3>1, <3>2, GoIsTyped DEF Moves
  <2> QED
    BY <1>4, <2>1, <2>2, <2>3, <2>4 DEF Handshake
<1>5. CASE Receive
  <2>1. {"check", "done", "loop", "read", "guard"} \subseteq Labels
    BY Zenon DEF Labels
  <2>2. CASE LoopTest("receive") \/ ReceiveCheck \/ ReceiveThrows
    <3>1. PICK from \in {"loop", "check", "read"},
               to \in {"check", "done", "loop", "read", "guard"} :
            Moves("receive", from, to)
      BY <2>2, ZenonT(30) DEF LoopTest, ReceiveCheck, ReceiveThrows
    <3> QED
      BY <2>1, <3>1, GoIsTyped DEF Moves
  <2>3. CASE ReceiveMessage
    <3>1. late' \in [Loops -> Nat]
      BY <2>3 DEF ReceiveMessage, CountLate
    <3> QED
      BY <2>1, <2>3, <3>1, GoIsTyped DEF ReceiveMessage
  <2> QED
    BY <1>5, <2>2, <2>3 DEF Receive
<1>6. CASE Send
  <2>1. CASE LoopTest("send") \/ Sleep \/ SendThrows
    <3>1. {"check", "done", "loop", "guard"} \subseteq Labels
      BY Zenon DEF Labels
    <3>2. PICK from \in {"loop", "check", "write"}, to \in {"check", "done", "loop", "guard"} :
            Moves("send", from, to)
      BY <2>1, ZenonT(30) DEF LoopTest, Sleep, SendThrows
    <3> QED
      BY <3>1, <3>2, GoIsTyped DEF Moves
  <2>2. CASE Dequeue \/ SendMessage
    <3>1. {"write", "loop"} \subseteq Labels
      BY Zenon DEF Labels
    <3>2. CASE Dequeue
      BY <2>2, <3>1, <3>2, GoIsTyped DEF Dequeue
    <3>3. CASE SendMessage
      BY <2>2, <3>1, <3>3, GoIsTyped DEF SendMessage, CountLate
    <3> QED
      BY <2>2, <3>2, <3>3
  <2> QED
    BY <1>6, <2>1, <2>2 DEF Send
<1>7. CASE UNCHANGED vars
  BY <1>7 DEF vars
<1> QED
  BY <1>1, <1>2, <1>3, <1>4, <1>5, <1>6, <1>7 DEF Next

-----------------------------------------------------------------------------
(* No step but those of beginDisconnecting sets the flag, unhooks or cancels a transport
   or tells of the end, and none of the others moves a thread that is past the guard.  The
   transports stay the same, but that connect() may make one.                             *)
OtherStep ==
    /\ UNCHANGED <<backend, disconnectRequested, cancelling>>
    /\ \A status \in {"disconnecting", "disconnected"} :
            status \in heard' <=> status \in heard
    /\ \/ CreateTransport("opener", "start")
       \/ /\ UNCHANGED <<connection, hooked>>
          /\ \A c \in Creators : net'[c] = "none" <=> net[c] = "none"
    /\ pc'["opener"] = "create" => pc["opener"] = "create" \/ connection = "none"
    /\ \A t \in Enders : pc'[t] # pc[t] =>
          /\ pc[t] \notin TeardownSteps
          /\ pc'[t] \notin TeardownSteps \ {"flag"}

LEMMA OtherStepsAreOther ==
    ASSUME TypeOK, OneIsStored, ThreadsStartOnce, Next,
           ~ \E t \in Enders : BeginDisconnecting(t)
    PROVE  OtherStep
<1> USE DEF TypeOK, Go, Moves, TeardownSteps, Enders, Threads, Loops, Creators, OtherStep,
            transportVars, Tells
<1>1. CASE Connect \/ Open \/ Disconnect \/ Enqueue
  <2>1. CASE Connect \/ TellConnecting \/ Disconnect \/ Enqueue
    BY <2>1 DEF Connect, TellConnecting, Disconnect, Enqueue
  <2>2. CASE FindsNothing("opener", "start")
    BY <2>2 DEF FindsNothing
  <2>3. CASE CreateTransport("opener", "start")
    BY <2>3 DEF CreateTransport
  <2>4. CASE StartNetwork
    BY <2>4 DEF StartNetwork
  <2> QED
    BY <1>1, <2>1, <2>2, <2>3, <2>4 DEF Open
<1>2. CASE (\E c \in Creators : Network(c)) \/ ConnectionDidBecomeReady \/ PeerCloses
  <2>1. ASSUME NEW c \in Creators, Network(c) PROVE OtherStep
    <3>1. net[c] # "none"
      BY <2>1 DEF Network, NetReady, NetWaiting, NetFailed, NetCancelled, OneIsStored, Created
    <3>2. PICK status \in {"ready", "waiting", "failed", "cancelled"},
               step \in {"idle", "onReady", "guard"} : NetBecomes(c, status, step)
      BY <2>1, ZenonT(30) DEF Network, NetReady, NetWaiting, NetFailed, NetCancelled
    <3> QED
      BY <3>1, <3>2 DEF NetBecomes
  <2>2. CASE ConnectionDidBecomeReady \/ PeerCloses
    BY <2>2 DEF ConnectionDidBecomeReady, PeerCloses, ThreadsStartOnce
  <2> QED
    BY <1>2, <2>1, <2>2
<1>3. CASE Handshake
  BY <1>3 DEF Handshake, AskCredential, CredentialGiven, CredentialDenied,
              ReceiveServerInit, CreateFramebuffer, RequestFirstUpdate, StoreConnected,
              TellConnected, StartLoop, HandshakeThrows, ThreadsStartOnce, BeforeLoop
<1>4. CASE Receive
  BY <1>4 DEF Receive, LoopTest, ReceiveCheck, ReceiveMessage, ReceiveThrows
<1>5. CASE Send
  BY <1>5 DEF Send, LoopTest, Dequeue, Sleep, SendMessage, SendThrows
<1> QED
  BY <1>1, <1>2, <1>3, <1>4, <1>5 DEF Next

(* Where beginDisconnecting takes a thread. *)
LEMMA TeardownMoves ==
    ASSUME TypeOK, NEW t \in Enders, BeginDisconnecting(t)
    PROVE  /\ \A s \in Threads \ {t} : pc'[s] = pc[s]
           /\ backend' = backend
           /\ AfterTeardown(t) \in {"loop", "done", "idle"}
BY DEF BeginDisconnecting, CheckRequested, SetRequested, StoreState, Go, FindsNothing,
       CreateTransport, TellDisconnecting, Unhook, Cancel, TellDisconnected, TypeOK,
       Threads, AfterTeardown, Enders, Loops

LEMMA OneIsStoredStep ==
    ASSUME TypeOK, ThreadsStartOnce, OneIsStored, [Next]_vars
    PROVE  OneIsStored'
<1> USE DEF OneIsStored, Created, PastTheGetter, Reported
<1>1. ASSUME NEW t \in Enders, BeginDisconnecting(t) PROVE OneIsStored'
  <2> USE TeardownMoves, <1>1 DEF TypeOK, Enders, Threads, Creators, Go, transportVars
  <2>1. CASE CheckRequested(t)
    BY <2>1 DEF CheckRequested
  <2>2. CASE SetRequested(t)
    BY <2>2 DEF SetRequested
  <2>3. CASE TellDisconnecting(t)
    BY <2>3 DEF TellDisconnecting, Tells
  <2>4. CASE TellDisconnected(t)
    BY <2>4 DEF TellDisconnected, Tells
  <2>5. CASE StoreState(t, "disconnecting", "tellDisconnecting")
    BY <2>5 DEF StoreState
  <2>6. CASE StoreState(t, "disconnected", "tellDisconnected")
    BY <2>6 DEF StoreState
  <2>7. CASE t = "owner" /\ FindsNothing(t, "unhook")
    BY <2>7 DEF FindsNothing
  <2>8. CASE t = "owner" /\ CreateTransport(t, "unhook")
    BY <2>8 DEF CreateTransport
  <2>9. CASE Unhook(t)
    BY <2>9 DEF Unhook
  <2>10. CASE Cancel(t)
    BY <2>10 DEF Cancel
  <2> QED
    BY <2>1, <2>2, <2>3, <2>4, <2>5, <2>6, <2>7, <2>8, <2>9, <2>10
       DEF BeginDisconnecting
<1>2. CASE OtherStep
  <2> USE <1>2 DEF OtherStep, TeardownSteps, Enders, Creators
  <2>1. CASE CreateTransport("opener", "start")
    BY <2>1 DEF CreateTransport, Go, TypeOK, Threads
  <2>2. CASE ~CreateTransport("opener", "start")
    BY <2>2
  <2> QED
    BY <2>1, <2>2
<1>3. CASE UNCHANGED vars
  BY <1>3 DEF vars, transportVars
<1> QED
  BY <1>1, <1>2, <1>3, OtherStepsAreOther

LEMMA EndIsNeverLostStep ==
    ASSUME TypeOK, OneIsStored, ThreadsStartOnce, EndIsNeverLost, [Next]_vars
    PROVE  EndIsNeverLost'
<1> USE DEF EndIsNeverLost, InTeardown, Reported
<1>1. ASSUME NEW t \in Enders, BeginDisconnecting(t) PROVE EndIsNeverLost'
  BY <1>1 DEF BeginDisconnecting, CheckRequested, SetRequested, StoreState, Go,
              FindsNothing, CreateTransport, TellDisconnecting, Unhook, Cancel,
              TellDisconnected, TypeOK, TeardownSteps, Threads, AfterTeardown, Enders, Tells
<1>2. CASE OtherStep
  BY <1>2 DEF OtherStep
<1>3. CASE UNCHANGED vars
  BY <1>3 DEF vars
<1> QED
  BY <1>1, <1>2, <1>3, OtherStepsAreOther

LEMMA TeardownOrderStep ==
    ASSUME TypeOK, OneIsStored, ThreadsStartOnce, TeardownOrder, [Next]_vars
    PROVE  TeardownOrder'
<1> USE DEF TeardownOrder, InTeardown, OneTransport, HandlerRemoved, TransportReleased,
            EndedMeansReleased, Reported, PastTheGetter
<1>1. ASSUME NEW t \in Enders, BeginDisconnecting(t) PROVE TeardownOrder'
  <2> USE TeardownMoves, <1>1 DEF TypeOK, Enders, Threads, Go, TeardownSteps, transportVars
  <2>1. CASE CheckRequested(t) \/ SetRequested(t) \/ TellDisconnecting(t)
             \/ StoreState(t, "disconnecting", "tellDisconnecting")
             \/ StoreState(t, "disconnected", "tellDisconnected") \/ TellDisconnected(t)
    BY <2>1 DEF CheckRequested, SetRequested, TellDisconnecting, StoreState,
                TellDisconnected, Tells
  <2>2. CASE t = "owner" /\ FindsNothing(t, "unhook")
    BY <2>2 DEF FindsNothing
  <2>3. CASE t = "owner" /\ CreateTransport(t, "unhook")
    BY <2>3 DEF CreateTransport, OneIsStored, Created, Creators
  <2>4. CASE Unhook(t)
    <3>1. OneTransport' <=> OneTransport
      BY <2>4 DEF Unhook
    <3>2. OneTransport => Created = {Got(t)} /\ hooked \subseteq {Got(t)}
      BY <2>4 DEF Unhook, OneIsStored, Created, Creators, Got
    <3>3. OneTransport => hooked' = {}
      BY <2>4, <3>2 DEF Unhook
    <3>4. TransportReleased' <=> TransportReleased
      BY <2>4 DEF Unhook
    <3>5. Reported' <=> Reported
      BY <2>4 DEF Unhook
    <3>6. \A s \in Enders : pc'[s] \in {"disconnected", "tellDisconnected"} =>
                           pc[s] \in {"disconnected", "tellDisconnected"}
      BY <2>4 DEF Unhook
    <3>7. \A s \in Enders : InTeardown(s)' => InTeardown(s) \/ s = t
      BY <2>4 DEF Unhook
    <3>8. InTeardown(t) /\ disconnectRequested' = disconnectRequested
      BY <2>4 DEF Unhook
    <3> HIDE DEF OneTransport, TransportReleased, Reported, InTeardown
    <3> QED
      BY <3>1, <3>3, <3>4, <3>5, <3>6, <3>7, <3>8
  <2>5. CASE Cancel(t)
    BY <2>5 DEF Cancel, OneIsStored, Created, Creators
  <2> QED
    BY <2>1, <2>2, <2>3, <2>4, <2>5 DEF BeginDisconnecting
<1>2. CASE OtherStep
  <2> USE <1>2 DEF OtherStep, TeardownSteps
  <2>1. CASE CreateTransport("opener", "start")
    BY <2>1 DEF CreateTransport, Go, TypeOK, Threads, Enders, OneIsStored, Created, Creators
  <2>2. CASE ~CreateTransport("opener", "start")
    BY <2>2
  <2> QED
    BY <2>1, <2>2
<1>3. CASE UNCHANGED vars
  BY <1>3 DEF vars, transportVars
<1> QED
  BY <1>1, <1>2, <1>3, OtherStepsAreOther

(* What the delegate has heard keeps pace with the threads. *)
LEMMA HeardInOrderStep ==
    ASSUME TypeOK, OneIsStored, TeardownOrder, ThreadsStartOnce, HeardInOrder, [Next]_vars
    PROVE  HeardInOrder'
<1> USE DEF HeardInOrder, PastTheGetter, Reported, BeforeLoop, TypeOK, Go, Moves, Enders,
            Threads, Loops, Tells, TeardownSteps
<1>1. ASSUME NEW t \in Enders, BeginDisconnecting(t) PROVE HeardInOrder'
  <2> USE TeardownMoves, <1>1 DEF InTeardown, TeardownOrder
  <2>1. CASE CheckRequested(t) \/ SetRequested(t)
    BY <2>1 DEF CheckRequested, SetRequested
  <2>2. CASE TellDisconnecting(t)
    BY <2>2 DEF TellDisconnecting
  <2>3. CASE TellDisconnected(t)
    BY <2>3 DEF TellDisconnected
  <2>4. CASE \/ StoreState(t, "disconnecting", "tellDisconnecting")
             \/ StoreState(t, "disconnected", "tellDisconnected")
    BY <2>4 DEF StoreState
  <2>5. CASE \/ t = "owner" /\ (FindsNothing(t, "unhook") \/ CreateTransport(t, "unhook"))
             \/ Unhook(t) \/ Cancel(t)
    BY <2>5 DEF FindsNothing, CreateTransport, Unhook, Cancel
  <2> QED
    BY <2>1, <2>2, <2>3, <2>4, <2>5 DEF BeginDisconnecting
<1>2. CASE ~ \E t \in Enders : BeginDisconnecting(t)
  <2>1. CASE Next
    <3>1. OtherStep
      BY <1>2, <2>1, OtherStepsAreOther
    <3>2. CASE Connect \/ Open \/ Disconnect \/ Enqueue
      BY <3>1, <3>2 DEF OtherStep, Connect, Open, TellConnecting, StartNetwork, FindsNothing,
                  CreateTransport, Disconnect, Enqueue, ThreadsStartOnce, NotStarted
    <3>3. CASE (\E c \in Creators : Network(c)) \/ ConnectionDidBecomeReady \/ PeerCloses
      BY <3>1, <3>3 DEF OtherStep, Network, NetReady, NetWaiting, NetFailed, NetCancelled,
                  NetBecomes, ConnectionDidBecomeReady, PeerCloses, ThreadsStartOnce
    <3>4. CASE Handshake
      BY <3>1, <3>4 DEF OtherStep, Handshake, AskCredential, CredentialGiven,
                  CredentialDenied, ReceiveServerInit, CreateFramebuffer,
                  RequestFirstUpdate, StoreConnected, TellConnected, StartLoop,
                  HandshakeThrows, ThreadsStartOnce
    <3>5. CASE Receive \/ Send
      BY <3>1, <3>5 DEF OtherStep, Receive, LoopTest, ReceiveCheck, ReceiveMessage,
                  ReceiveThrows, Send, Dequeue, Sleep, SendMessage, SendThrows
    <3> QED
      BY <1>2, <2>1, <3>2, <3>3, <3>4, <3>5 DEF Next
  <2>2. CASE UNCHANGED vars
    BY <2>2 DEF vars
  <2> QED
    BY <2>1, <2>2
<1> QED
  BY <1>1, <1>2

LEMMA LateMeansLeavingStep ==
    ASSUME TypeOK, ThreadsStartOnce, LateMeansLeaving, [Next]_vars
    PROVE  LateMeansLeaving'
<1> USE DEF LateMeansLeaving, TypeOK, Go, Moves, Enders, Threads, Loops
<1>1. ASSUME NEW t \in Enders, BeginDisconnecting(t) PROVE LateMeansLeaving'
  BY <1>1 DEF BeginDisconnecting, CheckRequested, SetRequested, StoreState,
              TellDisconnecting, Unhook, Cancel, TellDisconnected, AfterTeardown,
              FindsNothing, CreateTransport
<1>2. CASE Connect \/ Open \/ Disconnect \/ Enqueue
  BY <1>2 DEF Connect, Open, TellConnecting, FindsNothing, CreateTransport, StartNetwork,
              Disconnect, Enqueue
<1>3. CASE (\E c \in Creators : Network(c)) \/ ConnectionDidBecomeReady \/ PeerCloses
  BY <1>3 DEF Network, NetReady, NetWaiting, NetFailed, NetCancelled, NetBecomes,
              ConnectionDidBecomeReady, PeerCloses
<1>4. CASE Handshake
  BY <1>4 DEF Handshake, AskCredential, CredentialGiven, CredentialDenied,
              ReceiveServerInit, CreateFramebuffer, RequestFirstUpdate, StoreConnected,
              TellConnected, StartLoop, HandshakeThrows
<1>5. CASE Receive
  BY <1>5 DEF Receive, LoopTest, ReceiveCheck, ReceiveMessage, ReceiveThrows, CountLate,
              LoopMayContinue
<1>6. CASE Send
  BY <1>6 DEF Send, LoopTest, Dequeue, Sleep, SendMessage, SendThrows, CountLate,
              LoopMayContinue
<1>7. CASE UNCHANGED vars
  BY <1>7 DEF vars
<1> QED
  BY <1>1, <1>2, <1>3, <1>4, <1>5, <1>6, <1>7 DEF Next

LEMMA ThreadsStartOnceStep ==
    ASSUME TypeOK, OneIsStored, ThreadsStartOnce, [Next]_vars
    PROVE  ThreadsStartOnce'
<1> USE DEF ThreadsStartOnce, NotStarted, Pending, BeforeLoop, TypeOK, Go, Moves, Enders,
            Threads, Loops, Creators, transportVars
<1>1. ASSUME NEW t \in Enders, BeginDisconnecting(t) PROVE ThreadsStartOnce'
  <2>1. pc'["opener"] = pc["opener"]
    BY <1>1, TeardownMoves
  <2>2. \/ UNCHANGED net
        \/ t = "owner" /\ net' = [net EXCEPT ![t] = "setup"]
    BY <1>1 DEF BeginDisconnecting, CheckRequested, SetRequested, StoreState, FindsNothing,
                CreateTransport, TellDisconnecting, Unhook, Cancel, TellDisconnected
  <2>3. pc[t] \in TeardownSteps \cup {"guard"}
    BY <1>1 DEF BeginDisconnecting, CheckRequested, SetRequested, StoreState, FindsNothing,
                CreateTransport, TellDisconnecting, Unhook, Cancel, TellDisconnected,
                TeardownSteps
  <2>4. pc'[t] \in TeardownSteps \cup {AfterTeardown(t)}
    BY <1>1 DEF BeginDisconnecting, CheckRequested, SetRequested, StoreState, FindsNothing,
                CreateTransport, TellDisconnecting, Unhook, Cancel, TellDisconnected,
                TeardownSteps
  <2> QED
    BY <1>1, <2>1, <2>2, <2>3, <2>4, TeardownMoves DEF TeardownSteps, AfterTeardown
<1>2. CASE Connect \/ Open \/ Disconnect \/ Enqueue
  <2>1. CASE Connect \/ TellConnecting \/ Disconnect \/ Enqueue
             \/ FindsNothing("opener", "start")
    BY <2>1 DEF Connect, TellConnecting, Disconnect, Enqueue, FindsNothing
  <2>2. CASE CreateTransport("opener", "start")
    BY <2>2 DEF CreateTransport
  <2>3. CASE StartNetwork
    BY <2>3 DEF StartNetwork
  <2> QED
    BY <1>2, <2>1, <2>2, <2>3 DEF Open
<1>3. CASE (\E c \in Creators : Network(c)) \/ ConnectionDidBecomeReady \/ PeerCloses
  <2>1. ASSUME NEW c \in Creators, NetReady(c) PROVE ThreadsStartOnce'
    BY <2>1 DEF NetReady, NetBecomes
  <2>2. ASSUME NEW c \in Creators, NetWaiting(c) \/ NetFailed(c) PROVE ThreadsStartOnce'
    BY <2>2 DEF NetWaiting, NetFailed, NetBecomes
  <2>3. ASSUME NEW c \in Creators, NetCancelled(c) PROVE ThreadsStartOnce'
    BY <2>3 DEF NetCancelled, NetBecomes, OneIsStored, Created
  <2>4. CASE ConnectionDidBecomeReady \/ PeerCloses
    BY <2>4 DEF ConnectionDidBecomeReady, PeerCloses
  <2> QED
    BY <1>3, <2>1, <2>2, <2>3, <2>4 DEF Network
<1>4. CASE Handshake
  BY <1>4 DEF Handshake, AskCredential, CredentialGiven, CredentialDenied,
              ReceiveServerInit, CreateFramebuffer, RequestFirstUpdate, StoreConnected,
              TellConnected, StartLoop, HandshakeThrows
<1>5. CASE Receive
  BY <1>5 DEF Receive, LoopTest, ReceiveCheck, ReceiveMessage, ReceiveThrows
<1>6. CASE Send
  BY <1>6 DEF Send, LoopTest, Dequeue, Sleep, SendMessage, SendThrows
<1>7. CASE UNCHANGED vars
  BY <1>7 DEF vars
<1> QED
  BY <1>1, <1>2, <1>3, <1>4, <1>5, <1>6, <1>7 DEF Next

(* The invariant of every step. *)
THEOREM InductiveInvariant == SafeSpec => []IInv
<1>1. IInv /\ [Next]_vars => IInv'
  BY TypeStep, OneIsStoredStep, TeardownOrderStep, LateMeansLeavingStep,
     ThreadsStartOnceStep, EndIsNeverLostStep, HeardInOrderStep DEF IInv
<1> QED
  BY <1>1, InitIInv, PTL DEF SafeSpec

(* Each variable stays in its type. *)
THEOREM TypeCorrect == SafeSpec => []TypeOK
BY InductiveInvariant, PTL DEF IInv

(* disconnect() and every other end of the connection is reported or on its way to
   be, whatever the backend, the settings and the number of messages queued.      *)
THEOREM NoEndIsLost == SafeSpec => []EndIsNeverLost
BY InductiveInvariant, PTL DEF IInv

(* If connect() and disconnect() did not make two transports, the one there is has lost
   its handler and, on NWConnection, was told to cancel by the time .disconnected is
   told, whichever threads told it.                                                      *)
THEOREM ReleasedWhenReported == SafeSpec => []EndedMeansReleased
<1>1. IInv => EndedMeansReleased
  BY DEF IInv, TeardownOrder
<1> QED
  BY <1>1, InductiveInvariant, PTL

(* After disconnect() each loop handles at most the message it was busy with. *)
THEOREM LateMessages == SafeSpec => []AtMostOneLateMessage
<1>1. IInv => AtMostOneLateMessage
  BY DEF IInv, LateMeansLeaving, AtMostOneLateMessage
<1> QED
  BY <1>1, InductiveInvariant, PTL

-----------------------------------------------------------------------------
(* Each step of the threads is one of ConnectionLifecycle's or nothing the delegate hears:
   the opening is told once and in its order, the end is announced before it is reported
   and only after disconnectRequested was set, by whichever of the threads.               *)
LEMMA StepRefines == IInv /\ [Next]_vars => [Lifecycle!Next]_Lifecycle!vars
<1> SUFFICES ASSUME IInv, [Next]_vars PROVE [Lifecycle!Next]_Lifecycle!vars
  OBVIOUS
<1> USE DEF Opening, Ending, Reported, Lifecycle!vars
<1>1. ASSUME NEW t \in Enders, BeginDisconnecting(t)
      PROVE  [Lifecycle!Next]_Lifecycle!vars
  <2> USE <1>1
  <2>1. CASE UNCHANGED <<told, heard, disconnectRequested>>
    BY <2>1
  <2>2. CASE SetRequested(t)
    <3>1. CASE disconnectRequested
      BY <2>2, <3>1 DEF SetRequested
    <3>2. CASE ~disconnectRequested
      <4>1. "disconnecting" \notin heard /\ ~Reported
        BY <3>2 DEF IInv, HeardInOrder
      <4>2. Lifecycle!RequestEnd
        BY <2>2, <3>2, <4>1 DEF SetRequested, Lifecycle!RequestEnd
      <4> QED
        BY <4>2 DEF Lifecycle!Next
    <3> QED
      BY <3>1, <3>2
  <2>3. CASE TellDisconnecting(t)
    <3>1. disconnectRequested
      BY <2>3 DEF IInv, TeardownOrder, InTeardown, TellDisconnecting, Go, TeardownSteps
    <3>2. Lifecycle!HearDisconnecting
      BY <2>3, <3>1 DEF TellDisconnecting, Tells, Lifecycle!HearDisconnecting
    <3> QED
      BY <3>2 DEF Lifecycle!Next
  <2>4. CASE TellDisconnected(t)
    <3>1. "disconnecting" \in heard
      BY <2>4 DEF IInv, HeardInOrder, PastTheGetter, TellDisconnected, Go
    <3>2. Lifecycle!HearDisconnected
      BY <2>4, <3>1 DEF TellDisconnected, Tells, Lifecycle!HearDisconnected
    <3> QED
      BY <3>2 DEF Lifecycle!Next
  <2> QED
    BY <2>1, <2>2, <2>3, <2>4 DEF BeginDisconnecting, CheckRequested, StoreState,
       FindsNothing, CreateTransport, Unhook, Cancel
<1>2. CASE Open
  <2>1. CASE TellConnecting
    <3>1. heard \cap {"connecting", "connected"} = {}
      BY <2>1 DEF IInv, HeardInOrder, ThreadsStartOnce, NotStarted, BeforeLoop,
                  TellConnecting, Go
    <3>2. Lifecycle!HearConnecting
      BY <2>1, <3>1 DEF TellConnecting, Tells, Lifecycle!HearConnecting
    <3> QED
      BY <3>2 DEF Lifecycle!Next
  <2>2. CASE UNCHANGED <<told, heard, disconnectRequested>>
    BY <2>2
  <2> QED
    BY <1>2, <2>1, <2>2 DEF Open, FindsNothing, CreateTransport, StartNetwork
<1>3. CASE Handshake
  <2>1. CASE TellConnected
    <3>1. "connected" \notin heard /\ "connecting" \in heard
      BY <2>1 DEF IInv, HeardInOrder, ThreadsStartOnce, NotStarted, BeforeLoop,
                  TellConnected, Go
    <3>2. Lifecycle!HearConnected
      BY <2>1, <3>1 DEF TellConnected, Tells, Lifecycle!HearConnected
    <3> QED
      BY <3>2 DEF Lifecycle!Next
  <2>2. CASE UNCHANGED <<told, heard, disconnectRequested>>
    BY <2>2
  <2> QED
    BY <1>3, <2>1, <2>2 DEF Handshake, AskCredential, CredentialGiven, CredentialDenied,
       ReceiveServerInit, CreateFramebuffer, RequestFirstUpdate, StoreConnected, StartLoop,
       HandshakeThrows, Moves
<1>4. CASE UNCHANGED <<told, heard, disconnectRequested>>
  BY <1>4
<1>5. CASE UNCHANGED vars
  BY <1>5 DEF vars
<1>6. ASSUME NEW c \in Creators, Network(c)
      PROVE  UNCHANGED <<told, heard, disconnectRequested>>
  BY <1>6 DEF Network, NetReady, NetWaiting, NetFailed, NetCancelled, NetBecomes
<1>7. Connect \/ Disconnect \/ Enqueue \/ ConnectionDidBecomeReady \/ PeerCloses
      \/ Receive \/ Send => UNCHANGED <<told, heard, disconnectRequested>>
  BY DEF Connect, Disconnect, Enqueue, ConnectionDidBecomeReady, PeerCloses, Receive, Send,
     LoopTest, ReceiveCheck, ReceiveMessage, ReceiveThrows, Dequeue, Sleep, SendMessage,
     SendThrows, Moves
<1> QED
  BY <1>1, <1>2, <1>3, <1>4, <1>5, <1>6, <1>7 DEF Next

THEOREM LifecycleRefinement == SafeSpec => Lifecycle!SafeSpec
<1>1. Init => Lifecycle!Init
  BY DEF Init, Lifecycle!Init, Opening, Ending, Reported
<1> QED
  BY <1>1, StepRefines, InductiveInvariant, PTL DEF SafeSpec, Lifecycle!SafeSpec
=============================================================================
