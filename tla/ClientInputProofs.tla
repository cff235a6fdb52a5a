-------------------------- MODULE ClientInputProofs --------------------------
(***************************************************************************)
(* Proofs about ClientInput, for any callers, keys, buttons and texts, any *)
(* number of events, and with or without overlapping operations: type      *)
(* correctness and the silence of the clipboard after the end.  Without    *)
(* overlapping, the queue and the send loop are a FIFO channel, and a      *)
(* single caller leaves nothing pressed.                                   *)
(***************************************************************************)
EXTENDS ClientInput, SequenceTheorems, TLAPS

(* Whoever is on the way to the queue or to the socket carries a message. *)
Carrying ==
    /\ \A t \in Threads : at[t] \in {"put", "store", "write"} => msg[t] \in Messages
    /\ at["main"] \in {"put", "store"} => msg["main"].kind = "text"
    /\ at["send"] = "take" => copy["send"] # <<>>
    /\ at["receive"] = "set" => toClient # <<>>

(* A turn of the wheel has steps left from its press to its release. *)
WheelsTurn ==
    \A c \in Callers :
        /\ at[c] \in {"idle", "event", "turn", "release", "put", "store"}
        /\ at[c] = "release" => wheel[c] # NoTurn
        /\ at[c] = "turn" => wheel[c] # NoTurn
        /\ wheel[c] # NoTurn /\ at[c] # "turn" => wheel[c].left > 0
        /\ at[c] = "idle" => wheel[c] = NoTurn

(* The timer fires only between the handshake's end and the end of .connected. *)
MonitorSilenced ==
    /\ status = "connecting" => at["handshake"] \in {"clear", "connected"}
    /\ status = "connected" => at["handshake"] \notin {"clear", "connected"}
    /\ at["main"] # "idle" \/ lateTexts > 0 => at["handshake"] \notin {"clear", "connected"}
    /\ lateTexts > 0 => /\ lateTexts = 1
                        /\ status # "connected"
                        /\ at["main"] = "idle"
    /\ \A c \in Callers : msg[c].kind # "text"

(* An operation on the queue that has begun sees no other until it is over, and the
   handshake empties the queue before the send loop runs.                           *)
OneAtATime ==
    ~Overlap =>
        /\ \A t, u \in Threads : Accessing(t) /\ Accessing(u) => t = u
        /\ \A t \in Threads : Accessing(t) => copy[t] = list

SendStartsLate ==
    at["handshake"] \in {"clear", "connected", "start", "loops"}
        => at["send"] = "none"

IInv == TypeOK /\ Carrying /\ WheelsTurn /\ MonitorSilenced /\ OneAtATime /\ SendStartsLate

-----------------------------------------------------------------------------
(* The names of the program's own threads are not names of callers. *)
LEMMA TasksAreThreads ==
    /\ Tasks \subseteq Threads /\ Callers \subseteq Threads
    /\ \A c \in Callers : c \notin {"send", "receive", "handshake", "main", "ender"}
    /\ {"send", "receive", "handshake", "main", "ender"} \subseteq Threads
BY InputAssumption DEF Threads, Tasks

(* A thread that goes to a label leaves the places well-typed. *)
LEMMA GoIsTyped ==
    ASSUME at \in [Threads -> Labels], NEW t, NEW from, NEW to \in Labels, Go(t, from, to)
    PROVE  at' \in [Threads -> Labels]
BY DEF Go

LEMMA AppendedIsNotEmpty ==
    ASSUME NEW S, NEW q \in Seq(S), NEW x \in S PROVE Append(q, x) # <<>>
BY AppendProperties

LEMMA TailIsSeq ==
    ASSUME NEW S, NEW q \in Seq(S), q # <<>> PROVE Tail(q) \in Seq(S)
BY HeadTailProperties

LEMMA InitIInv == Init => IInv
<1> SUFFICES ASSUME Init PROVE IInv
  OBVIOUS
<1>1. TypeOK
  BY InputAssumption DEF Init, TypeOK, NoTurn, NoMessage, Labels, Threads, Statuses
<1>2. /\ \A t \in Threads : at[t] \in {"none", "idle", "clear"}
      /\ \A c \in Callers : at[c] = "idle"
      /\ at["send"] = "none" /\ at["main"] = "idle" /\ at["handshake"] = "clear"
      /\ at["receive"] = "none"
  BY TasksAreThreads DEF Init
<1>3. Carrying
  BY <1>2 DEF Carrying
<1>4. WheelsTurn
  BY <1>2 DEF Init, WheelsTurn, NoTurn
<1>5. MonitorSilenced
  <2>1. \A c \in Callers : msg[c].kind # "text"
    BY TasksAreThreads DEF Init, NoMessage
  <2>2. status = "connecting" /\ lateTexts = 0
    BY DEF Init
  <2> QED
    BY <1>2, <2>1, <2>2 DEF MonitorSilenced
<1>6. OneAtATime /\ SendStartsLate
  BY <1>2 DEF OneAtATime, SendStartsLate, Accessing
<1> QED
  BY <1>1, <1>3, <1>4, <1>5, <1>6 DEF IInv

LEMMA PutKeeps == ASSUME IInv, NEW t \in Callers \cup {"main"}, Put(t) PROVE IInv'
<1> USE TasksAreThreads, InputAssumption DEF IInv, Put, Go, MayAccess,
        queueVars, inputVars, clipVars, serverVars
<1>1. TypeOK'
  BY DEF TypeOK, Labels, Carrying, WheelsTurn, NoTurn, NoMessage, Messages, Statuses
<1>2. Carrying'
  BY DEF TypeOK, Carrying, Messages
<1>3. WheelsTurn'
  BY DEF TypeOK, WheelsTurn, NoTurn
<1>4. MonitorSilenced'
  BY DEF TypeOK, MonitorSilenced, Messages, NoMessage
<1>5. OneAtATime'
  BY DEF TypeOK, OneAtATime, Accessing, MayAccess
<1>6. SendStartsLate'
  BY DEF TypeOK, SendStartsLate
<1> QED
  BY <1>1, <1>2, <1>3, <1>4, <1>5, <1>6

LEMMA StoreKeeps == ASSUME IInv, NEW t \in Callers \cup {"main"}, Store(t) PROVE IInv'
<1> USE TasksAreThreads, InputAssumption DEF IInv, Store, Go, AfterPut,
        queueVars, inputVars, clipVars, serverVars
<1>1. TypeOK'
  <2>1. msg[t] \in Messages /\ copy[t] \in Seq(Messages)
    BY DEF TypeOK, Carrying
  <2>2. list' \in Seq(Messages) /\ copy' \in [Threads -> Seq(Messages)]
    BY <2>1 DEF TypeOK
  <2>3. AfterPut(t) \in Labels
    BY DEF Labels
  <2>4. at' \in [Threads -> Labels]
    BY <2>3, GoIsTyped DEF TypeOK
  <2>5. lateTexts' \in Nat /\ msg' \in [Threads -> Messages \cup {NoMessage}]
    BY DEF TypeOK
  <2> QED
    BY <2>2, <2>4, <2>5 DEF TypeOK
<1>2. Carrying'
  BY DEF TypeOK, Carrying, Messages
<1>3. WheelsTurn'
  BY DEF TypeOK, WheelsTurn, NoTurn
<1>4. MonitorSilenced'
  BY DEF TypeOK, MonitorSilenced, Messages, NoMessage
<1>5. OneAtATime'
  BY DEF TypeOK, OneAtATime, Accessing, MayAccess
<1>6. SendStartsLate'
  BY DEF TypeOK, SendStartsLate
<1> QED
  BY <1>1, <1>2, <1>3, <1>4, <1>5, <1>6

LEMMA TakeKeeps == ASSUME IInv, Take PROVE IInv'
<1> USE TasksAreThreads, InputAssumption DEF IInv, Take, Go, MayAccess,
        queueVars, inputVars, clipVars, serverVars
<1>1. TypeOK'
  BY DEF TypeOK, Labels, Carrying, WheelsTurn, NoTurn, NoMessage, Messages, Statuses
<1>2. Carrying'
  BY DEF TypeOK, Carrying, Messages
<1>3. WheelsTurn'
  BY DEF TypeOK, WheelsTurn, NoTurn
<1>4. MonitorSilenced'
  BY DEF TypeOK, MonitorSilenced, Messages, NoMessage
<1>5. OneAtATime'
  BY DEF TypeOK, OneAtATime, Accessing, MayAccess
<1>6. SendStartsLate'
  BY DEF TypeOK, SendStartsLate
<1> QED
  BY <1>1, <1>2, <1>3, <1>4, <1>5, <1>6

LEMMA RemoveFirstKeeps == ASSUME IInv, RemoveFirst PROVE IInv'
<1> USE TasksAreThreads, InputAssumption DEF IInv, RemoveFirst, Go,
        queueVars, inputVars, clipVars, serverVars
<1>1. TypeOK'
  BY SMTT(30) DEF TypeOK, Labels, Carrying, WheelsTurn, NoTurn, NoMessage, Messages, Statuses
<1>2. Carrying'
  BY DEF TypeOK, Carrying, Messages
<1>3. WheelsTurn'
  BY DEF TypeOK, WheelsTurn, NoTurn
<1>4. MonitorSilenced'
  BY DEF TypeOK, MonitorSilenced, Messages, NoMessage
<1>5. OneAtATime'
  BY DEF TypeOK, OneAtATime, Accessing, MayAccess
<1>6. SendStartsLate'
  BY DEF TypeOK, SendStartsLate
<1> QED
  BY <1>1, <1>2, <1>3, <1>4, <1>5, <1>6

LEMMA WriteKeeps == ASSUME IInv, Write PROVE IInv'
<1> USE TasksAreThreads, InputAssumption DEF IInv, Write, Go, Handled,
        queueVars, inputVars, clipVars, serverVars
<1>1. TypeOK'
  <2>1. msg["send"] \in Messages
    BY DEF Carrying
  <2>2. server' \in [keys : SUBSET Keys, mask : SUBSET (Buttons \cup Wheels),
                      text : Texts \cup {NoText}]
    <3>1. CASE msg["send"].kind = "key"
      BY <2>1, <3>1 DEF TypeOK, Messages
    <3>2. CASE msg["send"].kind = "pointer"
      BY <2>1, <3>2 DEF TypeOK, Messages
    <3>3. CASE msg["send"].kind = "text"
      BY <2>1, <3>3 DEF TypeOK, Messages
    <3> QED
      BY <2>1, <3>1, <3>2, <3>3 DEF Messages
  <2>3. at' \in [Threads -> Labels] /\ msg' \in [Threads -> Messages \cup {NoMessage}]
    BY DEF TypeOK, Labels
  <2> QED
    BY <2>2, <2>3 DEF TypeOK
<1>2. Carrying'
  BY DEF TypeOK, Carrying, Messages
<1>3. WheelsTurn'
  BY DEF TypeOK, WheelsTurn, NoTurn
<1>4. MonitorSilenced'
  BY DEF TypeOK, MonitorSilenced, Messages, NoMessage
<1>5. OneAtATime'
  BY DEF TypeOK, OneAtATime, Accessing, MayAccess
<1>6. SendStartsLate'
  BY DEF TypeOK, SendStartsLate
<1> QED
  BY <1>1, <1>2, <1>3, <1>4, <1>5, <1>6

LEMMA SendEndsKeeps == ASSUME IInv, SendEnds PROVE IInv'
<1> USE TasksAreThreads, InputAssumption DEF IInv, SendEnds, Go,
        queueVars, inputVars, clipVars, serverVars
<1>1. TypeOK'
  BY DEF TypeOK, Labels, Carrying, WheelsTurn, NoTurn, NoMessage, Messages, Statuses
<1>2. Carrying'
  BY DEF TypeOK, Carrying, Messages
<1>3. WheelsTurn'
  BY DEF TypeOK, WheelsTurn, NoTurn
<1>4. MonitorSilenced'
  BY DEF TypeOK, MonitorSilenced, Messages, NoMessage
<1>5. OneAtATime'
  BY DEF TypeOK, OneAtATime, Accessing, MayAccess
<1>6. SendStartsLate'
  BY DEF TypeOK, SendStartsLate
<1> QED
  BY <1>1, <1>2, <1>3, <1>4, <1>5, <1>6

LEMMA ClearKeeps == ASSUME IInv, Clear PROVE IInv'
<1> USE TasksAreThreads, InputAssumption DEF IInv, Clear, Go, MayAccess,
        queueVars, inputVars, clipVars, serverVars
<1>1. TypeOK'
  BY DEF TypeOK, Labels, Carrying, WheelsTurn, NoTurn, NoMessage, Messages, Statuses
<1>2. Carrying'
  BY DEF TypeOK, Carrying, Messages
<1>3. WheelsTurn'
  BY DEF TypeOK, WheelsTurn, NoTurn
<1>4. MonitorSilenced'
  BY DEF TypeOK, MonitorSilenced, Messages, NoMessage
<1>5. OneAtATime'
  BY DEF TypeOK, OneAtATime, Accessing, MayAccess
<1>6. SendStartsLate'
  BY DEF TypeOK, SendStartsLate
<1> QED
  BY <1>1, <1>2, <1>3, <1>4, <1>5, <1>6

LEMMA KeyEventKeeps == ASSUME IInv, NEW c \in Callers, NEW k \in Keys, NEW d \in BOOLEAN, KeyEvent(c, k, d) PROVE IInv'
<1> USE TasksAreThreads, InputAssumption DEF IInv, KeyEvent, Calls, Happens, Go,
        queueVars, inputVars, clipVars, serverVars
<1>1. TypeOK'
  BY DEF TypeOK, Labels, Carrying, WheelsTurn, NoTurn, NoMessage, Messages, Statuses
<1>2. Carrying'
  BY DEF TypeOK, Carrying, Messages
<1>3. WheelsTurn'
  BY DEF TypeOK, WheelsTurn, NoTurn
<1>4. MonitorSilenced'
  BY DEF TypeOK, MonitorSilenced, Messages, NoMessage
<1>5. OneAtATime'
  BY DEF TypeOK, OneAtATime, Accessing, MayAccess
<1>6. SendStartsLate'
  BY DEF TypeOK, SendStartsLate
<1> QED
  BY <1>1, <1>2, <1>3, <1>4, <1>5, <1>6

LEMMA MouseMoveKeeps == ASSUME IInv, NEW c \in Callers, MouseMove(c) PROVE IInv'
<1> USE TasksAreThreads, InputAssumption DEF IInv, MouseMove, Calls, Happens, Go,
        queueVars, inputVars, clipVars, serverVars
<1>1. TypeOK'
  BY DEF TypeOK, Labels, Carrying, WheelsTurn, NoTurn, NoMessage, Messages, Statuses
<1>2. Carrying'
  BY DEF TypeOK, Carrying, Messages
<1>3. WheelsTurn'
  BY DEF TypeOK, WheelsTurn, NoTurn
<1>4. MonitorSilenced'
  BY DEF TypeOK, MonitorSilenced, Messages, NoMessage
<1>5. OneAtATime'
  BY DEF TypeOK, OneAtATime, Accessing, MayAccess
<1>6. SendStartsLate'
  BY DEF TypeOK, SendStartsLate
<1> QED
  BY <1>1, <1>2, <1>3, <1>4, <1>5, <1>6

LEMMA MouseButtonKeeps == ASSUME IInv, NEW c \in Callers, NEW b \in Buttons, NEW d \in BOOLEAN, MouseButton(c, b, d) PROVE IInv'
<1> USE TasksAreThreads, InputAssumption DEF IInv, MouseButton, Calls, Happens, Go,
        queueVars, inputVars, clipVars, serverVars
<1>1. TypeOK'
  BY DEF TypeOK, Labels, Carrying, WheelsTurn, NoTurn, NoMessage, Messages, Statuses
<1>2. Carrying'
  BY DEF TypeOK, Carrying, Messages
<1>3. WheelsTurn'
  BY DEF TypeOK, WheelsTurn, NoTurn
<1>4. MonitorSilenced'
  BY DEF TypeOK, MonitorSilenced, Messages, NoMessage
<1>5. OneAtATime'
  BY DEF TypeOK, OneAtATime, Accessing, MayAccess
<1>6. SendStartsLate'
  BY DEF TypeOK, SendStartsLate
<1> QED
  BY <1>1, <1>2, <1>3, <1>4, <1>5, <1>6

LEMMA MouseWheelKeeps == ASSUME IInv, NEW c \in Callers, NEW w \in Wheels, NEW n \in 0..MaxSteps, MouseWheel(c, w, n) PROVE IInv'
<1> USE TasksAreThreads, InputAssumption DEF IInv, MouseWheel, Calls, Happens, Go,
        queueVars, inputVars, clipVars, serverVars
<1>1. TypeOK'
  <2>1. wheel' \in [Callers -> [turns : Wheels, left : 0..MaxSteps] \cup {NoTurn}]
    BY DEF TypeOK
  <2>2. at' \in [Threads -> Labels] /\ events' \in 0..MaxEvents
    BY DEF TypeOK, Labels
  <2> QED
    BY <2>1, <2>2 DEF TypeOK
<1>2. Carrying'
  BY DEF TypeOK, Carrying, Messages
<1>3. WheelsTurn'
  BY DEF TypeOK, WheelsTurn, NoTurn
<1>4. MonitorSilenced'
  BY DEF TypeOK, MonitorSilenced, Messages, NoMessage
<1>5. OneAtATime'
  BY DEF TypeOK, OneAtATime, Accessing, MayAccess
<1>6. SendStartsLate'
  BY DEF TypeOK, SendStartsLate
<1> QED
  BY <1>1, <1>2, <1>3, <1>4, <1>5, <1>6

LEMMA TurnKeeps == ASSUME IInv, NEW c \in Callers, Turn(c) PROVE IInv'
<1> USE TasksAreThreads, InputAssumption DEF IInv, Turn, Go,
        queueVars, inputVars, clipVars, serverVars
<1>1. TypeOK'
  <2>1. wheel[c].turns \in Wheels
    BY DEF TypeOK, WheelsTurn, NoTurn
  <2>2. at' \in [Threads -> Labels] /\ buttons' \subseteq Buttons \cup Wheels
    BY <2>1 DEF TypeOK, Labels
  <2> QED
    BY <2>2 DEF TypeOK
<1>2. Carrying'
  BY DEF TypeOK, Carrying, Messages
<1>3. WheelsTurn'
  BY DEF TypeOK, WheelsTurn, NoTurn
<1>4. MonitorSilenced'
  BY DEF TypeOK, MonitorSilenced, Messages, NoMessage
<1>5. OneAtATime'
  BY DEF TypeOK, OneAtATime, Accessing, MayAccess
<1>6. SendStartsLate'
  BY DEF TypeOK, SendStartsLate
<1> QED
  BY <1>1, <1>2, <1>3, <1>4, <1>5, <1>6

LEMMA ReleaseKeeps == ASSUME IInv, NEW c \in Callers, Release(c) PROVE IInv'
<1> USE TasksAreThreads, InputAssumption DEF IInv, Release, Go,
        queueVars, inputVars, clipVars, serverVars
<1>1. TypeOK'
  <2>1. /\ wheel[c] \in [turns : Wheels, left : 0..MaxSteps]
        /\ wheel[c].left > 0
    BY DEF TypeOK, WheelsTurn, NoTurn
  <2>2. [wheel[c] EXCEPT !.left = @ - 1] \in [turns : Wheels, left : 0..MaxSteps]
    BY <2>1
  <2>3. wheel' \in [Callers -> [turns : Wheels, left : 0..MaxSteps] \cup {NoTurn}]
    BY <2>2 DEF TypeOK
  <2>4. at' \in [Threads -> Labels] /\ buttons' \subseteq Buttons \cup Wheels
    BY DEF TypeOK, Labels
  <2> QED
    BY <2>3, <2>4 DEF TypeOK
<1>2. Carrying'
  BY DEF TypeOK, Carrying, Messages
<1>3. WheelsTurn'
  BY DEF TypeOK, WheelsTurn, NoTurn
<1>4. MonitorSilenced'
  BY DEF TypeOK, MonitorSilenced, Messages, NoMessage
<1>5. OneAtATime'
  BY DEF TypeOK, OneAtATime, Accessing, MayAccess
<1>6. SendStartsLate'
  BY DEF TypeOK, SendStartsLate
<1> QED
  BY <1>1, <1>2, <1>3, <1>4, <1>5, <1>6

LEMMA TurnedKeeps == ASSUME IInv, NEW c \in Callers, Turned(c) PROVE IInv'
<1> USE TasksAreThreads, InputAssumption DEF IInv, Turned, Go,
        queueVars, inputVars, clipVars, serverVars
<1>1. TypeOK'
  BY DEF TypeOK, Labels, Carrying, WheelsTurn, NoTurn, NoMessage, Messages, Statuses
<1>2. Carrying'
  BY DEF TypeOK, Carrying, Messages
<1>3. WheelsTurn'
  BY DEF TypeOK, WheelsTurn, NoTurn
<1>4. MonitorSilenced'
  BY DEF TypeOK, MonitorSilenced, Messages, NoMessage
<1>5. OneAtATime'
  BY DEF TypeOK, OneAtATime, Accessing, MayAccess
<1>6. SendStartsLate'
  BY DEF TypeOK, SendStartsLate
<1> QED
  BY <1>1, <1>2, <1>3, <1>4, <1>5, <1>6

LEMMA EnqueueMouseEventKeeps == ASSUME IInv, NEW c \in Callers, EnqueueMouseEvent(c) PROVE IInv'
<1> USE TasksAreThreads, InputAssumption DEF IInv, EnqueueMouseEvent, Go, AfterPut,
        queueVars, inputVars, clipVars, serverVars
<1>1. TypeOK'
  BY DEF TypeOK, Labels, Carrying, WheelsTurn, NoTurn, NoMessage, Messages, Statuses
<1>2. Carrying'
  BY DEF TypeOK, Carrying, Messages
<1>3. WheelsTurn'
  BY DEF TypeOK, WheelsTurn, NoTurn
<1>4. MonitorSilenced'
  BY DEF TypeOK, MonitorSilenced, Messages, NoMessage
<1>5. OneAtATime'
  BY DEF TypeOK, OneAtATime, Accessing, MayAccess
<1>6. SendStartsLate'
  BY DEF TypeOK, SendStartsLate
<1> QED
  BY <1>1, <1>2, <1>3, <1>4, <1>5, <1>6

LEMMA MainQueueBlockKeeps == ASSUME IInv, MainQueueBlock PROVE IInv'
<1> USE TasksAreThreads, InputAssumption DEF IInv, MainQueueBlock, Go,
        queueVars, inputVars, clipVars, serverVars
<1>1. TypeOK'
  BY DEF TypeOK, Labels, Carrying, WheelsTurn, NoTurn, NoMessage, Messages, Statuses
<1>2. Carrying'
  BY DEF TypeOK, Carrying, Messages
<1>3. WheelsTurn'
  BY DEF TypeOK, WheelsTurn, NoTurn
<1>4. MonitorSilenced'
  BY DEF TypeOK, MonitorSilenced, Messages, NoMessage
<1>5. OneAtATime'
  BY DEF TypeOK, OneAtATime, Accessing, MayAccess
<1>6. SendStartsLate'
  BY DEF TypeOK, SendStartsLate
<1> QED
  BY <1>1, <1>2, <1>3, <1>4, <1>5, <1>6

LEMMA TimerDidFireKeeps == ASSUME IInv, TimerDidFire PROVE IInv'
<1> USE TasksAreThreads, InputAssumption DEF IInv, TimerDidFire, Go, ShouldMonitor,
        queueVars, inputVars, clipVars, serverVars
<1>1. TypeOK'
  BY DEF TypeOK, Labels, Carrying, WheelsTurn, NoTurn, NoMessage, Messages, Statuses
<1>2. Carrying'
  BY DEF TypeOK, Carrying, Messages
<1>3. WheelsTurn'
  BY DEF TypeOK, WheelsTurn, NoTurn
<1>4. MonitorSilenced'
  BY DEF TypeOK, MonitorSilenced, Messages, NoMessage
<1>5. OneAtATime'
  BY DEF TypeOK, OneAtATime, Accessing, MayAccess
<1>6. SendStartsLate'
  BY DEF TypeOK, SendStartsLate
<1> QED
  BY <1>1, <1>2, <1>3, <1>4, <1>5, <1>6

LEMMA ReadTextKeeps == ASSUME IInv, ReadText PROVE IInv'
<1> USE TasksAreThreads, InputAssumption DEF IInv, ReadText, Go,
        queueVars, inputVars, clipVars, serverVars
<1>1. TypeOK'
  BY DEF TypeOK, Labels, Carrying, WheelsTurn, NoTurn, NoMessage, Messages, Statuses
<1>2. Carrying'
  BY DEF TypeOK, Carrying, Messages
<1>3. WheelsTurn'
  BY DEF TypeOK, WheelsTurn, NoTurn
<1>4. MonitorSilenced'
  BY DEF TypeOK, MonitorSilenced, Messages, NoMessage
<1>5. OneAtATime'
  BY DEF TypeOK, OneAtATime, Accessing, MayAccess
<1>6. SendStartsLate'
  BY DEF TypeOK, SendStartsLate
<1> QED
  BY <1>1, <1>2, <1>3, <1>4, <1>5, <1>6

LEMMA ReceiveCutTextKeeps == ASSUME IInv, ReceiveCutText PROVE IInv'
<1> USE TasksAreThreads, InputAssumption DEF IInv, ReceiveCutText, Go,
        queueVars, inputVars, clipVars, serverVars
<1>1. TypeOK'
  <2>0. /\ clipboard.count \in Nat \ {0}
        /\ clipboard \in [text : Texts \cup {NoText}, count : Nat \ {0}, local : BOOLEAN]
        /\ setting \in Nat /\ toClient \in Seq(Texts)
    BY DEF TypeOK
  <2>1. /\ clipboard' \in [text : Texts \cup {NoText}, count : Nat \ {0}, local : BOOLEAN]
        /\ setting' \in Nat
    <3>1. CASE ClipboardEnabled
      <4>1. clipboard' = [text |-> NoText, count |-> clipboard.count + 1, local |-> FALSE]
        BY <3>1
      <4>2. clipboard.count + 1 \in Nat \ {0} /\ setting' = clipboard.count + 1
        BY <2>0, <3>1
      <4> QED
        BY <4>1, <4>2
    <3>2. CASE ~ClipboardEnabled
      BY <2>0, <3>2
    <3> QED
      BY <3>1, <3>2
  <2>2. at' \in [Threads -> Labels]
    BY DEF TypeOK, Labels
  <2>3. toClient' \in Seq(Texts)
    <3>1. toClient # <<>> /\ (toClient' = toClient \/ toClient' = Tail(toClient))
      OBVIOUS
    <3>2. Tail(toClient) \in Seq(Texts)
      BY <2>0, <3>1, TailIsSeq
    <3> QED
      BY <2>0, <3>1, <3>2
  <2> QED
    BY <2>1, <2>2, <2>3 DEF TypeOK
<1>2. Carrying'
  BY DEF TypeOK, Carrying, Messages
<1>3. WheelsTurn'
  BY DEF TypeOK, WheelsTurn, NoTurn
<1>4. MonitorSilenced'
  BY DEF TypeOK, MonitorSilenced, Messages, NoMessage
<1>5. OneAtATime'
  <2>1. \A t \in Threads : Accessing(t)' <=> Accessing(t)
    BY DEF TypeOK, Accessing
  <2> QED
    BY <2>1 DEF OneAtATime
<1>6. SendStartsLate'
  BY DEF TypeOK, SendStartsLate
<1> QED
  BY <1>1, <1>2, <1>3, <1>4, <1>5, <1>6

LEMMA SetTextKeeps == ASSUME IInv, SetText PROVE IInv'
<1> USE TasksAreThreads, InputAssumption DEF IInv, SetText, Go,
        queueVars, inputVars, clipVars, serverVars
<1>1. TypeOK'
  <2>1. toClient # <<>>
    BY DEF Carrying
  <2>2. Head(toClient) \in Texts /\ toClient' \in Seq(Texts)
    BY <2>1, HeadTailProperties DEF TypeOK
  <2>3. clipboard' \in [text : Texts \cup {NoText}, count : Nat \ {0}, local : BOOLEAN]
    BY <2>2 DEF TypeOK
  <2>4. at' \in [Threads -> Labels]
    BY DEF TypeOK, Labels
  <2> QED
    BY <2>2, <2>3, <2>4 DEF TypeOK
<1>2. Carrying'
  BY DEF TypeOK, Carrying, Messages
<1>3. WheelsTurn'
  BY DEF TypeOK, WheelsTurn, NoTurn
<1>4. MonitorSilenced'
  BY DEF TypeOK, MonitorSilenced, Messages, NoMessage
<1>5. OneAtATime'
  BY DEF TypeOK, OneAtATime, Accessing, MayAccess
<1>6. SendStartsLate'
  BY DEF TypeOK, SendStartsLate
<1> QED
  BY <1>1, <1>2, <1>3, <1>4, <1>5, <1>6

LEMMA ReceiveEndsKeeps == ASSUME IInv, ReceiveEnds PROVE IInv'
<1> USE TasksAreThreads, InputAssumption DEF IInv, ReceiveEnds, Go,
        queueVars, inputVars, clipVars, serverVars
<1>1. TypeOK'
  BY DEF TypeOK, Labels, Carrying, WheelsTurn, NoTurn, NoMessage, Messages, Statuses
<1>2. Carrying'
  BY DEF TypeOK, Carrying, Messages
<1>3. WheelsTurn'
  BY DEF TypeOK, WheelsTurn, NoTurn
<1>4. MonitorSilenced'
  BY DEF TypeOK, MonitorSilenced, Messages, NoMessage
<1>5. OneAtATime'
  BY DEF TypeOK, OneAtATime, Accessing, MayAccess
<1>6. SendStartsLate'
  BY DEF TypeOK, SendStartsLate
<1> QED
  BY <1>1, <1>2, <1>3, <1>4, <1>5, <1>6

LEMMA BecomeConnectedKeeps == ASSUME IInv, BecomeConnected PROVE IInv'
<1> USE TasksAreThreads, InputAssumption DEF IInv, BecomeConnected, Go,
        queueVars, inputVars, clipVars, serverVars
<1>1. TypeOK'
  BY DEF TypeOK, Labels, Carrying, WheelsTurn, NoTurn, NoMessage, Messages, Statuses
<1>2. Carrying'
  BY DEF TypeOK, Carrying, Messages
<1>3. WheelsTurn'
  BY DEF TypeOK, WheelsTurn, NoTurn
<1>4. MonitorSilenced'
  BY DEF TypeOK, MonitorSilenced, Messages, NoMessage
<1>5. OneAtATime'
  BY DEF TypeOK, OneAtATime, Accessing, MayAccess
<1>6. SendStartsLate'
  BY DEF TypeOK, SendStartsLate
<1> QED
  BY <1>1, <1>2, <1>3, <1>4, <1>5, <1>6

LEMMA StartMonitoringKeeps == ASSUME IInv, StartMonitoring PROVE IInv'
<1> USE TasksAreThreads, InputAssumption DEF IInv, StartMonitoring, Go,
        queueVars, inputVars, clipVars, serverVars
<1>1. TypeOK'
  <2>1. clipboard.count \in Nat \ {0}
    BY DEF TypeOK
  <2>2. clipboard.count - 1 \in Nat
    BY <2>1
  <2>3. monitor' \in [timer : BOOLEAN, posted : BOOLEAN, last : Nat]
    BY <2>2 DEF TypeOK
  <2>4. at' \in [Threads -> Labels]
    BY DEF TypeOK, Labels
  <2> QED
    BY <2>3, <2>4 DEF TypeOK
<1>2. Carrying'
  BY DEF TypeOK, Carrying, Messages
<1>3. WheelsTurn'
  BY DEF TypeOK, WheelsTurn, NoTurn
<1>4. MonitorSilenced'
  BY DEF TypeOK, MonitorSilenced, Messages, NoMessage
<1>5. OneAtATime'
  BY DEF TypeOK, OneAtATime, Accessing, MayAccess
<1>6. SendStartsLate'
  BY DEF TypeOK, SendStartsLate
<1> QED
  BY <1>1, <1>2, <1>3, <1>4, <1>5, <1>6

LEMMA StartLoopsKeeps == ASSUME IInv, StartLoops PROVE IInv'
<1> USE TasksAreThreads, InputAssumption DEF IInv, StartLoops,
        queueVars, inputVars, clipVars, serverVars
<1>1. TypeOK'
  BY DEF TypeOK, Labels, Carrying, WheelsTurn, NoTurn, NoMessage, Messages, Statuses
<1>2. Carrying'
  <2>1. \A t \in Threads : at'[t] = at[t] \/ at'[t] \in {"done", "idle"}
    BY DEF TypeOK
  <2> QED
    BY <2>1 DEF Carrying
<1>3. WheelsTurn'
  BY DEF TypeOK, WheelsTurn, NoTurn
<1>4. MonitorSilenced'
  BY DEF TypeOK, MonitorSilenced, Messages, NoMessage
<1>5. OneAtATime'
  BY DEF TypeOK, OneAtATime, Accessing, MayAccess
<1>6. SendStartsLate'
  BY DEF TypeOK, SendStartsLate
<1> QED
  BY <1>1, <1>2, <1>3, <1>4, <1>5, <1>6

LEMMA RequestEndKeeps == ASSUME IInv, RequestEnd PROVE IInv'
<1> USE TasksAreThreads, InputAssumption DEF IInv, RequestEnd, Go,
        queueVars, inputVars, clipVars, serverVars
<1>1. TypeOK'
  BY DEF TypeOK, Labels, Carrying, WheelsTurn, NoTurn, NoMessage, Messages, Statuses
<1>2. Carrying'
  BY DEF TypeOK, Carrying, Messages
<1>3. WheelsTurn'
  BY DEF TypeOK, WheelsTurn, NoTurn
<1>4. MonitorSilenced'
  BY DEF TypeOK, MonitorSilenced, Messages, NoMessage
<1>5. OneAtATime'
  BY DEF TypeOK, OneAtATime, Accessing, MayAccess
<1>6. SendStartsLate'
  BY DEF TypeOK, SendStartsLate
<1> QED
  BY <1>1, <1>2, <1>3, <1>4, <1>5, <1>6

LEMMA EndsWithKeeps == ASSUME IInv, NEW s \in {"disconnecting", "disconnected"}, NEW to \in {"disconnected", "done"}, EndsWith(s, to) PROVE IInv'
<1> USE TasksAreThreads, InputAssumption DEF IInv, EndsWith, Go,
        queueVars, inputVars, clipVars, serverVars
<1>1. TypeOK'
  BY DEF TypeOK, Labels, Carrying, WheelsTurn, NoTurn, NoMessage, Messages, Statuses
<1>2. Carrying'
  BY DEF TypeOK, Carrying, Messages
<1>3. WheelsTurn'
  BY DEF TypeOK, WheelsTurn, NoTurn
<1>4. MonitorSilenced'
  BY DEF TypeOK, MonitorSilenced, Messages, NoMessage
<1>5. OneAtATime'
  BY DEF TypeOK, OneAtATime, Accessing, MayAccess
<1>6. SendStartsLate'
  BY DEF TypeOK, SendStartsLate
<1> QED
  BY <1>1, <1>2, <1>3, <1>4, <1>5, <1>6

LEMMA CopyLocallyKeeps == ASSUME IInv, CopyLocally PROVE IInv'
<1> USE TasksAreThreads, InputAssumption DEF IInv, CopyLocally, Happens, Go,
        queueVars, inputVars, clipVars, serverVars
<1>1. TypeOK'
  BY SMTT(30) DEF TypeOK, Labels, Carrying, WheelsTurn, NoTurn, NoMessage, Messages, Statuses
<1>2. Carrying'
  BY DEF TypeOK, Carrying, Messages
<1>3. WheelsTurn'
  BY DEF TypeOK, WheelsTurn, NoTurn
<1>4. MonitorSilenced'
  BY DEF TypeOK, MonitorSilenced, Messages, NoMessage
<1>5. OneAtATime'
  BY DEF TypeOK, OneAtATime, Accessing, MayAccess
<1>6. SendStartsLate'
  BY DEF TypeOK, SendStartsLate
<1> QED
  BY <1>1, <1>2, <1>3, <1>4, <1>5, <1>6

LEMMA ServerCopiesKeeps == ASSUME IInv, ServerCopies PROVE IInv'
<1> USE TasksAreThreads, InputAssumption DEF IInv, ServerCopies, Happens, Go,
        queueVars, inputVars, clipVars, serverVars
<1>1. TypeOK'
  <2>1. PICK text \in Texts : /\ server' = [server EXCEPT !.text = text]
                              /\ toClient' = Append(toClient, text)
    OBVIOUS
  <2>2. toClient' \in Seq(Texts) /\ events' \in 0..MaxEvents
    BY <2>1 DEF TypeOK
  <2>3. server' \in [keys : SUBSET Keys, mask : SUBSET (Buttons \cup Wheels),
                      text : Texts \cup {NoText}]
    BY <2>1 DEF TypeOK
  <2> QED
    BY <2>2, <2>3 DEF TypeOK
<1>2. Carrying'
  <2>0. PICK text \in Texts : toClient' = Append(toClient, text)
    OBVIOUS
  <2>1. toClient' # <<>>
    <3>1. toClient \in Seq(Texts)
      BY DEF TypeOK
    <3> QED
      BY <2>0, <3>1, AppendedIsNotEmpty, Zenon
  <2> QED
    BY <2>1 DEF Carrying
<1>3. WheelsTurn'
  BY DEF TypeOK, WheelsTurn, NoTurn
<1>4. MonitorSilenced'
  BY DEF TypeOK, MonitorSilenced, Messages, NoMessage
<1>5. OneAtATime'
  BY DEF TypeOK, OneAtATime, Accessing, MayAccess
<1>6. SendStartsLate'
  BY DEF TypeOK, SendStartsLate
<1> QED
  BY <1>1, <1>2, <1>3, <1>4, <1>5, <1>6

-----------------------------------------------------------------------------
LEMMA StepKeeps == IInv /\ [Next]_vars => IInv'
<1> SUFFICES ASSUME IInv, [Next]_vars PROVE IInv'
  OBVIOUS
<1>1. ASSUME NEW c \in Callers, Caller(c) PROVE IInv'
  BY <1>1, KeyEventKeeps, MouseMoveKeeps, MouseButtonKeeps, MouseWheelKeeps DEF Caller
<1>2. ASSUME NEW c \in Callers, Proceeds(c) PROVE IInv'
  BY <1>2, TurnKeeps, ReleaseKeeps, TurnedKeeps, EnqueueMouseEventKeeps, PutKeeps, StoreKeeps
     DEF Proceeds
<1>3. CASE Main
  BY <1>3, MainQueueBlockKeeps, TimerDidFireKeeps, ReadTextKeeps, PutKeeps, StoreKeeps DEF Main
<1>4. CASE Receive
  BY <1>4, ReceiveCutTextKeeps, SetTextKeeps, ReceiveEndsKeeps DEF Receive
<1>5. CASE Send
  BY <1>5, TakeKeeps, RemoveFirstKeeps, WriteKeeps, SendEndsKeeps DEF Send
<1>6. CASE Handshake
  BY <1>6, ClearKeeps, BecomeConnectedKeeps, StartMonitoringKeeps,
     StartLoopsKeeps DEF Handshake
<1>7. CASE RequestEnd \/ Ender
  BY <1>7, RequestEndKeeps, EndsWithKeeps DEF Ender
<1>8. CASE CopyLocally \/ ServerCopies
  BY <1>8, CopyLocallyKeeps, ServerCopiesKeeps
<1>9. CASE UNCHANGED vars
  BY <1>9 DEF vars, IInv, TypeOK, Carrying, WheelsTurn, MonitorSilenced, OneAtATime,
     SendStartsLate, Accessing
<1> QED
  BY <1>1, <1>2, <1>3, <1>4, <1>5, <1>6, <1>7, <1>8, <1>9 DEF Next

LEMMA Invariant == SafeSpec => []IInv
BY InitIInv, StepKeeps, PTL DEF SafeSpec

(* Whatever the threads do, with or without overlapping, the queue holds messages, a
   turn of the wheel has as many steps as were asked for, and nothing is stored that
   was not read or made before.                                                      *)
THEOREM TypeCorrect == SafeSpec => []TypeOK
<1>1. IInv => TypeOK
  BY DEF IInv
<1> QED
  BY <1>1, Invariant, PTL

(* However the timer's block on the main queue, the handshake Task and the end of the
   connection interleave, at most one text gets into the queue while the status is not
   .connected.                                                                         *)
THEOREM ClipboardFallsSilent == SafeSpec => []SilentAfterEnd
<1>1. IInv => SilentAfterEnd
  BY DEF IInv, TypeOK, MonitorSilenced, SilentAfterEnd
<1> QED
  BY <1>1, Invariant, PTL

-----------------------------------------------------------------------------
(* Facts about the messages in the send Task's hands followed by those in the queue. *)
LEMMA TakingTheFirst ==
    ASSUME NEW S, NEW q \in Seq(S), q # <<>>
    PROVE  <<Head(q)>> \o Tail(q) = q
BY HeadTailProperties, SeqEqual, ConcatProperties

LEMMA FirstAndRest ==
    ASSUME NEW S, NEW m \in S, NEW q \in Seq(S)
    PROVE  /\ <<m>> \o q # <<>>
           /\ Tail(<<m>> \o q) = q
           /\ \A x \in S : <<m>> \o Append(q, x) = Append(<<m>> \o q, x)
OBVIOUS

LEMMA SameChannel ==
    ASSUME list' = list, at'["send"] = "write" <=> at["send"] = "write",
           at["send"] = "write" => msg'["send"] = msg["send"]
    PROVE  Channel' = Channel
BY DEF Channel

LEMMA StorePuts ==
    ASSUME ~Overlap, IInv, NEW t \in Callers \cup {"main"}, Store(t)
    PROVE  msg[t] \in Messages /\ Channel' = Append(Channel, msg[t])
<1> USE TasksAreThreads DEF IInv
<1>0. list \in Seq(Messages)
  BY DEF TypeOK
<1>1. list' = Append(list, msg[t]) /\ msg[t] \in Messages
  BY DEF Store, Go, OneAtATime, Accessing, Carrying
<1>2. /\ at'["send"] = at["send"]
      /\ at["send"] = "write" => msg["send"] \in Messages /\ msg'["send"] = msg["send"]
  BY DEF Store, Go, Carrying, TypeOK
<1> QED
  BY <1>0, <1>1, <1>2, FirstAndRest DEF Channel

LEMMA WriteGets ==
    ASSUME IInv, Write
    PROVE  msg["send"] \in Messages /\ Channel = <<msg["send"]>> \o Channel'
BY TasksAreThreads DEF IInv, TypeOK, Carrying, Write, Go, queueVars, Channel

LEMMA ClearEmpties ==
    ASSUME IInv, Clear
    PROVE  at["send"] = "none" /\ at'["send"] = "none" /\ Channel' = <<>>
BY TasksAreThreads DEF IInv, TypeOK, Clear, Go, SendStartsLate, Channel

(* Most actions leave the queue alone and the send Task's message where it is. *)
LEMMA CallersLeaveChannel ==
    ASSUME IInv, NEW c \in Callers,
           Caller(c) \/ Turn(c) \/ Release(c) \/ Turned(c) \/ EnqueueMouseEvent(c) \/ Put(c)
    PROVE  Channel' = Channel
<1> USE TasksAreThreads, SameChannel
    DEF IInv, TypeOK, Go, Calls, queueVars, inputVars, clipVars, serverVars
<1>1. CASE Caller(c)
  <2>1. ASSUME NEW key \in Keys, NEW down \in BOOLEAN, KeyEvent(c, key, down)
        PROVE  Channel' = Channel
    BY <2>1 DEF KeyEvent
  <2>2. CASE MouseMove(c)
    BY <2>2 DEF MouseMove
  <2>3. ASSUME NEW b \in Buttons, NEW down \in BOOLEAN, MouseButton(c, b, down)
        PROVE  Channel' = Channel
    BY <2>3 DEF MouseButton
  <2>4. ASSUME NEW w \in Wheels, NEW n \in 0..MaxSteps, MouseWheel(c, w, n)
        PROVE  Channel' = Channel
    BY <2>4 DEF MouseWheel
  <2> QED
    BY <1>1, <2>1, <2>2, <2>3, <2>4 DEF Caller
<1>2. CASE Turn(c)
  BY <1>2 DEF Turn
<1>3. CASE Release(c)
  BY <1>3 DEF Release
<1>4. CASE Turned(c)
  BY <1>4 DEF Turned
<1>5. CASE EnqueueMouseEvent(c)
  BY <1>5 DEF EnqueueMouseEvent
<1>6. CASE Put(c)
  BY <1>6 DEF Put
<1> QED
  BY <1>1, <1>2, <1>3, <1>4, <1>5, <1>6

(* What the program's own threads and the outside do, except for the three steps that
   change the channel.                                                               *)
Background ==
    \/ Put("main") \/ MainQueueBlock \/ TimerDidFire \/ ReadText
    \/ Receive \/ Take \/ RemoveFirst \/ SendEnds
    \/ BecomeConnected \/ StartMonitoring \/ StartLoops \/ RequestEnd \/ Ender
    \/ CopyLocally \/ ServerCopies

LEMMA BackgroundLeavesChannel ==
    ASSUME ~Overlap, IInv, Background PROVE Channel' = Channel
<1> USE TasksAreThreads
    DEF IInv, TypeOK, Go, queueVars, inputVars, clipVars, serverVars
<1>1. CASE Put("main")
  BY <1>1, SameChannel DEF Put
<1>2. CASE MainQueueBlock
  BY <1>2, SameChannel DEF MainQueueBlock
<1>3. CASE TimerDidFire
  BY <1>3, SameChannel DEF TimerDidFire
<1>4. CASE ReadText
  BY <1>4, SameChannel DEF ReadText
<1>5. CASE Receive
  BY <1>5, SameChannel DEF Receive, ReceiveCutText, SetText, ReceiveEnds
<1>6. CASE Take
  BY <1>6, SameChannel DEF Take
<1>7. CASE SendEnds
  BY <1>7, SameChannel DEF SendEnds
<1>8. CASE RemoveFirst
  <2>1. /\ list # <<>> /\ list' = Tail(list) /\ msg'["send"] = Head(list)
        /\ at["send"] # "write" /\ at'["send"] = "write"
    BY <1>8 DEF RemoveFirst, OneAtATime, Accessing, Carrying
  <2> QED
    BY <2>1, TakingTheFirst DEF Channel
<1>9. CASE BecomeConnected \/ StartMonitoring \/ StartLoops
  BY <1>9, SameChannel DEF BecomeConnected, StartMonitoring, StartLoops, SendStartsLate
<1>10. CASE RequestEnd \/ Ender
  BY <1>10, SameChannel DEF RequestEnd, Ender, EndsWith
<1>11. CASE CopyLocally \/ ServerCopies
  BY <1>11, SameChannel DEF CopyLocally, ServerCopies
<1> QED
  BY <1>1, <1>2, <1>3, <1>4, <1>5, <1>6, <1>7, <1>8, <1>9, <1>10, <1>11 DEF Background

(* Every step is one of these. *)
LEMMA Steps ==
    ASSUME [Next]_vars
    PROVE  \/ \E t \in Callers \cup {"main"} : Store(t)
           \/ Write \/ Clear \/ Background \/ UNCHANGED vars
           \/ \E c \in Callers :
                Caller(c) \/ Turn(c) \/ Release(c) \/ Turned(c) \/ EnqueueMouseEvent(c) \/ Put(c)
BY Zenon DEF Next, Proceeds, Main, Send, Handshake, Background

LEMMA Refines ==
    ASSUME ~Overlap, IInv, [Next]_vars
    PROVE  [Fifo!Put \/ Fifo!Get \/ Fifo!Clear]_Channel
<1>1. ASSUME NEW t \in Callers \cup {"main"}, Store(t) PROVE Fifo!Put
  BY <1>1, StorePuts DEF Fifo!Put
<1>2. CASE Write
  <2>1. list' \in Seq(Messages) /\ Channel' = list'
    BY <1>2, TasksAreThreads DEF IInv, TypeOK, Write, Go, queueVars, Channel
  <2>2. Channel # <<>> /\ Channel' = Tail(Channel)
    BY <1>2, <2>1, WriteGets, FirstAndRest
  <2> QED
    BY <2>2 DEF Fifo!Get
<1>3. CASE Clear
  BY <1>3, ClearEmpties DEF Fifo!Clear
<1>4. CASE UNCHANGED vars
  BY <1>4, SameChannel DEF vars
<1> QED
  BY <1>1, <1>2, <1>3, <1>4, Steps, CallersLeaveChannel, BackgroundLeavesChannel

(* When operations on the queue do not overlap, what the owner's threads and the
   clipboard put in leaves in that order, each message once, whenever the handshake
   clears the queue and wherever the send Task waits.                                *)
THEOREM QueueIsFifo == ~Overlap => (SafeSpec => ImplementsChannel)
<1> SUFFICES ASSUME ~Overlap PROVE SafeSpec => ImplementsChannel
  OBVIOUS
<1>1. Init => Fifo!Init
  BY TasksAreThreads DEF Init, Fifo!Init, Channel
<1>2. IInv /\ [Next]_vars => [Fifo!Put \/ Fifo!Get \/ Fifo!Clear]_Channel
  BY Refines
<1> QED
  BY <1>1, <1>2, Invariant, PTL DEF SafeSpec, ImplementsChannel, Fifo!Spec
-----------------------------------------------------------------------------
(***************************************************************************)
(* Nothing stays pressed.  What the server believes follows from what it   *)
(* believes now and from the messages under way: those in the channel and, *)
(* after them, the one in the hands of the caller.                         *)
(***************************************************************************)
Handed == {msg[c] : c \in {d \in Callers : at[d] \in {"put", "store"}}}

(* Of the good and the bad messages in q the last one is good; if there is neither,
   all is well already.                                                             *)
Settled(q, well, good, bad) ==
    \E i \in 0..Len(q) :
        /\ IF i = 0 THEN well ELSE q[i] \in good
        /\ \A j \in (i + 1)..Len(q) : q[j] \notin bad

(* The same when the messages in somebody's hands come after those in q. *)
WillSettle(q, hands, well, good, bad) ==
    \/ hands \cap good # {}
    \/ hands \cap bad = {} /\ Settled(q, well, good, bad)

KeyMessage(key, down) == [kind |-> "key", key |-> key, down |-> down]

KeysWillFollow(q, hands, keys, owned) ==
    \A key \in Keys \ owned :
        WillSettle(q, hands, key \notin keys, {KeyMessage(key, FALSE)}, {KeyMessage(key, TRUE)})

Fits(mask, pressed) == mask \ Wheels \subseteq pressed
Pointers(pressed, fit) == {m \in Messages : m.kind = "pointer" /\ Fits(m.mask, pressed) = fit}

MaskWillFollow(q, hands, mask, pressed) ==
    WillSettle(q, hands, Fits(mask, pressed), Pointers(pressed, TRUE), Pointers(pressed, FALSE))

(* Every key the owner let go of is up for the server, or will be. *)
KeysFollow == KeysWillFollow(Channel, Handed, server.keys, held)

(* Only buttons that are down are down for the server, or will be; between a change of
   the buttons and the event for it there is no saying.                               *)
ButtonsFollow ==
    (\A c \in Callers : at[c] # "event")
        => MaskWillFollow(Channel, Handed, server.mask, buttons)

(* With inputMode .none nothing is ever put in. *)
Spectator ==
    /\ server.keys = {} /\ server.mask = {}
    /\ Handed = {}
    /\ \A i \in 1..Len(Channel) : Channel[i].kind = "text"

(* The server has heard nothing before the send loop starts, so what the handshake
   drops is not missed.                                                            *)
UntouchedBefore == at["send"] = "none" => server.keys = {} /\ server.mask = {}

Follows ==
    /\ UntouchedBefore
    /\ InputEnabled => KeysFollow /\ ButtonsFollow
    /\ ~InputEnabled => Spectator

OneCaller == \A c, d \in Callers : c = d

-----------------------------------------------------------------------------
(* What happens to messages under way: the one in hand is put in, one that is not bad
   joins the channel, the first is handled, all are dropped, one is taken in hand.     *)
LEMMA HandIsPutIn ==
    ASSUME NEW S, NEW q \in Seq(S), NEW m \in S, NEW well \in BOOLEAN, NEW good, NEW bad,
           WillSettle(q, {m}, well, good, bad)
    PROVE  WillSettle(Append(q, m), {}, well, good, bad)
<1>0. /\ Append(q, m) \in Seq(S) /\ Len(Append(q, m)) = Len(q) + 1 /\ Len(q) \in Nat
      /\ Append(q, m)[Len(q) + 1] = m
      /\ \A i \in 1..Len(q) : Append(q, m)[i] = q[i]
  OBVIOUS
<1>1. CASE m \in good
  <2>1. Len(q) + 1 \in 0..Len(Append(q, m))
    BY <1>0
  <2>2. \A j \in (Len(q) + 2)..Len(Append(q, m)) : FALSE
    BY <1>0
  <2> QED
    BY <1>0, <1>1, <2>1, <2>2 DEF WillSettle, Settled
<1>2. CASE m \notin good
  <2>1. m \notin bad /\ Settled(q, well, good, bad)
    BY <1>2 DEF WillSettle
  <2>2. PICK i \in 0..Len(q) : /\ IF i = 0 THEN well ELSE q[i] \in good
                               /\ \A j \in (i + 1)..Len(q) : q[j] \notin bad
    BY <2>1 DEF Settled
  <2>3. IF i = 0 THEN well ELSE Append(q, m)[i] \in good
    BY <1>0, <2>2
  <2>4. \A j \in (i + 1)..Len(Append(q, m)) : Append(q, m)[j] \notin bad
    BY <1>0, <2>1, <2>2
  <2> QED
    BY <1>0, <2>3, <2>4 DEF WillSettle, Settled
<1> QED
  BY <1>1, <1>2

LEMMA HarmlessIsPutIn ==
    ASSUME NEW S, NEW q \in Seq(S), NEW m \in S, NEW hands, NEW well \in BOOLEAN, NEW good,
           NEW bad, m \notin bad, WillSettle(q, hands, well, good, bad)
    PROVE  WillSettle(Append(q, m), hands, well, good, bad)
<1>0. /\ Append(q, m) \in Seq(S) /\ Len(Append(q, m)) = Len(q) + 1 /\ Len(q) \in Nat
      /\ Append(q, m)[Len(q) + 1] = m
      /\ \A i \in 1..Len(q) : Append(q, m)[i] = q[i]
  OBVIOUS
<1>1. ASSUME Settled(q, well, good, bad) PROVE Settled(Append(q, m), well, good, bad)
  <2>1. PICK i \in 0..Len(q) : /\ IF i = 0 THEN well ELSE q[i] \in good
                               /\ \A j \in (i + 1)..Len(q) : q[j] \notin bad
    BY <1>1 DEF Settled
  <2>2. IF i = 0 THEN well ELSE Append(q, m)[i] \in good
    BY <1>0, <2>1
  <2>3. \A j \in (i + 1)..Len(Append(q, m)) : Append(q, m)[j] \notin bad
    BY <1>0, <2>1
  <2> QED
    BY <1>0, <2>2, <2>3 DEF Settled
<1> QED
  BY <1>1 DEF WillSettle

LEMMA FirstIsHandled ==
    ASSUME NEW S, NEW q \in Seq(S), NEW m \in S, NEW hands, NEW well \in BOOLEAN,
           NEW after \in BOOLEAN, NEW good, NEW bad,
           WillSettle(<<m>> \o q, hands, well, good, bad),
           m \in good => after, well /\ m \notin bad => after
    PROVE  WillSettle(q, hands, after, good, bad)
<1>0. /\ Len(<<m>> \o q) = Len(q) + 1 /\ Len(q) \in Nat /\ (<<m>> \o q)[1] = m
      /\ \A i \in 1..Len(q) : (<<m>> \o q)[i + 1] = q[i]
  OBVIOUS
<1> DEFINE p == <<m>> \o q
<1>1. ASSUME Settled(p, well, good, bad) PROVE Settled(q, after, good, bad)
  <2>1. PICK i \in 0..Len(p) : /\ IF i = 0 THEN well ELSE p[i] \in good
                               /\ \A j \in (i + 1)..Len(p) : p[j] \notin bad
    BY <1>1 DEF Settled
  <2> HIDE DEF p
  <2>2. Len(p) = Len(q) + 1 /\ p[1] = m /\ \A j \in 1..Len(q) : p[j + 1] = q[j]
    BY <1>0 DEF p
  <2>3. CASE i \in {0, 1}
    <3>1. after
      BY <1>0, <2>1, <2>2, <2>3
    <3>2. \A j \in (0 + 1)..Len(q) : q[j] \notin bad
      <4> SUFFICES ASSUME NEW j \in 1..Len(q) PROVE q[j] \notin bad
        OBVIOUS
      <4>1. j + 1 \in (i + 1)..Len(p)
        BY <1>0, <2>2, <2>3
      <4> QED
        BY <2>1, <2>2, <4>1
    <3> QED
      BY <1>0, <3>1, <3>2 DEF Settled
  <2>4. CASE i \notin {0, 1}
    <3>1. i - 1 \in 1..Len(q) /\ q[i - 1] \in good
      <4>1. i - 1 \in 1..Len(q)
        BY <1>0, <2>2, <2>4
      <4>2. p[(i - 1) + 1] = q[i - 1] /\ (i - 1) + 1 = i
        BY <1>0, <2>2, <4>1
      <4> QED
        BY <2>1, <2>4, <4>1, <4>2
    <3>2. \A j \in ((i - 1) + 1)..Len(q) : q[j] \notin bad
      <4> SUFFICES ASSUME NEW j \in ((i - 1) + 1)..Len(q) PROVE q[j] \notin bad
        OBVIOUS
      <4>1. j + 1 \in (i + 1)..Len(p) /\ j \in 1..Len(q)
        BY <1>0, <2>2, <3>1
      <4> QED
        BY <2>1, <2>2, <4>1
    <3> QED
      BY <1>0, <3>1, <3>2 DEF Settled
  <2> QED
    BY <2>3, <2>4
<1> QED
  BY <1>1 DEF WillSettle

LEMMA AllAreDropped ==
    ASSUME NEW S, NEW q \in Seq(S), NEW hands, NEW well \in BOOLEAN, NEW good, NEW bad,
           WillSettle(q, hands, well, good, bad)
    PROVE  WillSettle(<<>>, hands, TRUE, good, bad)
BY DEF WillSettle, Settled

LEMMA NothingUnderWay ==
    ASSUME NEW well \in BOOLEAN, NEW good, NEW bad, WillSettle(<<>>, {}, well, good, bad)
    PROVE  well
BY DEF WillSettle, Settled

LEMMA TakenInHand ==
    ASSUME NEW S, NEW q \in Seq(S), NEW m \in S, NEW well \in BOOLEAN, NEW good, NEW bad,
           m \in good \/ (m \notin bad /\ WillSettle(q, {}, well, good, bad))
    PROVE  WillSettle(q, {m}, well, good, bad)
BY DEF WillSettle

-----------------------------------------------------------------------------
(* The same for keys and for the mask. *)
LEMMA KeysHandIsPutIn ==
    ASSUME NEW q \in Seq(Messages), NEW m \in Messages, NEW keys, NEW owned,
           KeysWillFollow(q, {m}, keys, owned)
    PROVE  KeysWillFollow(Append(q, m), {}, keys, owned)
BY HandIsPutIn DEF KeysWillFollow

LEMMA MaskHandIsPutIn ==
    ASSUME NEW q \in Seq(Messages), NEW m \in Messages, NEW mask, NEW pressed,
           MaskWillFollow(q, {m}, mask, pressed)
    PROVE  MaskWillFollow(Append(q, m), {}, mask, pressed)
BY HandIsPutIn DEF MaskWillFollow, Fits

LEMMA TextIsPutIn ==
    ASSUME NEW q \in Seq(Messages), NEW m \in Messages, m.kind = "text", NEW hands
    PROVE  /\ \A keys, owned : KeysWillFollow(q, hands, keys, owned)
                => KeysWillFollow(Append(q, m), hands, keys, owned)
           /\ \A mask, pressed : MaskWillFollow(q, hands, mask, pressed)
                => MaskWillFollow(Append(q, m), hands, mask, pressed)
<1>1. ASSUME NEW keys, NEW owned, KeysWillFollow(q, hands, keys, owned)
      PROVE  KeysWillFollow(Append(q, m), hands, keys, owned)
  <2>1. \A key \in Keys : m \notin {KeyMessage(key, TRUE)}
    BY DEF KeyMessage
  <2> QED
    BY <1>1, <2>1, HarmlessIsPutIn DEF KeysWillFollow
<1>2. ASSUME NEW mask, NEW pressed, MaskWillFollow(q, hands, mask, pressed)
      PROVE  MaskWillFollow(Append(q, m), hands, mask, pressed)
  <2>1. m \notin Pointers(pressed, FALSE)
    BY DEF Pointers
  <2> QED
    BY <1>2, <2>1, HarmlessIsPutIn DEF MaskWillFollow, Fits
<1> QED
  BY <1>1, <1>2

(* What the server makes of a message. *)
LEMMA ServerFollows ==
    ASSUME TypeOK, NEW m \in Messages, NEW s, s = Handled(m)
    PROVE  /\ \A key \in Keys :
                /\ m = KeyMessage(key, FALSE) => key \notin s.keys
                /\ key \notin server.keys /\ m # KeyMessage(key, TRUE) => key \notin s.keys
           /\ IF m.kind = "pointer" THEN s.mask = m.mask ELSE s.mask = server.mask
           /\ m.kind = "text" => s.keys = server.keys
<1>0. server \in [keys : SUBSET Keys, mask : SUBSET (Buttons \cup Wheels), text : Texts \cup {NoText}]
  BY DEF TypeOK
<1>1. CASE m.kind = "key"
  <2>1. m.key \in Keys /\ m.down \in BOOLEAN /\ m = KeyMessage(m.key, m.down)
    BY <1>1 DEF Messages, KeyMessage
  <2>2. /\ s.keys = IF m.down THEN server.keys \cup {m.key} ELSE server.keys \ {m.key}
        /\ s.mask = server.mask
    BY <1>0, <1>1 DEF Handled
  <2>3. \A key \in Keys, down \in BOOLEAN :
            m = KeyMessage(key, down) <=> m.key = key /\ m.down = down
    BY <2>1 DEF KeyMessage
  <2> QED
    BY <1>1, <2>1, <2>2, <2>3
<1>2. CASE m.kind = "pointer"
  BY <1>0, <1>2 DEF Handled, KeyMessage
<1>3. CASE m.kind = "text"
  BY <1>0, <1>3 DEF Handled, KeyMessage
<1> QED
  BY <1>1, <1>2, <1>3 DEF Messages

LEMMA KeysFirstIsHandled ==
    ASSUME TypeOK, NEW q \in Seq(Messages), NEW m \in Messages, NEW hands, NEW owned,
           KeysWillFollow(<<m>> \o q, hands, server.keys, owned), NEW s, s = Handled(m)
    PROVE  KeysWillFollow(q, hands, s.keys, owned)
<1> SUFFICES ASSUME NEW key \in Keys \ owned
             PROVE  WillSettle(q, hands, key \notin s.keys,
                        {KeyMessage(key, FALSE)}, {KeyMessage(key, TRUE)})
  BY DEF KeysWillFollow
<1>1. WillSettle(<<m>> \o q, hands, key \notin server.keys,
                        {KeyMessage(key, FALSE)}, {KeyMessage(key, TRUE)})
  BY DEF KeysWillFollow
<1>2. /\ m \in {KeyMessage(key, FALSE)} => key \notin s.keys
      /\ key \notin server.keys /\ m \notin {KeyMessage(key, TRUE)} => key \notin s.keys
  BY ServerFollows
<1> QED
  BY <1>1, <1>2, FirstIsHandled

LEMMA MaskFirstIsHandled ==
    ASSUME TypeOK, NEW q \in Seq(Messages), NEW m \in Messages, NEW hands, NEW pressed,
           MaskWillFollow(<<m>> \o q, hands, server.mask, pressed), NEW s, s = Handled(m)
    PROVE  MaskWillFollow(q, hands, s.mask, pressed)
<1>1. Fits(server.mask, pressed) \in BOOLEAN /\ Fits(s.mask, pressed) \in BOOLEAN
  BY DEF Fits
<1>2. /\ m \in Pointers(pressed, TRUE) => Fits(s.mask, pressed)
      /\ Fits(server.mask, pressed) /\ m \notin Pointers(pressed, FALSE) => Fits(s.mask, pressed)
  <2>1. CASE m.kind = "pointer"
    <3>1. s.mask = m.mask
      BY <2>1, ServerFollows
    <3> QED
      BY <1>1, <2>1, <3>1 DEF Pointers, Fits
  <2>2. CASE m.kind # "pointer"
    <3>1. s.mask = server.mask
      BY <2>2, ServerFollows
    <3> QED
      BY <2>2, <3>1 DEF Pointers
  <2> QED
    BY <2>1, <2>2
<1>3. WillSettle(q, hands, Fits(s.mask, pressed), Pointers(pressed, TRUE),
                 Pointers(pressed, FALSE))
  <2>1. WillSettle(<<m>> \o q, hands, Fits(server.mask, pressed), Pointers(pressed, TRUE),
                   Pointers(pressed, FALSE))
    BY DEF MaskWillFollow
  <2>2. PICK well \in BOOLEAN : well = Fits(server.mask, pressed)
    BY <1>1
  <2>3. PICK after \in BOOLEAN : after = Fits(s.mask, pressed)
    BY <1>1
  <2>4. PICK good, bad : good = Pointers(pressed, TRUE) /\ bad = Pointers(pressed, FALSE)
    OBVIOUS
  <2>5. WillSettle(<<m>> \o q, hands, well, good, bad)
    BY <2>1, <2>2, <2>4
  <2>6. (m \in good => after) /\ (well /\ m \notin bad => after)
    BY <1>2, <2>2, <2>3, <2>4
  <2>7. WillSettle(q, hands, after, good, bad)
    BY <2>5, <2>6, FirstIsHandled
  <2> QED
    BY <2>3, <2>4, <2>7
<1> QED
  BY <1>3 DEF MaskWillFollow

(* The wheels do not count. *)
LEMMA WheelsDoNotCount ==
    ASSUME NEW pressed, NEW w \in Wheels
    PROVE  /\ \A mask : Fits(mask, pressed \ {w}) = Fits(mask, pressed)
           /\ Pointers(pressed \ {w}, TRUE) = Pointers(pressed, TRUE)
           /\ Pointers(pressed \ {w}, FALSE) = Pointers(pressed, FALSE)
<1>1. \A mask : Fits(mask, pressed \ {w}) = Fits(mask, pressed)
  BY DEF Fits
<1> QED
  BY <1>1 DEF Pointers

-----------------------------------------------------------------------------
(* A single caller has at most one message in hand. *)
LEMMA InHand ==
    ASSUME OneCaller, NEW c \in Callers
    PROVE  /\ Handed = IF at[c] \in {"put", "store"} THEN {msg[c]} ELSE {}
           /\ Handed' = IF at'[c] \in {"put", "store"} THEN {msg'[c]} ELSE {}
<1>1. Callers = {c}
  BY DEF OneCaller
<1>2. Handed = {msg[d] : d \in {e \in {c} : at[e] \in {"put", "store"}}}
  BY <1>1 DEF Handed
<1>3. Handed' = {msg'[d] : d \in {e \in {c} : at'[e] \in {"put", "store"}}}
  BY <1>1 DEF Handed
<1> QED
  BY <1>2, <1>3

(* The invariant in the state after a step. *)
LEMMA FollowsNext ==
    ASSUME UntouchedBefore',
           InputEnabled => KeysWillFollow(Channel', Handed', server'.keys, held'),
           InputEnabled /\ (\A c \in Callers : at'[c] # "event")
               => MaskWillFollow(Channel', Handed', server'.mask, buttons'),
           ~InputEnabled => Spectator'
    PROVE  Follows'
BY DEF Follows, KeysFollow, ButtonsFollow

(* A step that touches nothing the invariant speaks of. *)
LEMMA FollowsStays ==
    ASSUME Follows, Channel' = Channel, Handed' = Handed, held' = held, buttons' = buttons,
           server'.keys = server.keys, server'.mask = server.mask,
           at'["send"] = "none" => at["send"] = "none",
           \A c \in Callers : at[c] = "event" => at'[c] = "event"
    PROVE  Follows'
<1>1. UntouchedBefore'
  BY DEF Follows, UntouchedBefore
<1>2. InputEnabled => KeysWillFollow(Channel', Handed', server'.keys, held')
  BY DEF Follows, KeysFollow
<1>3. InputEnabled /\ (\A c \in Callers : at'[c] # "event")
          => MaskWillFollow(Channel', Handed', server'.mask, buttons')
  BY DEF Follows, ButtonsFollow
<1>4. ~InputEnabled => Spectator'
  BY DEF Follows, Spectator
<1> QED
  BY <1>1, <1>2, <1>3, <1>4, FollowsNext

LEMMA BackgroundSpares ==
    ASSUME IInv, Background
    PROVE  /\ \A c \in Callers : at'[c] = at[c] /\ msg'[c] = msg[c]
           /\ held' = held /\ buttons' = buttons
           /\ server'.keys = server.keys /\ server'.mask = server.mask
           /\ at'["send"] = "none" => at["send"] = "none"
<1> USE TasksAreThreads
    DEF IInv, TypeOK, Go, queueVars, inputVars, clipVars, serverVars
<1>1. CASE Put("main")
  BY <1>1 DEF Put
<1>2. CASE MainQueueBlock
  BY <1>2 DEF MainQueueBlock
<1>3. CASE TimerDidFire
  BY <1>3 DEF TimerDidFire
<1>4. CASE ReadText
  BY <1>4 DEF ReadText
<1>5. CASE Receive
  BY <1>5 DEF Receive, ReceiveCutText, SetText, ReceiveEnds
<1>6. CASE Take
  BY <1>6 DEF Take
<1>7. CASE SendEnds
  BY <1>7 DEF SendEnds
<1>8. CASE RemoveFirst
  BY <1>8 DEF RemoveFirst
<1>9. CASE BecomeConnected \/ StartMonitoring \/ StartLoops
  BY <1>9 DEF BecomeConnected, StartMonitoring, StartLoops
<1>10. CASE RequestEnd \/ Ender
  BY <1>10 DEF RequestEnd, Ender, EndsWith
<1>11. CASE CopyLocally
  BY <1>11 DEF CopyLocally, Happens
<1>12. CASE ServerCopies
  <2>1. PICK text \in Texts : server' = [server EXCEPT !.text = text]
    BY <1>12 DEF ServerCopies
  <2> QED
    BY <1>12, <2>1 DEF ServerCopies, Happens
<1> QED
  BY <1>1, <1>2, <1>3, <1>4, <1>5, <1>6, <1>7, <1>8, <1>9, <1>10, <1>11, <1>12 DEF Background

LEMMA BackgroundFollows ==
    ASSUME ~Overlap, IInv, Follows, Background PROVE Follows'
<1>1. Handed' = Handed
  BY BackgroundSpares DEF Handed
<1> QED
  BY <1>1, BackgroundSpares, BackgroundLeavesChannel, FollowsStays

LEMMA ChannelIsSeq == ASSUME IInv PROVE Channel \in Seq(Messages)
BY TasksAreThreads DEF IInv, TypeOK, Carrying, Channel

(* The caller's message joins the channel. *)
LEMMA StoreFollows ==
    ASSUME ~Overlap, OneCaller, IInv, Follows, NEW c \in Callers, Store(c) PROVE Follows'
<1>1. /\ Channel \in Seq(Messages) /\ msg[c] \in Messages
      /\ Channel' = Append(Channel, msg[c])
  BY ChannelIsSeq, StorePuts
<1>2. /\ at[c] = "store" /\ at'[c] \in {"release", "idle"} /\ server' = server
      /\ held' = held /\ buttons' = buttons /\ at'["send"] = at["send"]
  BY TasksAreThreads
     DEF IInv, TypeOK, Store, Go, AfterPut, inputVars, serverVars
<1>3. Handed = {msg[c]} /\ Handed' = {}
  BY <1>2, InHand
<1>4. UntouchedBefore'
  BY <1>2 DEF Follows, UntouchedBefore
<1>5. InputEnabled
  BY <1>3 DEF Follows, Spectator, IInv, TypeOK, InputAssumption
<1>6. KeysWillFollow(Channel', Handed', server'.keys, held')
  BY <1>1, <1>2, <1>3, <1>5, KeysHandIsPutIn DEF Follows, KeysFollow
<1>7. MaskWillFollow(Channel', Handed', server'.mask, buttons')
  <2>1. \A d \in Callers : at[d] # "event"
    BY <1>2 DEF OneCaller
  <2> QED
    BY <1>1, <1>2, <1>3, <1>5, <2>1, MaskHandIsPutIn DEF Follows, ButtonsFollow
<1> QED
  BY <1>4, <1>5, <1>6, <1>7, FollowsNext

(* A text joins the channel before the message in the caller's hands. *)
LEMMA StoreTextFollows ==
    ASSUME ~Overlap, IInv, Follows, Store("main") PROVE Follows'
<1>1. /\ Channel \in Seq(Messages) /\ msg["main"] \in Messages
      /\ Channel' = Append(Channel, msg["main"])
  BY ChannelIsSeq, StorePuts
<1>2. /\ msg["main"].kind = "text" /\ server' = server
      /\ held' = held /\ buttons' = buttons /\ at'["send"] = at["send"]
      /\ \A c \in Callers : at'[c] = at[c] /\ msg'[c] = msg[c]
  BY TasksAreThreads
     DEF IInv, TypeOK, Carrying, Store, Go, AfterPut, inputVars, serverVars
<1>3. Handed' = Handed
  BY <1>2 DEF Handed
<1>4. UntouchedBefore'
  BY <1>2 DEF Follows, UntouchedBefore
<1>5. InputEnabled => KeysWillFollow(Channel', Handed', server'.keys, held')
  BY <1>1, <1>2, <1>3, TextIsPutIn DEF Follows, KeysFollow
<1>6. InputEnabled /\ (\A c \in Callers : at'[c] # "event")
          => MaskWillFollow(Channel', Handed', server'.mask, buttons')
  BY <1>1, <1>2, <1>3, TextIsPutIn DEF Follows, ButtonsFollow
<1>7. ~InputEnabled => Spectator'
  <2> SUFFICES ASSUME ~InputEnabled PROVE Spectator'
    OBVIOUS
  <2>1. Spectator
    BY DEF Follows
  <2>2. \A i \in 1..Len(Channel') : Channel'[i].kind = "text"
    BY <1>1, <1>2, <2>1 DEF Spectator
  <2> QED
    BY <1>2, <1>3, <2>1, <2>2 DEF Spectator
<1> QED
  BY <1>4, <1>5, <1>6, <1>7, FollowsNext

(* The server takes over the first message. *)
LEMMA WriteFollows ==
    ASSUME IInv, Follows, Write PROVE Follows'
<1> DEFINE m == msg["send"]
<1>0. Channel' \in Seq(Messages)
  BY TasksAreThreads DEF IInv, TypeOK, Carrying, Write, Go, queueVars, Channel
<1>1. m \in Messages /\ Channel = <<m>> \o Channel'
  BY WriteGets
<1>2. /\ server' = Handled(m) /\ at'["send"] = "idle"
      /\ held' = held /\ buttons' = buttons
      /\ \A c \in Callers : at'[c] = at[c] /\ msg'[c] = msg[c]
  BY TasksAreThreads DEF IInv, TypeOK, Write, Go, inputVars
<1>3. Handed' = Handed
  BY <1>2 DEF Handed
<1>4. UntouchedBefore'
  BY <1>2 DEF UntouchedBefore
<1>5. TypeOK
  BY DEF IInv
<1> HIDE DEF m
<1>a. PICK q \in Seq(Messages) : q = Channel'
  BY <1>0
<1>b. PICK s : s = server'
  OBVIOUS
<1>6. q = Channel' /\ s = server'
  BY <1>a, <1>b
<1>7. InputEnabled => KeysWillFollow(Channel', Handed', server'.keys, held')
  <2>1. InputEnabled => KeysWillFollow(<<m>> \o q, Handed, server.keys, held)
    BY <1>1, <1>6 DEF Follows, KeysFollow
  <2>2. InputEnabled => KeysWillFollow(q, Handed, s.keys, held)
    BY <1>1, <1>2, <1>5, <1>6, <2>1, KeysFirstIsHandled
  <2> QED
    BY <1>2, <1>3, <1>6, <2>2
<1>8. InputEnabled /\ (\A c \in Callers : at'[c] # "event")
          => MaskWillFollow(Channel', Handed', server'.mask, buttons')
  <2> SUFFICES ASSUME InputEnabled, \A c \in Callers : at'[c] # "event"
               PROVE  MaskWillFollow(Channel', Handed', server'.mask, buttons')
    OBVIOUS
  <2>1. MaskWillFollow(<<m>> \o q, Handed, server.mask, buttons)
    BY <1>1, <1>2, <1>6 DEF Follows, ButtonsFollow
  <2>2. MaskWillFollow(q, Handed, s.mask, buttons)
    BY <1>1, <1>2, <1>5, <1>6, <2>1, MaskFirstIsHandled
  <2> QED
    BY <1>2, <1>3, <1>6, <2>2
<1>9. ~InputEnabled => Spectator'
  <2> SUFFICES ASSUME ~InputEnabled PROVE Spectator'
    OBVIOUS
  <2>1. Spectator
    BY DEF Follows
  <2>2. m.kind = "text" /\ \A i \in 1..Len(q) : q[i].kind = "text"
    <3>1. /\ Len(<<m>> \o q) = Len(q) + 1 /\ (<<m>> \o q)[1] = m
          /\ \A i \in 1..Len(q) : (<<m>> \o q)[i + 1] = q[i]
      BY <1>1, <1>6
    <3>2. \A i \in 1..Len(<<m>> \o q) : (<<m>> \o q)[i].kind = "text"
      BY <1>1, <1>6, <2>1 DEF Spectator
    <3>3. m.kind = "text"
      BY <3>1, <3>2
    <3>4. ASSUME NEW i \in 1..Len(q) PROVE q[i].kind = "text"
      <4>1. i + 1 \in 1..Len(<<m>> \o q) /\ (<<m>> \o q)[i + 1] = q[i]
        BY <3>1
      <4> QED
        BY <3>2, <4>1
    <3> QED
      BY <3>3, <3>4
  <2>3. s.keys = server.keys /\ s.mask = server.mask
    BY <1>1, <1>2, <1>5, <1>6, <2>2, ServerFollows
  <2> QED
    BY <1>3, <1>6, <2>1, <2>2, <2>3 DEF Spectator
<1> QED
  BY <1>4, <1>7, <1>8, <1>9, FollowsNext

(* Nothing was written when the handshake drops what is queued. *)
LEMMA ClearFollows ==
    ASSUME IInv, Follows, Clear PROVE Follows'
<1>1. /\ Channel' = <<>> /\ at["send"] = "none" /\ at'["send"] = "none"
      /\ Channel \in Seq(Messages)
  BY ClearEmpties, ChannelIsSeq
<1>2. /\ server' = server /\ held' = held /\ buttons' = buttons
      /\ \A c \in Callers : at'[c] = at[c] /\ msg'[c] = msg[c]
  BY TasksAreThreads DEF IInv, TypeOK, Clear, Go, inputVars, serverVars
<1>3. Handed' = Handed
  BY <1>2 DEF Handed
<1>4. server.keys = {} /\ server.mask = {}
  BY <1>1 DEF Follows, UntouchedBefore
<1>5. UntouchedBefore'
  BY <1>2, <1>4 DEF UntouchedBefore
<1>6. InputEnabled => KeysWillFollow(Channel', Handed', server'.keys, held')
  <2> SUFFICES ASSUME InputEnabled PROVE KeysWillFollow(<<>>, Handed, {}, held)
    BY <1>1, <1>2, <1>3, <1>4
  <2>1. KeysWillFollow(Channel, Handed, {}, held)
    BY <1>4 DEF Follows, KeysFollow
  <2> QED
    BY <1>1, <2>1, AllAreDropped DEF KeysWillFollow
<1>7. InputEnabled /\ (\A c \in Callers : at'[c] # "event")
          => MaskWillFollow(Channel', Handed', server'.mask, buttons')
  <2> SUFFICES ASSUME InputEnabled, \A c \in Callers : at[c] # "event"
               PROVE  MaskWillFollow(<<>>, Handed, {}, buttons)
    BY <1>1, <1>2, <1>3, <1>4
  <2>1. MaskWillFollow(Channel, Handed, {}, buttons)
    BY <1>4 DEF Follows, ButtonsFollow
  <2>2. Fits({}, buttons) = TRUE
    BY DEF Fits
  <2> QED
    BY <1>1, <2>1, <2>2, AllAreDropped DEF MaskWillFollow
<1>8. ~InputEnabled => Spectator'
  BY <1>1, <1>2, <1>3 DEF Follows, Spectator
<1> QED
  BY <1>5, <1>6, <1>7, <1>8, FollowsNext

-----------------------------------------------------------------------------
(* The caller.  It holds nothing when it is called and where it turns a wheel, so a new
   message is the last one under way.                                                *)
LEMMA KeyEventFollows ==
    ASSUME OneCaller, IInv, Follows, NEW c \in Callers, NEW key \in Keys, NEW down \in BOOLEAN,
           KeyEvent(c, key, down)
    PROVE  Follows'
<1> DEFINE m == KeyMessage(key, down)
<1>1. Channel' = Channel /\ Channel \in Seq(Messages)
  BY CallersLeaveChannel, ChannelIsSeq DEF Caller
<1>2. /\ at[c] = "idle" /\ at'[c] = IF InputEnabled THEN "put" ELSE "idle"
      /\ InputEnabled => msg'[c] = m
      /\ buttons' = buttons /\ server' = server /\ at'["send"] = at["send"]
      /\ held' = IF down THEN held \cup {key} ELSE held \ {key}
  BY TasksAreThreads DEF IInv, TypeOK, KeyEvent, Calls, Go, KeyMessage, serverVars
<1>3. Handed = {} /\ Handed' = IF InputEnabled THEN {m} ELSE {}
  BY <1>2, InHand
<1>4. UntouchedBefore'
  BY <1>2 DEF Follows, UntouchedBefore
<1>5. m \in Messages /\ m.kind = "key"
  BY DEF Messages, KeyMessage
<1>6. ASSUME InputEnabled, NEW k \in Keys, k \notin held'
      PROVE  WillSettle(Channel, {m}, k \notin server.keys,
                        {KeyMessage(k, FALSE)}, {KeyMessage(k, TRUE)})
  <2>1. CASE k = key
    <3>1. m \in {KeyMessage(k, FALSE)}
      BY <1>2, <1>6, <2>1
    <3> QED
      BY <1>1, <1>5, <3>1, TakenInHand
  <2>2. CASE k # key
    <3>1. k \notin held /\ m \notin {KeyMessage(k, TRUE)}
      BY <1>2, <1>6, <2>2 DEF KeyMessage
    <3>2. WillSettle(Channel, {}, k \notin server.keys,
                     {KeyMessage(k, FALSE)}, {KeyMessage(k, TRUE)})
      BY <1>3, <1>6, <3>1 DEF Follows, KeysFollow, KeysWillFollow
    <3> QED
      BY <1>1, <1>5, <3>1, <3>2, TakenInHand
  <2> QED
    BY <2>1, <2>2
<1>7. InputEnabled => KeysWillFollow(Channel', Handed', server'.keys, held')
  BY <1>1, <1>2, <1>3, <1>6 DEF KeysWillFollow
<1>8. InputEnabled => MaskWillFollow(Channel', Handed', server'.mask, buttons')
  <2> SUFFICES ASSUME InputEnabled PROVE MaskWillFollow(Channel, {m}, server.mask, buttons)
    BY <1>1, <1>2, <1>3
  <2>1. MaskWillFollow(Channel, {}, server.mask, buttons)
    BY <1>2, <1>3 DEF Follows, ButtonsFollow, OneCaller
  <2>2. m \notin Pointers(buttons, FALSE)
    BY <1>5 DEF Pointers
  <2>3. Fits(server.mask, buttons) \in BOOLEAN
    BY DEF Fits
  <2> QED
    BY <1>1, <1>5, <2>1, <2>2, <2>3, TakenInHand DEF MaskWillFollow
<1>9. ~InputEnabled => Spectator'
  BY <1>1, <1>2, <1>3 DEF Follows, Spectator
<1> QED
  BY <1>4, <1>7, <1>8, <1>9, FollowsNext

(* Until its event is made, a change of the buttons is nowhere under way. *)
LEMMA PressFollows ==
    ASSUME OneCaller, IInv, Follows, NEW c \in Callers,
           Channel' = Channel, server' = server, held' = held, at'["send"] = at["send"],
           at[c] \in {"idle", "turn"}, at'[c] = "event"
    PROVE  Follows'
<1>1. Handed = {} /\ Handed' = {}
  BY InHand
<1>2. UntouchedBefore'
  BY DEF Follows, UntouchedBefore
<1>3. InputEnabled => KeysWillFollow(Channel', Handed', server'.keys, held')
  BY <1>1 DEF Follows, KeysFollow
<1>4. ~InputEnabled => Spectator'
  BY <1>1 DEF Follows, Spectator
<1> QED
  BY <1>2, <1>3, <1>4, FollowsNext

(* The event carries the buttons as they are. *)
LEMMA EnqueueMouseEventFollows ==
    ASSUME OneCaller, IInv, Follows, NEW c \in Callers, EnqueueMouseEvent(c)
    PROVE  Follows'
<1> DEFINE m == [kind |-> "pointer", mask |-> buttons]
<1>1. Channel' = Channel /\ Channel \in Seq(Messages)
  BY CallersLeaveChannel, ChannelIsSeq
<1>2. /\ at[c] = "event"
      /\ InputEnabled => at'[c] = "put" /\ msg'[c] = m
      /\ ~InputEnabled => at'[c] \in {"release", "idle"}
      /\ buttons' = buttons /\ server' = server /\ at'["send"] = at["send"] /\ held' = held
  BY TasksAreThreads
     DEF IInv, TypeOK, EnqueueMouseEvent, Go, AfterPut, inputVars, serverVars
<1>3. Handed = {} /\ Handed' = IF InputEnabled THEN {m} ELSE {}
  BY <1>2, InHand
<1>4. UntouchedBefore'
  BY <1>2 DEF Follows, UntouchedBefore
<1>5. m \in Messages /\ m.kind = "pointer" /\ m.mask = buttons
  BY DEF IInv, TypeOK, Messages
<1>6. InputEnabled => KeysWillFollow(Channel', Handed', server'.keys, held')
  <2> SUFFICES ASSUME InputEnabled PROVE KeysWillFollow(Channel, {m}, server.keys, held)
    BY <1>1, <1>2, <1>3
  <2>1. KeysWillFollow(Channel, {}, server.keys, held)
    BY <1>3 DEF Follows, KeysFollow
  <2>2. \A key \in Keys : m \notin {KeyMessage(key, TRUE)}
    BY DEF KeyMessage
  <2> QED
    BY <1>1, <1>5, <2>1, <2>2, TakenInHand DEF KeysWillFollow
<1>7. InputEnabled => MaskWillFollow(Channel', Handed', server'.mask, buttons')
  <2> SUFFICES ASSUME InputEnabled PROVE MaskWillFollow(Channel, {m}, server.mask, buttons)
    BY <1>1, <1>2, <1>3
  <2>1. m \in Pointers(buttons, TRUE)
    BY <1>5 DEF Pointers, Fits
  <2>2. Fits(server.mask, buttons) \in BOOLEAN
    BY DEF Fits
  <2> QED
    BY <1>1, <1>5, <2>1, <2>2, TakenInHand DEF MaskWillFollow
<1>8. ~InputEnabled => Spectator'
  BY <1>1, <1>2, <1>3 DEF Follows, Spectator
<1> QED
  BY <1>4, <1>6, <1>7, <1>8, FollowsNext

(* The release of a wheel changes nothing that counts. *)
LEMMA ReleaseFollows ==
    ASSUME OneCaller, IInv, Follows, NEW c \in Callers, Release(c)
    PROVE  Follows'
<1> DEFINE w == wheel[c].turns
<1>1. Channel' = Channel
  BY CallersLeaveChannel
<1>2. /\ at[c] = "release" /\ at'[c] = "turn" /\ buttons' = buttons \ {w}
      /\ server' = server /\ at'["send"] = at["send"] /\ held' = held
  BY TasksAreThreads DEF IInv, TypeOK, Release, Go, serverVars
<1>3. w \in Wheels
  BY <1>2 DEF IInv, TypeOK, WheelsTurn, NoTurn
<1>4. Handed = {} /\ Handed' = {}
  BY <1>2, InHand
<1>5. UntouchedBefore'
  BY <1>2 DEF Follows, UntouchedBefore
<1>6. InputEnabled => KeysWillFollow(Channel', Handed', server'.keys, held')
  BY <1>1, <1>2, <1>4 DEF Follows, KeysFollow
<1>7. InputEnabled => MaskWillFollow(Channel', Handed', server'.mask, buttons')
  <2> SUFFICES ASSUME InputEnabled
               PROVE  MaskWillFollow(Channel, {}, server.mask, buttons \ {w})
    BY <1>1, <1>2, <1>4
  <2>1. MaskWillFollow(Channel, {}, server.mask, buttons)
    BY <1>2, <1>4 DEF Follows, ButtonsFollow, OneCaller
  <2> HIDE DEF w
  <2> QED
    BY <1>3, <2>1, WheelsDoNotCount DEF MaskWillFollow
<1>8. ~InputEnabled => Spectator'
  BY <1>1, <1>2, <1>4 DEF Follows, Spectator
<1> QED
  BY <1>5, <1>6, <1>7, <1>8, FollowsNext

LEMMA CallerFollows ==
    ASSUME OneCaller, IInv, Follows, NEW c \in Callers,
           Caller(c) \/ Turn(c) \/ Release(c) \/ Turned(c) \/ EnqueueMouseEvent(c) \/ Put(c)
    PROVE  Follows'
<1>1. Channel' = Channel
  BY CallersLeaveChannel
<1> USE TasksAreThreads
    DEF IInv, TypeOK, Go, Calls, Happens, queueVars, inputVars, serverVars
<1>2. CASE MouseMove(c) \/ \E b \in Buttons, d \in BOOLEAN : MouseButton(c, b, d)
  <2>1. /\ server' = server /\ held' = held /\ at'["send"] = at["send"]
        /\ at[c] = "idle" /\ at'[c] = "event"
    BY <1>2 DEF MouseMove, MouseButton
  <2> QED
    BY <1>1, <2>1, PressFollows
<1>3. CASE Turn(c)
  <2>1. /\ server' = server /\ held' = held /\ at'["send"] = at["send"]
        /\ at[c] = "turn" /\ at'[c] = "event"
    BY <1>3 DEF Turn
  <2> QED
    BY <1>1, <2>1, PressFollows
<1>4. CASE Turned(c) \/ Put(c) \/ \E w \in Wheels, n \in 0..MaxSteps : MouseWheel(c, w, n)
  <2>1. /\ server' = server /\ held' = held /\ buttons' = buttons
        /\ at'["send"] = at["send"]
    BY <1>4 DEF Turned, Put, MouseWheel
  <2>2. \/ at[c] = "turn" /\ at'[c] = "idle"
        \/ at[c] = "put" /\ at'[c] = "store" /\ msg'[c] = msg[c]
        \/ at[c] = "idle" /\ at'[c] = "turn"
    BY <1>4 DEF Turned, Put, MouseWheel
  <2>3. Handed' = Handed
    BY <2>2, InHand
  <2>4. \A d \in Callers : at[d] # "event"
    BY <2>2 DEF OneCaller
  <2> QED
    BY <1>1, <2>1, <2>3, <2>4, FollowsStays
<1>5. CASE Release(c)
  BY <1>5, ReleaseFollows
<1>6. CASE EnqueueMouseEvent(c)
  BY <1>6, EnqueueMouseEventFollows
<1>7. CASE \E key \in Keys, down \in BOOLEAN : KeyEvent(c, key, down)
  BY <1>7, KeyEventFollows
<1> QED
  BY <1>2, <1>3, <1>4, <1>5, <1>6, <1>7 DEF Caller

LEMMA InitFollows == Init => Follows
<1> SUFFICES ASSUME Init PROVE Follows
  OBVIOUS
<1>1. /\ at["send"] = "none" /\ list = <<>> /\ \A c \in Callers : at[c] = "idle"
      /\ server.keys = {} /\ server.mask = {}
  BY TasksAreThreads DEF Init
<1>2. Channel = <<>> /\ Handed = {}
  BY <1>1 DEF Channel, Handed
<1>3. \A good, bad : WillSettle(<<>>, {}, TRUE, good, bad)
  BY DEF WillSettle, Settled
<1>4. KeysFollow
  BY <1>1, <1>2, <1>3 DEF KeysFollow, KeysWillFollow
<1>5. ButtonsFollow
  <2>1. Fits({}, buttons) = TRUE
    BY DEF Fits
  <2> QED
    BY <1>1, <1>2, <1>3, <2>1 DEF ButtonsFollow, MaskWillFollow
<1>6. UntouchedBefore /\ Spectator
  BY <1>1, <1>2 DEF UntouchedBefore, Spectator
<1> QED
  BY <1>4, <1>5, <1>6 DEF Follows

LEMMA StepFollows ==
    ASSUME ~Overlap, OneCaller, IInv, Follows, [Next]_vars PROVE Follows'
<1>1. CASE UNCHANGED vars
  BY <1>1, SameChannel, FollowsStays DEF vars, Handed
<1> QED
  BY <1>1, Steps, StoreFollows, StoreTextFollows, WriteFollows, ClearFollows,
     BackgroundFollows, CallerFollows

LEMMA QuietFollows == IInv /\ Follows => NothingStuck
<1> SUFFICES ASSUME IInv, Follows, Quiet
             PROVE  server.keys \subseteq held /\ server.mask \ Wheels \subseteq buttons
  BY DEF NothingStuck
<1>1. Channel = <<>> /\ Handed = {} /\ \A c \in Callers : at[c] # "event"
  BY DEF Quiet, Channel, Handed
<1>2. CASE InputEnabled
  <2>1. \A key \in Keys \ held : key \notin server.keys
    BY <1>1, <1>2, NothingUnderWay DEF Follows, KeysFollow, KeysWillFollow
  <2>2. Fits(server.mask, buttons)
    <3>1. Fits(server.mask, buttons) \in BOOLEAN
      BY DEF Fits
    <3> QED
      BY <1>1, <1>2, <3>1, NothingUnderWay DEF Follows, ButtonsFollow, MaskWillFollow
  <2> QED
    BY <2>1, <2>2 DEF Fits, IInv, TypeOK
<1>3. CASE ~InputEnabled
  BY <1>3 DEF Follows, Spectator
<1> QED
  BY <1>2, <1>3, InputAssumption

(* One thread calls the input API and the operations on the queue do not overlap: then
   no key and no button stays pressed on the server that the owner has let go of, in
   whatever order it types, clicks and turns wheels, before, during and after the
   handshake, and whatever the clipboard and the end of the connection do meanwhile.  *)
THEOREM NothingStaysPressed == OneCaller /\ ~Overlap => (SafeSpec => []NothingStuck)
<1> SUFFICES ASSUME OneCaller, ~Overlap PROVE SafeSpec => []NothingStuck
  OBVIOUS
<1>1. IInv /\ Follows /\ [Next]_vars => Follows'
  BY StepFollows
<1>2. IInv /\ Follows => NothingStuck
  BY QuietFollows
<1> QED
  BY <1>1, <1>2, InitFollows, Invariant, PTL DEF SafeSpec
=============================================================================
