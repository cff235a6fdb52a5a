----------------------------- MODULE ClientInput -----------------------------
(***************************************************************************)
(* What the client sends on its own account: keys, pointer events and the  *)
(* text of the clipboard.  The owner's threads and the clipboard monitor's *)
(* timer put messages into clientToServerMessageQueue, the send Task takes *)
(* them out, the handshake empties it.  The queue is a struct over an      *)
(* array without a lock, so an operation on it is two steps here: the      *)
(* array is read, and the changed array is stored.                         *)
(*                                                                         *)
(* Positions of the pointer are left out.  The server handles a message    *)
(* when it is written, which TCP's order makes the same as later.          *)
(***************************************************************************)
EXTENDS Naturals, Sequences

CONSTANTS
    Callers,            \* threads on which the owner calls the input API
    Keys, Buttons, Wheels,
    Texts, NoText,      \* NoText: the clipboard holds something else
    InputEnabled,       \* settings.inputMode is not .none
    ClipboardEnabled,   \* settings.isClipboardRedirectionEnabled
    Overlap,            \* two operations on the queue may overlap: there is no lock
    MaxSteps,           \* bound on the steps of one turn of the wheel
    MaxEvents           \* bound on what happens outside: calls of the input API, local
                        \* changes of the clipboard and ServerCutText messages together

Tasks == {"send", "receive", "handshake", "main", "ender"}

ASSUME InputAssumption ==
    /\ Callers \cap Tasks = {}
    /\ Buttons \cap Wheels = {}
    /\ NoText \notin Texts
    /\ {InputEnabled, ClipboardEnabled, Overlap} \subseteq BOOLEAN
    /\ {MaxSteps, MaxEvents} \subseteq Nat

VARIABLES
    list,        \* the array inside clientToServerMessageQueue
    at,          \* where each thread is
    copy,        \* the array as a thread read it, when it is about to store
    msg,         \* the message a thread is about to put in, or to write
    buttons,     \* VNCConnection.mouseButtonState
    held,        \* the keys for which the owner called keyDown last
    wheel,       \* per caller: the wheel it turns and how many steps are left
    events,      \* calls, local copies and texts of the server so far
    status,      \* connectionState.status
    clipboard,   \* the pasteboard: its text, its change count, who wrote it
    setting,     \* the change count after clearContents() in the text setter
    monitor,     \* VNCClipboardMonitor: timer, block on the main queue, lastChangeCount
    lateTexts,   \* texts put into the queue while the status was not .connected
    toClient,    \* ServerCutText messages on the wire
    server       \* what the server believes: keys and buttons down, its clipboard

vars == <<list, at, copy, msg, buttons, held, wheel, events, status, clipboard,
          setting, monitor, lateTexts, toClient, server>>

queueVars  == <<list, copy, msg>>
inputVars  == <<buttons, held, wheel, events>>
clipVars   == <<clipboard, setting, monitor, lateTexts>>
serverVars == <<toClient, server>>

Threads == Callers \cup Tasks

Messages == [kind : {"key"}, key : Keys, down : BOOLEAN]
            \cup [kind : {"pointer"}, mask : SUBSET (Buttons \cup Wheels)]
            \cup [kind : {"text"}, text : Texts]
NoMessage == [kind |-> "none"]
NoTurn    == [left |-> 0]

Labels == {"none", "idle", "done",
           "event", "turn", "release",                          \* callers
           "text",                                              \* the timer
           "put", "store", "take", "write",                     \* the queue
           "set",                                               \* receive
           "clear", "connected", "start", "loops",              \* handshake
           "disconnecting", "disconnected"}                     \* ender

Statuses == {"connecting", "connected", "disconnecting", "disconnected"}

TypeOK ==
    /\ list \in Seq(Messages)
    /\ at \in [Threads -> Labels]
    /\ copy \in [Threads -> Seq(Messages)]
    /\ msg \in [Threads -> Messages \cup {NoMessage}]
    /\ buttons \subseteq Buttons \cup Wheels
    /\ held \subseteq Keys
    /\ wheel \in [Callers -> [turns : Wheels, left : 0..MaxSteps] \cup {NoTurn}]
    /\ events \in 0..MaxEvents
    /\ status \in Statuses
    /\ clipboard \in [text : Texts \cup {NoText}, count : Nat \ {0}, local : BOOLEAN]
    /\ setting \in Nat
    /\ monitor \in [timer : BOOLEAN, posted : BOOLEAN, last : Nat]
    /\ lateTexts \in Nat
    /\ toClient \in Seq(Texts)
    /\ server \in [keys : SUBSET Keys, mask : SUBSET (Buttons \cup Wheels), text : Texts \cup {NoText}]

(* The change count starts at 1, so that lastChangeCount = changeCount - 1 is a number;
   the clipboard may hold a text from before the connection.                           *)
Init ==
    /\ list = <<>>
    /\ at = [t \in Threads |-> CASE t \in Callers \cup {"main", "ender"} -> "idle"
                                 [] t = "handshake" -> "clear"
                                 [] OTHER -> "none"]
    /\ copy = [t \in Threads |-> <<>>]
    /\ msg = [t \in Threads |-> NoMessage]
    /\ buttons = {} /\ held = {} /\ events = 0
    /\ wheel = [c \in Callers |-> NoTurn]
    /\ status = "connecting"
    /\ \E text \in Texts \cup {NoText} :
        clipboard = [text |-> text, count |-> 1, local |-> TRUE]
    /\ setting = 0
    /\ monitor = [timer |-> FALSE, posted |-> FALSE, last |-> 0]
    /\ lateTexts = 0
    /\ toClient = <<>>
    /\ server = [keys |-> {}, mask |-> {}, text |-> NoText]

Happens == events < MaxEvents /\ events' = events + 1

Go(t, from, to) == at[t] = from /\ at' = [at EXCEPT ![t] = to]

-----------------------------------------------------------------------------
(***************************************************************************)
(* The queue.  Overlap = FALSE is the queue its users imagine, in which an *)
(* operation that has begun is not disturbed.                              *)
(***************************************************************************)
Accessing(t) == at[t] \in {"store", "take"}
MayAccess(t) == Overlap \/ \A u \in Threads \ {t} : ~Accessing(u)

(* Where a thread goes on when enqueue returns. *)
AfterPut(t) ==
    IF t \in Callers /\ wheel[t] # NoTurn THEN "release" ELSE "idle"

Put(t) ==
    /\ MayAccess(t)
    /\ Go(t, "put", "store")
    /\ copy' = [copy EXCEPT ![t] = list]
    /\ UNCHANGED <<list, msg, inputVars, status, clipVars, serverVars>>

StoreMutant(t) ==
    /\ Go(t, "store", AfterPut(t))
    /\ list' = <<msg[t]>> \o copy[t]
    /\ copy' = [copy EXCEPT ![t] = <<>>]
    /\ msg' = [msg EXCEPT ![t] = NoMessage]
    /\ UNCHANGED <<inputVars, status, clipVars, serverVars>>

Store(t) ==
    /\ Go(t, "store", AfterPut(t))
    /\ list' = Append(copy[t], msg[t])
    /\ copy' = [copy EXCEPT ![t] = <<>>]
    /\ msg' = [msg EXCEPT ![t] = NoMessage]
    /\ lateTexts' = IF msg[t].kind = "text" /\ status # "connected"
                    THEN lateTexts + 1 ELSE lateTexts
    /\ UNCHANGED <<inputVars, status, clipboard, setting, monitor, serverVars>>

Take ==
    /\ MayAccess("send") /\ list # <<>>
    /\ Go("send", "idle", "take")
    /\ copy' = [copy EXCEPT !["send"] = list]
    /\ UNCHANGED <<list, msg, inputVars, status, clipVars, serverVars>>

RemoveFirst ==
    /\ Go("send", "take", "write")
    /\ list' = Tail(copy["send"])
    /\ msg' = [msg EXCEPT !["send"] = Head(copy["send"])]
    /\ copy' = [copy EXCEPT !["send"] = <<>>]
    /\ UNCHANGED <<inputVars, status, clipVars, serverVars>>

(* sendMessage: the server takes over what the message says. *)
Handled(m) ==
    CASE m.kind = "key"     -> [server EXCEPT !.keys = IF m.down THEN @ \cup {m.key}
                                                                 ELSE @ \ {m.key}]
      [] m.kind = "pointer" -> [server EXCEPT !.mask = m.mask]
      [] m.kind = "text"    -> [server EXCEPT !.text = m.text]

Write ==
    /\ Go("send", "write", "idle")
    /\ server' = Handled(msg["send"])
    /\ msg' = [msg EXCEPT !["send"] = NoMessage]
    /\ UNCHANGED <<list, copy, inputVars, status, clipVars, toClient>>

(* The while condition of the send loop, once the end was requested. *)
SendEnds ==
    /\ at["ender"] # "idle"
    /\ Go("send", "idle", "done")
    /\ UNCHANGED <<queueVars, inputVars, status, clipVars, serverVars>>

(* receiveServerInit: queued input is dropped. *)
Clear ==
    /\ MayAccess("handshake")
    /\ Go("handshake", "clear", "connected")
    /\ list' = <<>>
    /\ UNCHANGED <<copy, msg, inputVars, status, clipVars, serverVars>>

-----------------------------------------------------------------------------
(***************************************************************************)
(* The input API, on the owner's threads.  A pointer event carries all     *)
(* buttons, as they are when the event is made, which is not when they     *)
(* were changed.  The owner presses what is up and releases what is down.  *)
(***************************************************************************)
Calls(c, to) == Happens /\ Go(c, "idle", to)

KeyEvent(c, key, down) ==
    /\ down = (key \notin held)
    /\ Calls(c, IF InputEnabled THEN "put" ELSE "idle")
    /\ msg' = IF InputEnabled
              THEN [msg EXCEPT ![c] = [kind |-> "key", key |-> key, down |-> down]]
              ELSE msg
    /\ held' = IF down THEN held \cup {key} ELSE held \ {key}
    /\ UNCHANGED <<list, copy, buttons, wheel, status, clipVars, serverVars>>

MouseMove(c) ==
    /\ Calls(c, "event")
    /\ UNCHANGED <<queueVars, buttons, held, wheel, status, clipVars, serverVars>>

MouseButtonMutant(c, button, down) ==
    /\ down = (button \notin buttons)
    /\ Calls(c, "put")
    /\ msg' = [msg EXCEPT ![c] = [kind |-> "pointer", mask |-> buttons]]
    /\ buttons' = IF down THEN buttons \cup {button} ELSE buttons \ {button}
    /\ UNCHANGED <<list, copy, held, wheel, status, clipVars, serverVars>>

MouseButton(c, button, down) ==
    /\ down = (button \notin buttons)
    /\ Calls(c, "event")
    /\ buttons' = IF down THEN buttons \cup {button} ELSE buttons \ {button}
    /\ UNCHANGED <<queueVars, held, wheel, status, clipVars, serverVars>>

MouseWheel(c, w, steps) ==
    /\ Calls(c, "turn")
    /\ wheel' = [wheel EXCEPT ![c] = [turns |-> w, left |-> steps]]
    /\ UNCHANGED <<queueVars, buttons, held, status, clipVars, serverVars>>

TurnMutant(c) ==
    /\ wheel[c].left >= 0
    /\ Go(c, "turn", "event")
    /\ buttons' = buttons \cup {wheel[c].turns}
    /\ UNCHANGED <<queueVars, held, wheel, events, status, clipVars, serverVars>>

Turn(c) ==
    /\ wheel[c].left > 0
    /\ Go(c, "turn", "event")
    /\ buttons' = buttons \cup {wheel[c].turns}
    /\ UNCHANGED <<queueVars, held, wheel, events, status, clipVars, serverVars>>

(* No event is made for the release: the next pointer event tells the server. *)
Release(c) ==
    /\ Go(c, "release", "turn")
    /\ buttons' = buttons \ {wheel[c].turns}
    /\ wheel' = [wheel EXCEPT ![c].left = @ - 1]
    /\ UNCHANGED <<queueVars, held, events, status, clipVars, serverVars>>

Turned(c) ==
    /\ wheel[c].left = 0
    /\ Go(c, "turn", "idle")
    /\ wheel' = [wheel EXCEPT ![c] = NoTurn]
    /\ UNCHANGED <<queueVars, buttons, held, events, status, clipVars, serverVars>>

EnqueueMouseEvent(c) ==
    /\ Go(c, "event", IF InputEnabled THEN "put" ELSE AfterPut(c))
    /\ msg' = IF InputEnabled
              THEN [msg EXCEPT ![c] = [kind |-> "pointer", mask |-> buttons]]
              ELSE msg
    /\ UNCHANGED <<list, copy, inputVars, status, clipVars, serverVars>>

Caller(c) ==
    \/ \E key \in Keys, down \in BOOLEAN : KeyEvent(c, key, down)
    \/ MouseMove(c)
    \/ \E b \in Buttons, down \in BOOLEAN : MouseButton(c, b, down)
    \/ \E w \in Wheels, n \in 0..MaxSteps : MouseWheel(c, w, n)

Proceeds(c) ==
    Turn(c) \/ Release(c) \/ Turned(c) \/ EnqueueMouseEvent(c) \/ Put(c) \/ Store(c)

-----------------------------------------------------------------------------
(***************************************************************************)
(* The clipboard.  The timer is created in a block on the main queue, so   *)
(* it may come to life after stopMonitoring.  The monitor runs on Apple's  *)
(* platforms only.                                                         *)
(***************************************************************************)
MainQueueBlock ==
    /\ at["main"] = "idle" /\ monitor.posted
    /\ monitor' = [monitor EXCEPT !.posted = FALSE, !.timer = TRUE]
    /\ UNCHANGED <<at, queueVars, inputVars, status, clipboard, setting, lateTexts, serverVars>>

(* clipboardMonitorShouldMonitor. *)
ShouldMonitorMutant == TRUE
ShouldMonitor == status = "connected"

TimerDidFire ==
    /\ monitor.timer /\ ShouldMonitor
    /\ clipboard.count # monitor.last
    /\ Go("main", "idle", "text")
    /\ monitor' = [monitor EXCEPT !.last = clipboard.count]
    /\ UNCHANGED <<queueVars, inputVars, status, clipboard, setting, lateTexts, serverVars>>

ReadText ==
    /\ Go("main", "text", IF clipboard.text = NoText THEN "idle" ELSE "put")
    /\ msg' = IF clipboard.text = NoText
              THEN msg
              ELSE [msg EXCEPT !["main"] = [kind |-> "text", text |-> clipboard.text]]
    /\ UNCHANGED <<list, copy, inputVars, status, clipVars, serverVars>>

(* handleServerCutText.  The setter clears the pasteboard, which counts as a change,
   and then puts the text in, unless somebody else has taken the pasteboard over.   *)
ReceiveCutText ==
    /\ toClient # <<>>
    /\ IF ClipboardEnabled
       THEN /\ Go("receive", "idle", "set")
            /\ clipboard' = [text |-> NoText, count |-> clipboard.count + 1, local |-> FALSE]
            /\ setting' = clipboard.count + 1
            /\ UNCHANGED toClient
       ELSE /\ at["receive"] = "idle" /\ toClient' = Tail(toClient)
            /\ UNCHANGED <<at, clipboard, setting>>
    /\ UNCHANGED <<queueVars, inputVars, status, monitor, lateTexts, server>>

SetText ==
    /\ Go("receive", "set", "idle")
    /\ clipboard' = IF clipboard.count = setting
                    THEN [clipboard EXCEPT !.text = Head(toClient)] ELSE clipboard
    /\ toClient' = Tail(toClient)
    /\ UNCHANGED <<queueVars, inputVars, status, setting, monitor, lateTexts, server>>

ReceiveEnds ==
    /\ at["ender"] # "idle"
    /\ Go("receive", "idle", "done")
    /\ UNCHANGED <<queueVars, inputVars, status, clipVars, serverVars>>

Main    == MainQueueBlock \/ TimerDidFire \/ ReadText
           \/ Put("main") \/ Store("main")
Receive == ReceiveCutText \/ SetText \/ ReceiveEnds
Send    == Take \/ RemoveFirst \/ Write \/ SendEnds

-----------------------------------------------------------------------------
(***************************************************************************)
(* updateConnectionState, run by the handshake Task and by the thread that *)
(* ends the connection, starts and stops the monitor.                      *)
(***************************************************************************)
(* stopMonitoring; then lastChangeCount, one less than the change count, so that what
   is there already is sent; then the block for the main queue, which the end of the
   connection does not take back.                                                    *)
StartMonitoringMutant ==
    /\ Go("handshake", "start", "loops")
    /\ monitor' = IF ClipboardEnabled
                  THEN [timer |-> FALSE, posted |-> TRUE, last |-> clipboard.count]
                  ELSE monitor
    /\ UNCHANGED <<queueVars, inputVars, status, clipboard, setting, lateTexts, serverVars>>

StartMonitoring ==
    /\ Go("handshake", "start", "loops")
    /\ monitor' = IF ClipboardEnabled
                  THEN [timer |-> FALSE, posted |-> TRUE, last |-> clipboard.count - 1]
                  ELSE monitor
    /\ UNCHANGED <<queueVars, inputVars, status, clipboard, setting, lateTexts, serverVars>>

StartLoops ==
    /\ at["handshake"] = "loops"
    /\ at' = [at EXCEPT !["handshake"] = "done", !["receive"] = "idle", !["send"] = "idle"]
    /\ UNCHANGED <<queueVars, inputVars, status, clipVars, serverVars>>

BecomeConnected ==
    /\ Go("handshake", "connected", "start")
    /\ status' = "connected"
    /\ UNCHANGED <<queueVars, inputVars, clipVars, serverVars>>

Handshake == Clear \/ BecomeConnected \/ StartMonitoring \/ StartLoops

RequestEnd ==
    /\ Go("ender", "idle", "disconnecting")
    /\ UNCHANGED <<queueVars, inputVars, status, clipVars, serverVars>>

(* The status is stored and the monitor stopped. *)
EndsWith(newStatus, to) ==
    /\ Go("ender", newStatus, to)
    /\ status' = newStatus
    /\ monitor' = IF ClipboardEnabled
                  THEN [monitor EXCEPT !.timer = FALSE, !.last = 0] ELSE monitor
    /\ UNCHANGED <<queueVars, inputVars, clipboard, setting, lateTexts, serverVars>>

Ender == EndsWith("disconnecting", "disconnected") \/ EndsWith("disconnected", "done")

-----------------------------------------------------------------------------
(***************************************************************************)
(* Other programs and the server copy text.                                *)
(***************************************************************************)
CopyLocally ==
    /\ Happens
    /\ \E text \in Texts \cup {NoText} :
        clipboard' = [text |-> text, count |-> clipboard.count + 1, local |-> TRUE]
    /\ UNCHANGED <<at, queueVars, buttons, held, wheel, status, setting, monitor, lateTexts, serverVars>>

ServerCopies ==
    /\ Happens
    /\ \E text \in Texts :
        /\ server' = [server EXCEPT !.text = text]
        /\ toClient' = Append(toClient, text)
    /\ UNCHANGED <<at, queueVars, buttons, held, wheel, status, clipVars>>

-----------------------------------------------------------------------------
Next ==
    \/ \E c \in Callers : Caller(c) \/ Proceeds(c)
    \/ Main \/ Receive \/ Send \/ Handshake \/ RequestEnd \/ Ender
    \/ CopyLocally \/ ServerCopies

(* Nobody has to type, copy or disconnect; whatever was begun goes on, the main
   queue runs its blocks and the timer fires again and again.                  *)
Fairness ==
    /\ \A c \in Callers : WF_vars(Proceeds(c))
    /\ WF_vars(Main) /\ WF_vars(Receive) /\ WF_vars(Send)
    /\ WF_vars(Handshake) /\ WF_vars(Ender)

SafeSpec == Init /\ [][Next]_vars
Spec == SafeSpec /\ Fairness
-----------------------------------------------------------------------------
(***************************************************************************)
(* Properties.                                                             *)
(***************************************************************************)

(* What was put in and is not written yet, in the order the server will see it. *)
Channel == IF at["send"] = "write" THEN <<msg["send"]>> \o list ELSE list
Fifo == INSTANCE FifoChannel WITH channel <- Channel, Messages <- Messages

(* If its operations did not overlap, the queue and the send loop would be a FIFO
   channel, whatever threads put messages in and whenever the handshake clears it:
   the message in the send Task's hands, between its awaits, is part of it.        *)
ImplementsChannel == Fifo!Spec

(* Nobody is about to put anything in, nothing is queued, nothing is being written. *)
Quiet ==
    /\ \A c \in Callers : at[c] = "idle"
    /\ list = <<>> /\ at["send"] \in {"none", "idle"}

(* USAGE.md tells the owner to follow each keyDown by a keyUp and each button down by
   a button up, so that nothing stays pressed: when all input has been sent, what the
   server believes to be down is down.  (A wheel is released by the next event.)     *)
NothingStuck ==
    Quiet => server.keys \subseteq held /\ server.mask \ Wheels \subseteq buttons

(* A timer may outlive stopMonitoring, because it is created later on the main queue,
   but it stays silent: while the status is not .connected at most the text the timer
   was busy with is put into the queue.  (A late .connected starts the monitor again,
   see VNCConnection; the property says nothing of the time after it.)                *)
SilentAfterEnd == lateTexts <= 1

(* What the user copies on this side gets to the server, or is replaced by something
   newer: no change falls between the reading of the change count and of the text, or
   between the start of the monitor and its first timer.                             *)
CopiedTextArrives ==
    ClipboardEnabled =>
    \A text \in Texts :
        (clipboard.local /\ clipboard.text = text)
        ~> (server.text = text \/ clipboard.text # text \/ at["ender"] # "idle")
=============================================================================
