------------------------------ MODULE UpdateFlow ------------------------------
(***************************************************************************)
(* How framebuffer updates keep flowing.  A VNC server sends an update     *)
(* when it was asked for one, so the client has to ask again after every   *)
(* update, and it has to ask for everything (a non-incremental request)    *)
(* whenever it has a new, empty framebuffer.  Two threads replace the      *)
(* framebuffer: the receive Task when the desktop changes its size, and    *)
(* the owner when it calls updateColorDepth.                               *)
(*                                                                         *)
(* The model starts when the loops start and ends the connection when a    *)
(* framebuffer cannot be allocated or the stream makes no sense any more.  *)
(* A desktop is its size; the pixels are reduced to whether the            *)
(* framebuffer shows the whole desktop.                                    *)
(* The server is a well-behaved one, described by what src/ expects of it. *)
(***************************************************************************)
EXTENDS Naturals, Sequences

CONSTANTS
    Sizes,             \* sizes a desktop can have, ordered
    Depths,            \* colour depths the owner can choose
    FirstSize, FirstDepth,
    RequestUpdates,    \* settings.requestFramebufferUpdates
    MaxResizes,        \* bound on changes of the desktop's size
    MaxDepthChanges,   \* bound on calls of updateColorDepth
    EndsOfCU,          \* number of EndOfContinuousUpdates messages the server sends
    Overlap            \* an enqueue and a dequeue may overlap: the queue has no lock

ASSUME FlowAssumption ==
    /\ Sizes \subseteq Nat \ {0} /\ FirstSize \in Sizes
    /\ FirstDepth \in Depths
    /\ RequestUpdates \in BOOLEAN
    /\ MaxResizes \in Nat /\ MaxDepthChanges \in Nat /\ EndsOfCU \in Nat
    /\ Overlap \in BOOLEAN

VARIABLES
    framebuffer,   \* VNCConnection.framebuffer
    painted,       \* it has shown the whole desktop since it was created
    state,         \* the fields of VNCConnection.State about updates
    reader,        \* the receive Task: where it is, and its local variables
    owner,         \* the thread that calls updateColorDepth, likewise
    queue,         \* SetPixelFormat messages in clientToServerMessageQueue
    sender,        \* the send Task: where it is, and its local variables
    toServer, toClient,   \* what is on the wire
    server

sending == <<queue, sender>>

vars == <<framebuffer, painted, state, reader, owner, sending, toServer, toClient, server>>

(* told: its screens came from the server, so they are not the default screen. *)
Framebuffers == [size : Sizes, depth : Depths, told : BOOLEAN]

Rects == [kind : {"frame"}, size : Sizes, all : BOOLEAN, depth : Depths]
         \cup [kind : {"resize"}, size : Sizes]

Updates     == [kind : {"update"}, rects : Seq(Rects)]
EndMessages == [kind : {"end"}]
Requests    == [kind : {"request"}, full : BOOLEAN, size : Sizes]
DepthMessages == [kind : {"depth"}, depth : Depths]

TypeOK ==
    /\ framebuffer \in Framebuffers
    /\ painted \in BOOLEAN
    /\ state \in [incremental : BOOLEAN, cuSupported : BOOLEAN, cuEnabled : BOOLEAN,
                  disconnectRequested : BOOLEAN]
    /\ reader \in [at : {"read", "rects", "recreate", "request", "write", "written", "lost"},
                   held : Framebuffers,   \* the framebuffer the update is decoded into
                   attached : BOOLEAN,    \* it still has its delegate: it is the current one
                   rects : Seq(Rects),    \* rectangles of the update not decoded yet
                   full : BOOLEAN,        \* the request it writes is non-incremental
                   size : Sizes]          \* and covers this size
    /\ owner \in [at : {"idle", "store", "reset", "replace"}, new : Framebuffers,
                  copy : Seq(Depths),    \* the queue with its message
                  changes : 0..MaxDepthChanges]
    /\ queue \in Seq(Depths)
    /\ sender \in [at : {"idle", "store", "write"}, depth : Depths,
                   rest : Seq(Depths)]   \* the queue without the message
    /\ toServer \in Seq(Requests \cup DepthMessages)
    /\ toClient \in Seq(Updates \cup EndMessages)
    /\ server \in [desktop : Sizes, depth : Depths,
                   announced : BOOLEAN,       \* the client was sent the desktop's size
                   wants : BOOLEAN,           \* a request is not answered
                   owed : Sizes \cup {0},     \* size of the non-incremental ones among them
                   resizes : 0..MaxResizes, ends : 0..EndsOfCU]

Request(full, size) == [kind |-> "request", full |-> full, size |-> size]

Init ==
    LET first == [size |-> FirstSize, depth |-> FirstDepth, told |-> FALSE] IN
    /\ framebuffer = first
    /\ painted = FALSE
    /\ state = [incremental |-> RequestUpdates, cuSupported |-> FALSE, cuEnabled |-> FALSE,
                disconnectRequested |-> FALSE]
    /\ reader = [at |-> "read", held |-> first, attached |-> TRUE, rects |-> <<>>,
                 full |-> FALSE, size |-> FirstSize]
    /\ owner = [at |-> "idle", new |-> first, copy |-> <<>>, changes |-> 0]
    /\ queue = <<>>
    /\ sender = [at |-> "idle", depth |-> FirstDepth, rest |-> <<>>]
    /\ toServer = IF RequestUpdates THEN <<Request(TRUE, FirstSize)>> ELSE <<>>
    /\ toClient = <<>>
    /\ \E announced \in BOOLEAN :      \* some servers describe their screens at the start
        server = [desktop |-> FirstSize, depth |-> FirstDepth, announced |-> announced,
                  wants |-> FALSE, owed |-> 0, resizes |-> 0, ends |-> 0]

-----------------------------------------------------------------------------
(***************************************************************************)
(* recreateFramebuffer.  The flag is cleared first, then the framebuffer   *)
(* is allocated, and only then does it replace the current one, which      *)
(* loses its delegate.  Both threads run it, without a lock.               *)
(***************************************************************************)
ResetIncrementalMutant == UNCHANGED state
ResetIncremental == state' = [state EXCEPT !.incremental = FALSE]

Replace(new) ==
    /\ framebuffer' = new
    /\ painted' = FALSE

-----------------------------------------------------------------------------
(***************************************************************************)
(* The receive Task.                                                       *)
(***************************************************************************)
(* The loop ends once the end is requested, but not in the middle of an update. *)
ReadUpdate ==
    /\ reader.at = "read" /\ ~state.disconnectRequested
    /\ toClient # <<>> /\ Head(toClient).kind = "update"
    /\ reader' = [reader EXCEPT !.at = "rects", !.held = framebuffer, !.attached = TRUE,
                                !.rects = Head(toClient).rects]
    /\ toClient' = Tail(toClient)
    /\ UNCHANGED <<framebuffer, painted, state, owner, sending, toServer, server>>

(* The first EndOfContinuousUpdates says the server supports them, a later one
   that it stopped.  EnableContinuousUpdates is never sent.                   *)
ReadEndMutant ==
    /\ reader.at = "read" /\ ~state.disconnectRequested
    /\ toClient # <<>> /\ Head(toClient).kind = "end"
    /\ state' = [state EXCEPT !.cuSupported = TRUE, !.cuEnabled = ~state.cuSupported]
    /\ toClient' = Tail(toClient)
    /\ UNCHANGED <<framebuffer, painted, reader, owner, sending, toServer, server>>

ReadEnd ==
    /\ reader.at = "read" /\ ~state.disconnectRequested
    /\ toClient # <<>> /\ Head(toClient).kind = "end"
    /\ state' = [state EXCEPT !.cuSupported = TRUE, !.cuEnabled = ~state.cuSupported]
    /\ reader' = [reader EXCEPT !.at = IF state.cuSupported THEN "request" ELSE "read"]
    /\ toClient' = Tail(toClient)
    /\ UNCHANGED <<framebuffer, painted, owner, sending, toServer, server>>

NextIs(kind) ==
    /\ reader.at = "rects"
    /\ reader.rects # <<>> /\ Head(reader.rects).kind = kind

(* Bytes are read as pixels of the framebuffer's depth: if the server wrote another
   depth, the Task has lost its place in the stream.  A rectangle the framebuffer has
   no room for is skipped.                                                           *)
DecodeFrame ==
    LET rect == Head(reader.rects)
        understood == rect.depth = reader.held.depth
    IN
    /\ NextIs("frame")
    /\ reader' = [reader EXCEPT !.at = IF understood THEN "rects" ELSE "lost",
                                !.rects = Tail(@)]
    /\ painted' = (painted \/ /\ understood /\ reader.attached
                              /\ rect.all /\ rect.size = reader.held.size)
    /\ UNCHANGED <<framebuffer, state, owner, sending, toServer, toClient, server>>

(* VNCFramebuffer.resize: nothing to do, or nobody to tell. *)
SizeDidChangeMutant(fb, size) == size # fb.size /\ ~fb.told
SizeDidChange(fb, size) == size # fb.size \/ ~fb.told

IgnoreResize ==
    /\ NextIs("resize")
    /\ ~(SizeDidChange(reader.held, Head(reader.rects).size) /\ reader.attached)
    /\ reader' = [reader EXCEPT !.rects = Tail(@)]
    /\ UNCHANGED <<framebuffer, painted, state, owner, sending, toServer, toClient, server>>

Resize ==
    /\ NextIs("resize")
    /\ SizeDidChange(reader.held, Head(reader.rects).size) /\ reader.attached
    /\ ResetIncremental
    /\ reader' = [reader EXCEPT !.at = "recreate"]
    /\ UNCHANGED <<framebuffer, painted, owner, sending, toServer, toClient, server>>

(* The rest of the update is still decoded into the old framebuffer. *)
RecreateMutant ==
    /\ reader.at = "recreate"
    /\ Replace([size |-> 0, depth |-> reader.held.depth, told |-> TRUE])
    /\ reader' = [reader EXCEPT !.at = "rects", !.rects = Tail(@), !.attached = FALSE]
    /\ UNCHANGED <<state, owner, sending, toServer, toClient, server>>

Recreate ==
    /\ reader.at = "recreate"
    /\ Replace([size |-> Head(reader.rects).size, depth |-> reader.held.depth, told |-> TRUE])
    /\ reader' = [reader EXCEPT !.at = "rects", !.rects = Tail(@), !.attached = FALSE]
    /\ UNCHANGED <<state, owner, sending, toServer, toClient, server>>

FinishUpdateMutant ==
    /\ reader.at = "rects" /\ reader.rects = <<>>
    /\ reader' = [reader EXCEPT !.at = IF reader.attached THEN "request" ELSE "read"]
    /\ UNCHANGED <<framebuffer, painted, state, owner, sending, toServer, toClient, server>>

FinishUpdate ==
    /\ reader.at = "rects" /\ reader.rects = <<>>
    /\ reader' = [reader EXCEPT !.at = "request"]
    /\ UNCHANGED <<framebuffer, painted, state, owner, sending, toServer, toClient, server>>

(* sendFramebufferUpdateRequest reads the flag, awaits the write, sets the flag. *)
PrepareRequest ==
    /\ reader.at = "request"
    /\ reader' = IF state.cuEnabled
                 THEN [reader EXCEPT !.at = "read"]
                 ELSE [reader EXCEPT !.at = "write", !.full = ~state.incremental,
                                     !.size = framebuffer.size]
    /\ UNCHANGED <<framebuffer, painted, state, owner, sending, toServer, toClient, server>>

WriteRequest ==
    /\ reader.at = "write"
    /\ toServer' = Append(toServer, Request(reader.full, reader.size))
    /\ reader' = [reader EXCEPT !.at = "written"]
    /\ UNCHANGED <<framebuffer, painted, state, owner, sending, toClient, server>>

SetIncremental ==
    /\ reader.at = "written"
    /\ state' = [state EXCEPT !.incremental = @ \/ reader.full]
    /\ reader' = [reader EXCEPT !.at = "read"]
    /\ UNCHANGED <<framebuffer, painted, owner, sending, toServer, toClient, server>>

Receive ==
    \/ ReadUpdate \/ ReadEnd
    \/ DecodeFrame \/ IgnoreResize \/ Resize \/ Recreate \/ FinishUpdate
    \/ PrepareRequest \/ WriteRequest \/ SetIncremental

-----------------------------------------------------------------------------
(***************************************************************************)
(* The owner calls updateColorDepth, which enqueues a message; the send    *)
(* loop dequeues it and writes it.  Each reads the array and stores a      *)
(* changed one: where the other stored in between, that store is undone.   *)
(***************************************************************************)
UpdateColorDepth(depth) ==
    /\ owner.at = "idle" /\ owner.changes < MaxDepthChanges
    /\ Overlap \/ sender.at # "store"
    /\ owner' = [at |-> "store", new |-> [framebuffer EXCEPT !.depth = depth],
                 copy |-> Append(queue, depth), changes |-> owner.changes + 1]
    /\ UNCHANGED <<framebuffer, painted, state, reader, sending, toServer, toClient, server>>

Enqueue ==
    /\ owner.at = "store"
    /\ queue' = owner.copy
    /\ owner' = [owner EXCEPT !.at = "reset"]
    /\ UNCHANGED <<framebuffer, painted, state, reader, sender, toServer, toClient, server>>

OwnerResets ==
    /\ owner.at = "reset"
    /\ ResetIncremental
    /\ owner' = [owner EXCEPT !.at = "replace"]
    /\ UNCHANGED <<framebuffer, painted, reader, sending, toServer, toClient, server>>

OwnerReplaces ==
    /\ owner.at = "replace"
    /\ Replace(owner.new)
    /\ reader' = [reader EXCEPT !.attached = FALSE]
    /\ owner' = [owner EXCEPT !.at = "idle"]
    /\ UNCHANGED <<state, sending, toServer, toClient, server>>

UpdatesColorDepth == Enqueue \/ OwnerResets \/ OwnerReplaces

DequeueMutant ==
    /\ sender.at = "idle" /\ queue # <<>> /\ ~state.disconnectRequested
    /\ Overlap \/ owner.at # "store"
    /\ sender' = [at |-> "store", depth |-> queue[Len(queue)],
                  rest |-> SubSeq(queue, 1, Len(queue) - 1)]
    /\ UNCHANGED <<framebuffer, painted, state, reader, owner, queue, toServer, toClient, server>>

Dequeue ==
    /\ sender.at = "idle" /\ queue # <<>> /\ ~state.disconnectRequested
    /\ Overlap \/ owner.at # "store"
    /\ sender' = [at |-> "store", depth |-> Head(queue), rest |-> Tail(queue)]
    /\ UNCHANGED <<framebuffer, painted, state, reader, owner, queue, toServer, toClient, server>>

StoreRest ==
    /\ sender.at = "store"
    /\ queue' = sender.rest
    /\ sender' = [sender EXCEPT !.at = "write"]
    /\ UNCHANGED <<framebuffer, painted, state, reader, owner, toServer, toClient, server>>

WriteDepth ==
    /\ sender.at = "write"
    /\ toServer' = Append(toServer, [kind |-> "depth", depth |-> sender.depth])
    /\ sender' = [sender EXCEPT !.at = "idle"]
    /\ UNCHANGED <<framebuffer, painted, state, reader, owner, queue, toClient, server>>

Send == Dequeue \/ StoreRest \/ WriteDepth

-----------------------------------------------------------------------------
(***************************************************************************)
(* The server.  It joins the requests it has not answered.  It answers a   *)
(* non-incremental one with the whole desktop, an incremental one when it  *)
(* likes, and does not draw in a new size before it has announced it.      *)
(***************************************************************************)
Larger(a, b)  == IF a > b THEN a ELSE b
Smaller(a, b) == IF a < b THEN a ELSE b

ServerReads ==
    /\ toServer # <<>>
    /\ LET m == Head(toServer) IN
        server' = IF m.kind = "depth"
                  THEN [server EXCEPT !.depth = m.depth]
                  ELSE [server EXCEPT !.wants = TRUE,
                                      !.owed = IF m.full THEN Larger(@, m.size) ELSE @]
    /\ toServer' = Tail(toServer)
    /\ UNCHANGED <<framebuffer, painted, state, reader, owner, sending, toClient>>

DesktopResizes ==
    /\ server.resizes < MaxResizes
    /\ \E size \in Sizes \ {server.desktop} :
        server' = [server EXCEPT !.desktop = size, !.announced = FALSE, !.resizes = @ + 1]
    /\ UNCHANGED <<framebuffer, painted, state, reader, owner, sending, toServer, toClient>>

Change(all) ==
    [kind |-> "frame", depth |-> server.depth, all |-> all,
     size |-> IF all THEN Smaller(server.owed, server.desktop) ELSE server.desktop]

NewSize == [kind |-> "resize", size |-> server.desktop]

ServerUpdates ==
    /\ server.wants
    /\ \/ /\ server.announced
          /\ toClient' = Append(toClient, [kind |-> "update",
                                           rects |-> <<Change(server.owed > 0)>>])
          /\ server' = [server EXCEPT !.wants = FALSE, !.owed = 0]
       \/ /\ ~server.announced
          /\ toClient' = Append(toClient, [kind |-> "update",
                                           rects |-> <<NewSize, Change(server.owed > 0)>>])
          /\ server' = [server EXCEPT !.wants = FALSE, !.owed = 0, !.announced = TRUE]
       \/ /\ ~server.announced
          /\ toClient' = Append(toClient, [kind |-> "update", rects |-> <<NewSize>>])
          /\ server' = [server EXCEPT !.wants = server.owed > 0, !.announced = TRUE]
    /\ UNCHANGED <<framebuffer, painted, state, reader, owner, sending, toServer>>

ServerEndsCU ==
    /\ server.ends < EndsOfCU
    /\ toClient' = Append(toClient, [kind |-> "end"])
    /\ server' = [server EXCEPT !.ends = @ + 1]
    /\ UNCHANGED <<framebuffer, painted, state, reader, owner, sending, toServer>>

-----------------------------------------------------------------------------
(***************************************************************************)
(* Errors end the connection (beginDisconnecting, see VNCConnection).  The *)
(* allocation in recreateFramebuffer may throw, after the flag is cleared: *)
(* the caller goes on with the framebuffer there is.  A Task that has lost *)
(* its place reads anything, an unknown message type for instance.         *)
(***************************************************************************)
EndConnection ==
    /\ state' = [state EXCEPT !.disconnectRequested = TRUE]
    /\ UNCHANGED <<framebuffer, painted, sending, toServer, toClient, server>>

RecreateFails ==
    /\ reader.at = "recreate" /\ EndConnection
    /\ reader' = [reader EXCEPT !.at = "rects", !.rects = Tail(@)]
    /\ UNCHANGED owner

ReplaceFails ==
    /\ owner.at = "replace" /\ EndConnection
    /\ owner' = [owner EXCEPT !.at = "idle"]
    /\ UNCHANGED reader

LostThrows == reader.at = "lost" /\ EndConnection /\ UNCHANGED <<reader, owner>>

Fails == RecreateFails \/ ReplaceFails \/ LostThrows

-----------------------------------------------------------------------------
Next ==
    \/ Receive
    \/ \E depth \in Depths : UpdateColorDepth(depth)
    \/ UpdatesColorDepth \/ Send
    \/ ServerReads \/ DesktopResizes \/ ServerUpdates \/ ServerEndsCU
    \/ Fails

SafeSpec == Init /\ [][Next]_vars

(* The Tasks and a thread inside updateColorDepth go on until the connection ends.
   The server reads, and answers when it owes the whole desktop or a new size, but
   it need not have a change to report.                                             *)
Lives == ~state.disconnectRequested

Fairness ==
    /\ WF_vars(Lives /\ Receive)
    /\ WF_vars(Lives /\ UpdatesColorDepth)
    /\ WF_vars(Lives /\ Send)
    /\ WF_vars(ServerReads)
    /\ WF_vars((server.owed > 0 \/ ~server.announced) /\ ServerUpdates)

Spec == SafeSpec /\ Fairness

-----------------------------------------------------------------------------
(***************************************************************************)
(* Properties.                                                             *)
(***************************************************************************)
Sent(kind) == \E i \in 1..Len(toServer) : toServer[i].kind = kind

(* Somebody is about to make the next move: the Task handles an update or writes a
   request, a request or an update is on the wire, or the server has to answer.   *)
TokenExists ==
    \/ reader.at \notin {"read", "lost"}
    \/ Sent("request")
    \/ server.wants
    \/ \E i \in 1..Len(toClient) : toClient[i].kind = "update"

(* As long as the connection lives, the client can make sense of the stream and
   believes it has to ask for updates, they do not dry up: not by a resize in the
   middle of an update, nor when continuous updates end.  One request left out
   would freeze the picture.                                                       *)
StreamAlive ==
    RequestUpdates /\ Lives /\ ~state.cuEnabled /\ reader.at # "lost" => TokenExists

(* The whole desktop, in the size of the current framebuffer, was asked for. *)
FullOnItsWay ==
    \/ reader.at \in {"write", "written"} /\ reader.full /\ reader.size >= framebuffer.size
    \/ \E i \in 1..Len(toServer) :
        /\ toServer[i].kind = "request" /\ toServer[i].full
        /\ toServer[i].size >= framebuffer.size
    \/ server.owed >= framebuffer.size
    \/ \E i \in 1..Len(toClient) :
        /\ toClient[i].kind = "update"
        /\ \E j \in 1..Len(toClient[i].rects) :
            LET rect == toClient[i].rects[j] IN rect.kind = "frame" /\ rect.all
    \/ /\ reader.at = "rects" /\ reader.attached
       /\ \E j \in 1..Len(reader.rects) :
            reader.rects[j].kind = "frame" /\ reader.rects[j].all

(* As long as the connection lives, and unless the Task has lost its place, a
   framebuffer that has not shown the whole desktop yet will: the next request is
   non-incremental, or one was made for this framebuffer and is not answered.  The
   flag is set after an await, so an update could be lost to the old framebuffer.   *)
FullUpdateComing ==
    painted \/ ~state.incremental \/ FullOnItsWay \/ reader.at = "lost" \/ ~Lives

(* After a change of size the picture becomes complete again, unless the client has
   stopped asking for updates (see UpdatesKeepComing for that) or there was no memory
   for the framebuffer, which ends the connection.                                    *)
PaintedAgain == (RequestUpdates /\ ~painted) ~> (painted \/ state.cuEnabled \/ ~Lives)

(* Once a connected client has read every announcement, its framebuffer has the
   desktop's size.                                                               *)
ResizePending ==
    \/ ~server.announced
    \/ reader.at \in {"rects", "recreate"} /\ \E i \in 1..Len(reader.rects) :
            reader.rects[i].kind = "resize"
    \/ \E i \in 1..Len(toClient) :
        /\ toClient[i].kind = "update"
        /\ \E j \in 1..Len(toClient[i].rects) : toClient[i].rects[j].kind = "resize"

FollowsDesktop == framebuffer.size = server.desktop \/ ResizePending \/ ~Lives

(* The last colour depth the owner chose is the one the server ends up with, unless the
   connection was ended in between: this takes an enqueue and a dequeue that do not
   overlap, or else the message may be lost.                                            *)
LastDepthReachesServer == <>[](server.depth = owner.new.depth \/ ~Lives)

(* README_original_fork.md lists continuous updates as supported: a client that asked
   for updates goes on getting them while it is connected, whether or not the server
   knows continuous updates.                                                        *)
UpdatesKeepComing == RequestUpdates /\ Lives => TokenExists
=============================================================================
