# RoyalVNC: verification project

TLA+ specifications of RoyalVNCKit (`Sources/RoyalVNCKit`, a VNC client library in Swift) and of
RoyalVNCTool (`Sources/RoyalVNCTool`, a gRPC server that keeps VNC sessions for its clients), the
TLC configurations that check them, and TLAPS proofs. Paths below are relative to the repository;
`PROJECT.json` says for every definition which lines it stands for.

    tlc -workers 2 -config VNCConnection_lifecycle.cfg VNCConnection
    tlc -workers 2 -config Handshake_negotiation.cfg MCHandshake
    tlapm VNCConnectionProofs.tla

## 1. The system

### Threads and how they meet

A `VNCConnection` is one object used by many threads and protected by no lock:

| thread | runs | ends the connection through |
|---|---|---|
| owner | `connect`, `disconnect`, `updateColorDepth`, input | `disconnect` |
| network | `connectionStatusDidChange`, on a concurrent dispatch queue | `.waiting`, `.failed`, `.cancelled` |
| handshake Task | `connectionDidBecomeReady`: handshake, first update request | any error |
| receive Task | `startReceiveLoop`: read one message, handle it, ask for the next update | any error |
| send Task | `startSendLoop`: write queued messages, or sleep 10 ms | any error |

They share `connectionState`, `State` (`disconnectRequested`, `incrementalUpdatesEnabled`,
`areContinuousUpdatesEnabled`, ...), `framebuffer`, `clientToServerMessageQueue` and the transport.
The delegate is called from whichever thread made the change.

### Inventory

| component | state | operations | what is hard | what makes it correct |
|---|---|---|---|---|
| Connection lifecycle (`VNCConnection.swift`, `+API`, `State`, `ConnectionState`) | `connectionState`, `disconnectRequested`, the lazily made transport and its status handler, `framebuffer` | `connect`, `disconnect`, `beginDisconnecting`, `updateConnectionState`, `connectionStatusDidChange`, `connectionDidBecomeReady` | five threads run `beginDisconnecting`, a check-then-act without a lock; two threads may meet in the getter of the `lazy var` that makes the transport | an end once requested is reported, in order; where one transport was made, a reported end means it is unhooked and told to cancel. That nothing is reported after the end is *not* so (first finding) |
| Receive and send loops (`+Receive`, `+Send`) | loop conditions, queue | `receive`, `send`, handlers | guard is read before the await, used after | the loops end; few messages are handled after the end was requested |
| Network layer (`Network/`) | status, handler, descriptor | `start`, `cancel`, `read`, `write` | two backends that behave differently; short reads, partial sends | a closed stream is noticed; the stream stays in step |
| Handshake (`+Handshake`) | protocol version, security types | one step per message | old protocol versions, waiting for a credential | both sides agree on version and security type, or the connection ends |
| Authentication | - | challenge and response | cryptography | - |
| Framebuffer updates (`FramebufferUpdate.swift`, `+Framebuffer`, `VNCFramebuffer.swift`, pseudo encodings) | `framebuffer`, `incrementalUpdatesEnabled`, delegate of each framebuffer | update, resize, `updateColorDepth`, continuous updates | a framebuffer replaced while an update is being decoded, by two threads | the request/update cycle never stops; the framebuffer gets the desktop's size and is painted completely |
| Frame encodings, zlib streams | inflate stream | decode a rectangle | tiles at the border, run lengths, 16-bit sums | exactly the rectangle's pixels are written |
| Client-to-server queue and input (`+Queue`, `Extensions/Queue.swift`) | array of messages, mouse buttons and position | enqueue, dequeue | a struct used by many threads | nothing lost, duplicated or reordered; a button that goes down comes up |
| Clipboard (`VNCClipboard.Monitor.swift`) | timer, change count | start, stop, timer | start hops to the main queue | no timer after stop |
| RoyalVNCTool (`VNCSessionManager`, `VNCServiceGrpc`, `Tool`) | dictionaries `sessions`, `delegates`, `configs` | StartSession, ListSessions, StopSession, shutdown | calls on several threads, `connect()` outside the lock, shutdown on a snapshot | a live connection can be stopped; shutdown ends what there is |
| Framebuffer allocators and locks | memory, spinlock | lock, unlock | not reentrant | readers and the decoder exclude each other |
| Pixel formats, colour map | - | conversion | widths, shifts | values stay in range |
| Message codecs | - | encode, decode | lengths | - |
| Cryptography, keychain, logging, sound, UI, C SDK, demos, generated gRPC code, vendored C | - | - | - | not modelled, see section 6 |

## 2. Modules

| module | what it is |
|---|---|
| `ConnectionLifecycle` | the abstract promise to the owner: it hears of the opening in order and of the end in order, and of a requested end for certain. It does not promise that nothing follows `.disconnected` |
| `VNCConnection` | one connection, its five ending threads, step by step; implements `ConnectionLifecycle` |
| `VNCConnectionProofs` | inductive invariant, safety theorems, refinement theorem |
| `Handshake`, `MCHandshake` | version, security type, authentication and initialisation between a client and a server, over a stream that arrives in pieces; the servers it is checked with |
| `HandshakeProofs` | types; both sides stay in step, fail for a reason, are connected together (where they agree on 3.7 or 3.8, without Tight) |
| `UpdateFlow` | request/update cycle between client and server, with resize, colour depth and continuous updates |
| `UpdateFlowProofs` | types; while the connection lives, the cycle does not stop, the framebuffer follows the desktop and gets a full update |
| `FifoChannel` | the abstract promise of a queue: what is taken out is what was put in first |
| `ClientInput` | the client's queue and all that fills and empties it: keys, buttons, wheel, clipboard, send loop, handshake; implements `FifoChannel` if operations do not overlap |
| `ClientInputProofs` | types, silence of the clipboard after the end, the refinement of `FifoChannel`, a single caller leaves nothing pressed |
| `SessionManager` | RoyalVNCTool's manager and its shutdown |
| `SessionManagerProofs` | its type invariant and reachability |
| `Tiling`, `TilingProofs` | how Hextile and ZRLE cut a rectangle into tiles, as functions, and what they satisfy |
| `Surface`, `SurfaceProofs` | the framebuffer's memory: which bytes an update, a fill and a copy touch; how a channel is taken out of a pixel |

How they fit together: `VNCConnection` is the frame. Its single label `await` is what `Handshake`
spells out; its loops, once started, are what `UpdateFlow` (receive) and `ClientInput` (send, and the
server's text) spell out; `DecodeFrame` of `UpdateFlow` is where `Tiling` and `Surface` belong; `SessionManager` uses a
connection through the two calls and the two outcomes that `VNCConnection` has.

### VNCConnection

One action per step between two accesses to shared state. `pc[t]` is the thread's place; the labels
`guard, flag, disconnecting, tellDisconnecting, unhook, cancel, disconnected, tellDisconnected` are
the statements of `beginDisconnecting` (VNCConnection.swift:265-279) with `updateConnectionState`
(285-303) expanded, which stores the state and only then tells the delegate. `told` is the last thing
the delegate heard, `heard` all it has heard.

`connection` is a `lazy var` (72-87), and its getter takes no lock. In the model a transport belongs to
the thread that made it: `net[c]` is its status, `hooked` says which have a status handler, and
`connection` whose is stored. A thread that finds nothing (`FindsNothing`) makes one in a step of its own
(`CreateTransport`), stores it whatever is stored by then, and goes on with its own (`Got`); its next use
of the property finds the stored one. Only `connect()` and `disconnect()` can find nothing
(`Creators`), so there are at most two. `NWConnection.cancel()` returns at once: `Cancel` enters the
transport in `cancelling`, and `NetCancelled` changes its status later and calls the handler if there
still is one. The handshake's many reads are one
label `await`, since each of them either succeeds or throws into the same `catch`. The two loops keep
all of their tests (`while`, then the guards in `receive()` and `send()`), because the property about
late messages depends on each. `backend` is chosen in `Init` and never changes: `NWConnection`, whose
cancellation makes pending reads throw, or the socket, whose `cancel()` is an empty TODO.

### Handshake

One action per read or write of the handshake Task; `client.at` names the field it waits for or the
message it writes next. The stream is a sequence of units that remember which field they were written
as. The client cannot see that: it only counts, takes the value, and decides what comes next (`After`).
So a wrong length, or a result that is expected and not sent, shows as a unit of the wrong field at the
head of the stream, which is what `InStep` excludes. A field of one byte is one unit and any longer one
two: enough to arrive in pieces. `Exact(field)` says which fields the code reads with `read(length:)`
and which with `readBuffered(length:)`. For the former the two backends differ: NWConnection
waits until minimum and maximum are there, a socket returns what there is and then throws
`.invalidData` (`ShortRead`). They differ at the end of the stream too (`ReadAtEnd`). The server is
external and follows RFC 6143 in the version the client asked for; `GiveUp` lets it go away at any time,
with any part of what is on the wire lost. The client may fail by itself where the code throws: in computing
a response or the list of encodings (`SetupThrows`, before anything is written), and in making the
framebuffer (`SendSetEncodings`, after the write).

### ClientInput

An operation on `clientToServerMessageQueue` is two steps, since `Queue` is a struct around an array
without a lock: the array is read (`Put`, `Take`), the changed one is stored (`Store`, `RemoveFirst`).
With `Overlap = TRUE` these interleave freely, as the code allows; with `FALSE` one that has begun is
finished first, which is what a lock would give, and everything else still interleaves. Threads are the
owner's (`Callers`), the main queue with the clipboard monitor's timer, the receive, send and handshake
Tasks, and `ender`, whichever thread runs `beginDisconnecting` (which of the five does not matter here).
`buttons` is `mouseButtonState`; a pointer event carries the mask as it is when the event is made, a
step after the mask was changed. The monitor's timer is created in a block on the main queue
(`monitor.posted`, `MainQueueBlock`), so it can come to life after `stopMonitoring`. Setting the
pasteboard is two steps, `clearContents()` and `setString`, between which another program may take the
pasteboard over.

### Tiling

Plain functions with 16-bit sums made explicit. No run evaluates them: the theorems hold for every
rectangle, with 65535 itself a parameter (`MaxUInt16`).

### Surface

`VNCFramebuffer` writes through an unsafe pointer, so what keeps it inside its memory is arithmetic.
`Surface` gives, for a region, the addresses that each path of the code reads and writes: `FastMoves` and
`FastAlphas` (a row at once, alpha afterwards), `SlowReads` and `SlowWrites` (pixel by pixel),
`FillWrites`, and `CopyMoves`, which is `bufferData` followed by the fast path. `PixelsOf` is what is
meant. `ChannelValue` is the conversion of the slow path for the three formats `PixelFormat(depth:)` makes.
There is nothing to run: like `Tiling` these are functions, and what they satisfy is proved.

### UpdateFlow

Starts where the loops start. The receive Task's local variables are in `reader`: the framebuffer
`FramebufferUpdate.receive` captured (`held`), whether that one still has its delegate (`attached`),
the rectangles left. `recreateFramebuffer` clears the incremental flag, then allocates, then replaces
(+Framebuffer.swift:38, 42, 58): two steps, run by the receive Task (`Resize`, `Recreate`) or by the
owner (`OwnerResets`, `OwnerReplaces`). The allocation may throw in between, with the flag already
cleared (`RecreateFails`, `ReplaceFails`). `sendFramebufferUpdateRequest` reads the flag, awaits, sets
it: three steps. Queue operations are two steps each, as in `ClientInput`: the enqueue of
`updateColorDepth` (`owner.copy`, `Enqueue`) and the dequeue of the send Task (`sender.rest`,
`StoreRest`, then `WriteDepth`); `Overlap = FALSE` keeps one from starting inside the other. Pixels are one
bit, `painted`: the framebuffer has shown the whole desktop since it was created. `reader.at = "lost"`
is a Task that read pixels of another depth and has lost its place in the stream; it may throw
(`LostThrows`). What throws ends the connection (`state.disconnectRequested`), and the properties are
about a connection that `Lives`. The server is external: it joins unanswered requests, answers a full
one completely, answers an incremental one when it likes, and announces a new size before it draws in it.

### SessionManager

A `queue.sync` block is one step, what follows it is another (`Insert`, then `Connect`). A session's
connection is reduced to its state and `disconnectRequested`, with the transitions `VNCConnection`
has: the handshake Task stores `.connected` without a look at the flag (`Connects`, VNCConnection.swift:354),
and a thread that fails passes the guard, sets the flag and stores the state in three steps
(`FailBegins`, `FailRequests`, `FailEnds`), between which a stop may come. So a stopped session can still
become "connected", and what the manager can rely on is the flag; the properties speak of it. What
`disconnect()` does inside `Remove` is one step: the manager's lock is held, and the flag, which is its
first statement after the guard, is what everything else looks at. The main thread polls the shutdown
flag, takes the snapshot `allSessionIDs()`, stops its members one by one, then drains the event loops.

## 3. Runs

| run | question | distinct states |
|---|---|---|
| `connection_lifecycle` | both backends, `disconnect()` at any time: implements `ConnectionLifecycle`, no end is lost, a reported end of a connection with one transport leaves no handler and, for NWConnection, a cancel under way, at most one late message per loop, loops end, a lost server is reported | 271 thousand |
| `connection_late_connected` | finding: `.connected` after `.disconnected` | |
| `negotiation` | both backends, servers of several versions and offers: both sides stay in step, agree when connected, and the handshake ends with the true error | 17 thousand |
| `old_server` | finding: with a 3.3 server both sides wait for ever | |
| `updates_resize` | the cycle survives, the framebuffer follows the desktop and is painted again | 68 thousand |
| `updates_depth` | the last colour depth is the server's, if queue operations do not overlap | 611 thousand |
| `updates_starved` | finding: continuous updates announced, never enabled | |
| `updates_lost_resize` | finding: a resize lost to a concurrent `updateColorDepth` | |
| `input` | nothing stays pressed, the queue is a FIFO channel, copied text arrives, the clipboard is silent after the end | 375 thousand |
| `input_overlap` | finding: overlapping operations on the queue lose a keyUp | |
| `sessions_shutdown` | a session that is connecting or connected and was not told to end is in the dictionaries; shutdown tells each session of the snapshot to end, and forgets it | 114 thousand |
| `sessions_orphan` | finding: a stopped session connects | |

Bounds, and why they are enough:

- `MaxQueued = 1`: the lifecycle only tests the queue for emptiness; refilling is unlimited.
- `Versions` 3.7, 3.8, 3.889 and 4.1: below, at and above each test the code makes (`major >= 3`,
  `minor >= 8`, the agreed version's upper limit); 3.3 has a run of its own. The six offers are
  none at all, one the client does not know, one with several, and each scheme as the one chosen.
- `Lengths = {0, 2}`: the length 0 has branches of its own, 2 can be split; the tests never compare
  lengths with each other.
- `Sizes = {1, 2}`, two resizes: grow and shrink, a second resize while the first is being handled,
  and a return to the first size.
- `EndsOfCU = 2`: the first message announces, the second ends continuous updates; a third takes the
  same branch as the second.
- `MaxDepthChanges = 2` in `updates_depth`, so that two messages can be in the queue in an
  order. `Overlap = FALSE` here: with `TRUE` the property fails (see the fifth finding). The other
  `updates` runs have `TRUE`.
- `MaxEvents = 2` in `input`, a budget for everything that comes from outside (calls, local copies,
  texts of the server): press and release, a key inside a turn of the wheel, a local copy that meets a
  server's text. They do not bring a button's press, a turn of the wheel and the release together; with three
  events and `MaxSteps = 1` the run passes too (not kept, for its length), and
  `NothingStaysPressed` is proved for any number of events. `MaxSteps = 2`, so that a turn of the wheel makes more than one event. The queue is not
  bounded. One caller, since with two `NothingStuck` fails (see below); all proofs but that of
  `NothingStuck` have any number.
- two sessions, two threads of calls: while one session is being inserted, connected or stopped, another is
  in the snapshot or fails. Sessions share nothing but the dictionaries, and `Reachable` is proved for any
  number. No symmetry is used.

`CHECK_DEADLOCK FALSE` is given where a quiet system is legitimate: a program that has exited, a
client that lost its place or could not allocate a framebuffer, the starved client, input that has been sent, a handshake that is over.
All messages on the wire are bounded by the protocol
itself (one unanswered request, one field at a time), not by a constraint.

`TypeOK` is checked once per module. All other properties relate several threads or an earlier to a
later state.

### What the findings mean

1. `connectionDidBecomeReady` sets `.connected` after its last await without looking at
   `disconnectRequested` (VNCConnection.swift:354). An owner that followed USAGE.md:114 and discarded
   the connection on `.disconnected` hears `.connected` afterwards, and the clipboard monitor runs
   again.
2. EndOfContinuousUpdates makes the client believe that updates come by themselves
   (+Receive.swift:132), but nothing ever sends EnableContinuousUpdates; requests stop and so does
   the picture.
3. `updateColorDepth` and the receive Task replace the framebuffer without a lock; the size the
   server just announced can be overwritten by the old one, and a server announces a size once.
4. `startSession` enters the session in the dictionaries before `connect()`. A stop in between
   disconnects a connection that has not begun; then it begins.
5. The queue has no lock. A keyUp that is enqueued while the send Task removes the keyDown is
   stored into an array from which it is then removed again: the key stays down on the server.
   `NothingStuck` and `ImplementsChannel` hold as soon as operations do not overlap. Colour depths are lost in the
   same way: with `Overlap = TRUE`, `LastDepthReachesServer` fails in 18 steps, when the send Task stores the
   rest of the queue over a second SetPixelFormat.
6. A server of version 3.3 is answered with its own version (+Handshake.swift:41), but then
   decides on the security type itself, in 32 bits. The client reads their first byte, 0, as "no types",
   goes on to read the length of a reason (+Handshake.swift:63), and waits with the server.

Also seen while modelling, without a run of their own:

- two threads that pass the guard of `beginDisconnecting` together report `.disconnecting` and
  `.disconnected` twice;
- two threads in the getter of the lazy `connection` make two transports. The one that is started then keeps
  its handler and is never cancelled: without `OneTransport`, `EndedMeansReleased` fails in 16 steps. (That
  an unsynchronised store of a reference may also crash is not modelled);
- the socket's receive loop does not end after `disconnect()`, because `cancel()` does nothing;
- the socket backend throws `.invalidData` for a field that arrives in pieces although the server is
  healthy, and takes a partial send for a complete one; NWConnection loses a refusal that arrives together with
  the end of the stream and reports a closed connection;
- Tight security is in the list of preferences and not implemented;
- with `MaxDepthChanges = 1` and a resize, `FullUpdateComing` fails, because the flag is cleared
  (+Framebuffer.swift:38) before the framebuffer is replaced (line 58) and the receive Task may use it
  up in between;
- `mouseWheel` enqueues one identical press per step and no release; the server sees the wheel come up
  with the next pointer event;
- two callers of the input API can leave a button pressed: the event with the older mask may be enqueued last;
- text received from the server counts as a change of the local pasteboard and is sent back once;
- a timer created after `stopMonitoring` lives on, silent; the block is not taken back;
- `width + 16 - 1` in Hextile traps from a width of 65520 on, `tileX += 64` in ZRLE near 65535;
- ZRLE accepts a palette index equal to the palette's size (ZRLEEncoding.swift:306), and its Zlib
  stream is the one Zlib rectangles use;
- a session whose connection failed stays in `ListSessions`;
- `copy` reads the surface with four bytes for a pixel and hands it to the update, which reads it in the server's
  format (VNCFramebuffer.swift:629-632): below 24 bit a CopyRect comes out garbled;
- ZRLE is left out of SetEncodings where the pixel format does not suit it (VNCConnection.swift:139), but
  `updateColorDepth` changes the format without sending SetEncodings again, and the next ZRLE rectangle throws;
- a recreated framebuffer has no colour map until the server sends one; `ColorMap.init` takes
  `firstColour` for an index into the received colours (VNCFramebuffer.ColorMap.swift:15), which drops colours and
  traps when it is past their number;
- CoRRE is decoded as RRE (VNCConnection.swift:102), whose subrectangles have 16-bit coordinates instead of 8-bit ones;
- the mouse position is clamped to the width and height themselves (VNCConnection+Queue.swift:79), one past the last pixel;
- `UInt16(request.port)` (VNCServiceGrpc.swift:14) and the sum of RRE coordinates (RREEncoding.swift:36) trap
  when the value does not fit.

## 4. Fairness

- The steps of a thread inside `beginDisconnecting`, `updateConnectionState`, the loops' tests and
  the start of Tasks: weakly fair, since nothing in them blocks and the dispatch queues and the
  Swift executor run what is ready.
- `connect()` goes on once called (`Open`), and an NWConnection that was told to cancel gets cancelled
  (`NetCancelled`).
- A read or write that is bound to fail does (`Broken`): the stream is closed, or the NWConnection is
  cancelled. Nothing makes a server answer, and nothing makes the owner call anything.
- The delegate answers a request for a credential, which USAGE.md asks of it. A delegate that never does keeps
  the handshake Task waiting, and a connection that is lost meanwhile is reported only if another thread
  notices.
- `Handshake`: the network delivers what was written, a read returns what has arrived, the owner
  answers the request for a credential, the server follows the protocol. `GiveUp` is not fair.
- `ClientInput`: what was begun goes on, the main queue runs its blocks, the timer fires again and
  again. Nobody has to type, copy, or end the connection.
- `UpdateFlow`: the Tasks and a thread inside `updateColorDepth` go on until the connection ends, and the
  server reads what it is sent, announces a new size, and answers when it owes a full update. It need not have a change to report.
- `SessionManager`: a call in progress and the main thread's shutdown go on.

## 5. Proofs

`VNCConnectionProofs`, from `ConstantsAssumption` alone (any backends, any settings, any bound):

- `IInv == TypeOK /\ OneIsStored /\ TeardownOrder /\ LateMeansLeaving /\ ThreadsStartOnce /\
  EndIsNeverLost /\ HeardInOrder` is inductive (`InductiveInvariant`).
- `OneIsStored`: what the lazy var holds is a transport that was made, and a thread past the getter finds
  one there, its own or not.
- `TeardownOrder` says what each label of the teardown already achieved: no handler is left before
  `cancel`, the transport is told to cancel before `disconnected`, both under `OneTransport`, since with two
  transports they are not achieved. It gives `ReleasedWhenReported`, and is needed because
  `EndedMeansReleased` alone does not know why the transport was told to cancel.
- `LateMeansLeaving` gives `LateMessages`: a loop that counted a late message is not at a label from
  which it could count another. It needs `ThreadsStartOnce` -- one transport is started, it reports
  `.ready` once, so no loop is started twice.
- `NoEndIsLost`: until `.disconnected` was reported, a thread that saw the flag unset is in the teardown.
- `HeardInOrder` says what the delegate has heard when a thread is where it is, and gives
  `LifecycleRefinement`: every step is an action or a stutter of `ConnectionLifecycle`, whose variables are
  `told` and, read off `heard` and `disconnectRequested`, `Opening` and `Ending`. The abstract state constrains
  what is told *after* the end too: nothing new but `.connected`, and `.connecting` from a `connect()` that was
  late, and neither twice. A second teardown is a repeated `HearDisconnecting` and `HearDisconnected`.

`SessionManagerProofs`, for any sets of sessions and threads: `TypeCorrect`, and `Reachable` through
`EnteredOrEnded`: a session that is connecting or connected, whose handshake runs, or whose `startSession`
is about to call `connect()`, is in the dictionaries or its connection was told to end. A stopped session
may become connected later, so the induction rests on the flag, which is never cleared, and not on the state.
`ConnectedIsReachable` alone says nothing of a session between `queue.sync` and `connect()`.

`UpdateFlowProofs`, from `FlowAssumption`, for any sizes, depths and numbers of resizes:

- `TypeCorrect` needs `RecreatesForARect`: a Task at "recreate" has the resize in its hand.
- All of it holds while the connection lives (`Lives`); `EndIsFinal` carries it through the steps after. The depth
  changes of `StreamStaysAlive` and `TypeCorrect` include overlapping queue operations. A Task that has lost its
  place after a change of depth is excluded from `StreamStaysAlive` (`reader.at # "lost"`): nothing can be
  promised of it.
- `StreamStaysAlive` needs `WrittenIsSent`. After `SetIncremental` the Task is back at "read", and
  the request it wrote may have been read and answered by then; the invariant says that a request once
  written is on the wire, with the server, or answered by an update on the wire.
- `FramebufferFollowsDesktop`, when only the receive Task replaces the framebuffer
  (`MaxDepthChanges = 0`; without this TLC finds the third finding). `FollowsDesktop` speaks of some
  announcement. The induction (`Following`) needs the last one, on the wire or in the Task's hand, and that it
  names the desktop's size; that a size comes first in its update, so that no rectangle behind it
  announces another; and that the Task meets it with the current framebuffer still attached.
- `FullUpdateIsComing`, under the same hypothesis, which is necessary: with `MaxDepthChanges = 1` TLC lets
  the owner replace the framebuffer while the Task decodes, and the full update goes to the old one.
  `FullUpdateComing` is not inductive: a full update on the wire helps only if it fits the framebuffer it
  will meet. `Picture` adds that it does, or that an announcement of another size comes before it, which
  clears the flag (`Repainting`), and what the Task knows between two awaits (`TaskKnows`): the
  request it is writing is full exactly if the flag is not set, and has the framebuffer's size; one that
  recreates has cleared the flag; the framebuffer it captured is the current one or the flag is cleared.

`HandshakeProofs`, for any offers without Tight, any lengths in {0, 2}, both backends, and any versions
of which the two sides make 3.7 or 3.8 (`TypesAreOffered`). This is no more than is true: with a 3.3 server
`InStep` fails and both sides wait (the sixth finding), and with versions whose minor number the client and
the server test differently, as 2.8, they part as well. `InStep` speaks of the next unit
only. The inductive invariant (`IInv`) says what all units under way are: `Place` has one part for each place of
the server (`Greeting`, `Version`, `SecurityType`, the response, `Initialisation`, the session, and those where
it refused or closed), which names the server's last message, how many of its units the
client has read, and where that brought the client (`IsReading`, `IsAt`); what is in the stream is the rest of
that message, or a part of the rest once the server gave up (`HasRead`). So the stream never holds
parts of two messages. In the other direction it can: a client without authentication sends ClientInit
before a 3.7 server has heard its choice. A client that fails by itself leaves nothing on its way, unless it
had written the session's first messages when the framebuffer could not be made (`SessionFollows`). A step of the client moves it along the same message, one of the
server goes on to the next place. `TypeCorrect`, `KeepsInStep`, `FailsTruly` and `ConnectsTogether` are read off.

`ClientInputProofs`, from `InputAssumption`, for any callers, texts and number of events:
`IInv` adds to the types who carries a message (`Carrying`), that a turn of the wheel has steps left
between press and release (`WheelsTurn`), when the timer can be busy (`MonitorSilenced`), and, without
overlap, that the copy a thread is about to change is the array itself (`OneAtATime`). The last one is
what makes the two steps of an operation one step of `FifoChannel` in `QueueIsFifo`; `SendStartsLate`
rules out that the handshake clears the queue under the send Task. `ClipboardFallsSilent` holds with
and without overlap.

`NothingStaysPressed` has two hypotheses, and TLC has a counterexample without either: no overlap (the fifth
finding) and one calling thread (`OneCaller`). `NothingStuck` speaks of a quiet system; `Follows` says what
makes it come true. For every key that is not held, among the messages under way -- the channel, then the one in the
caller's hand -- the last one about it is a keyUp, or there is none and the server has it up (`KeysFollow`). The
same for the masks of pointer events and the buttons (`ButtonsFollow`), except between a change of the
buttons and the making of its event. Both are `WillSettle(q, hands, well, good, bad)`, and six lemmas say
what putting in, taking in hand, handling and dropping do to it. What the handshake drops is not missed,
because the server has heard nothing by then (`UntouchedBefore`); with inputMode .none only texts are under way
(`Spectator`). TLC checked `Follows` before it was proved, with four events.

`TilingProofs`: both ways of cutting partition any rectangle, every pixel in exactly one tile
(`HextilePartitions`, `ZRLEPartitions`); if the framebuffer has room for the rectangle, none of its
tiles is skipped (`NoTileIsSkipped`); and which rectangles make no sum trap (`HextileDoesNotTrap`,
`ZRLEDoesNotTrap`). They assume only that `MaxUInt16` is a natural number.

`SurfaceProofs`, for any region, size and pixel size: an update writes exactly its region's pixels on either
path (`UpdateWritesTheRegion`), and so does a fill (`FillWritesTheRegion`); these lie in the surface if the
region is valid (`StaysInSurface`) and share no byte with other pixels (`PixelsApart`); no byte past the data
is read (`ReadsWithinData`, for data of width times height pixels); at four bytes a pixel a copy moves
each byte to its place (`CopyKeepsPixels`); and channels do not overlap and fit in a byte
(`ChannelsApart`, `ChannelFits`). The arithmetic is not linear; `LaterRow` (a row that comes later begins at
least a width later) is the one fact about products the others need.

Only model-checked: everything under fairness (`ImplementsLifecycle`'s liveness, `LoopsEnd`,
`LostServerIsReported`, `PaintedAgain`, `LastDepthReachesServer`, `CopiedTextArrives`, `HandshakeEnds`,
`ShutdownEndsSessions`), which is outside the prover's reach. Every safety invariant of a passing run
is proved.

## 6. What is simplified or left out

- The owner calls `connect()` once. One status callback runs at a time, as Network.framework
  delivers them, although the queue given to it is concurrent. A cancelled NWConnection makes pending
  reads throw.
- Statements between two accesses of shared state are one step. In `sendFramebufferUpdateRequest`
  the flags and the framebuffer's size (lines 24-31) are read together.
- `SessionManager`: "disconnecting" is merged with "disconnected"; besides a stop, one thread at a time fails in
  a session; a session has one transport.
- `updates_depth` assumes that queue operations do not overlap, as its `Overlap = FALSE` says.
- `Handshake`: what the client writes arrives whole, so partial sends are not modelled; nor are name
  resolution, Tight security, and data that is invalid in itself (a malformed version, text that is not
  UTF-8). Challenges and responses have no content.
- `ClientInput`: the pointer's position, key codes, macOS modifier tracking and scroll accumulation;
  the monitor's deallocation; the pasteboard on iOS, where setting it is one step.
- `UpdateFlow`: pixels are one bit; LastRect, colour map and cursor are left out.
- `Surface`: the bytes' addresses, not their values; a copy only where the server has four bytes for a pixel
  (see the remark in section 3 for the others). The colour map is a table, with the remarks there.
- Frame encodings: only the tiling. Run lengths, palettes, subrectangles and the inflate streams are
  transformations of data whose control is a loop over their input.
- Framebuffer allocators and locks: one spinlock around copies of memory, no state a property could
  relate.
- The C wrappers, UI, demos, keychain, logger and sound hold no protocol state; cryptography is
  arithmetic on large numbers; gRPC and protobuf code is generated.
- All C code of the repository is vendored (`libtommath`, `libtomcrypt`, `d3des`, `zlib`) or a header or
  demo of the C interface. The program itself, and all that is mapped here, is Swift
  (`Sources/RoyalVNCKit`, `Sources/RoyalVNCTool`).

## 7. Plan

Done: the lifecycle, the handshake, the update cycle, the queue with input and clipboard, the session
manager, the tiling, the surface, and the proofs listed above.

Next, in this order, each without `RECURSIVE` so that it can be proved about:

1. `SocketWrite`: the partial send that is taken for a complete one.
2. The content of tiles: run lengths and palettes against "every pixel of the tile is written".
3. Keyboard modifiers and scroll accumulation of the macOS view.
