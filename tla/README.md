# ArbutusEngine: TLA+ specifications and proofs

ArbutusEngine is a C++ library, on top of openFrameworks, for mixing video live:
clips ("visual instances") sit in a grid of layers and columns, each layer shows
one clip at a time, and a metronome decides when a triggered clip starts. This
directory holds TLA+ models of the library's own logic, of the server and client
programs, and of the parts of the vendored network libraries they depend on; the
TLC runs that check them on small instances; and TLAPS proofs of the properties
that matter most. Paths below are relative to the repository's
`src/Library/Engine`, except those that start with `Apps/` (in the repository's
`src/`) and `External/`. `PROJECT.json` maps every definition to the lines it models.

## 1. The system

| Part | State | Operations | Talks to |
|---|---|---|---|
| Metronome (`Misc/Metronome.mm`) | tempo, bar and phrase counters, a thread | start, stop, resetMetronome, setBPM | calls `Engine::beat` from its thread |
| EngineProperties | selected layer, metronomeOn, triggeringBeat, beatSnapInProgress, beat counter, taps | beat, tap, getters and setters; `getInstance()` resets half of the fields | read by everybody, from two threads, without a lock |
| VisualInstance (`Visuals/`) | a video player; isPlaying, isTriggered, timestamps | play, retrigger, stop, draw, unload | EngineProperties |
| Layer, Layers (`Main/Layer.mm`) | active and scheduled instance; the list of layers | play or schedule an instance, stop, render; add, remove, setCount, select | VisualInstance, EngineProperties |
| Set, Scenes, Visuals | loaded flag, current scene, instances, sources | newSet, openSet, closeSet, setState, add and remove instances | Layers keep pointers into them |
| FileManager | a thread | cleanup once a minute | closes idle players of the current scene |
| Engine | buffer, set flag, beat callback | the host's API; render | all of the above |
| State files (`FileHandling/`) | - | getState/setState as JSON | Engine |
| Properties, loop modes | clamped values, start/end/direction of a clip | setters, per-frame handling | VisualInstance |
| Server (`Apps/Server`) | sockets, throttle | JSON requests by TCP and ZeroMQ, polled once per frame | Engine; ofxTCPServer's accepting thread; libzmq |
| Client (`Apps/Client`) | a ZeroMQ socket, log lines | connect, send, close, from its user interface | libzmq |
| ofxTCPServer, ofxTCPClient (`External/ofxNetwork`) | a table of connections, receive buffers | accept, poll, receive, send | server |
| libzmq mailbox and pipe (`External/libzmq`) | lock-free queues, water marks, the state of a termination | send, recv; write, flush, read, terminate | every socket of the two programs |
| Controllers, MIDI, OSC | mappings from inputs to actions | dispatch of events | Engine |
| Syphon, screens, FreeFrame | textures; compiled-out effects | output | Engine |

What makes it hard:

* Three threads in the library. The host's main thread makes the API calls and renders, the
  metronome's thread calls `Engine::beat`, FileManager's thread closes files. The
  locks in the two thread functions are each thread's own and exclude nobody.
* Blocking: `setBPM` and `resetMetronome` wait for the metronome thread.
* `EngineProperties::getInstance()` calls `setDefaults()` each time, so looking at
  a property changes others.
* Exceptions: a file that cannot be opened throws out of the middle of a switch,
  of a loop over the layers, or of a frame.
* Pointers and positions that are kept in one place and freed or moved in another.
* Two more pairs of threads in the server: ofxTCPServer accepts on a thread of its
  own into the table that the polling loop walks, and libzmq's I/O threads own the
  other end of every pipe. Peers come, go and restart at any time.

What makes each part correct: the metronome beats when it should and only then,
and nobody waits for it for ever; only the clip a layer shows runs, what is
reported to clients is what the player does, and a snapped clip starts on the
beat; the selected layer exists; nothing that is shown or listed was deleted, and
a set that is saved and opened again stays what it is; a clip's speed and direction
come to rest, with a player that turns by itself; every connected client is polled, its requests are answered once and
in order; no request gets lost between client and server
but with a server that stops, and closing returns once its request is taken; no
wake-up between libzmq's threads is lost, and a pipe is taken down by both ends
without a use after the free.

## 2. Modules

| Module | What it is |
|---|---|
| `BeatClock` | abstract: a clock that is off, on, or draining one last beat |
| `Metronome` | the metronome thread and Engine's tempo calls; implements `BeatClock` |
| `MetronomeProofs` | theorems about `Metronome` |
| `Playback` | clips, layers' pointers, beat snap, FileManager; three threads |
| `MCPlayback` | the scenes of the `Playback` runs |
| `PlaybackProofs` | theorems about `Playback` |
| `Layers` | the layer list, the selected layer, and the set operations on them |
| `ClipControls` | a clip's start, end, direction and loop mode, per frame, and the player |
| `MCClipControls` | its inputs for TLC |
| `ControlProofs` | theorems about `Layers` and `ClipControls` |
| `SetLifecycle` | who owns visuals, scenes and clips; saving and opening a set |
| `MCSetLifecycle`, `SetLifecycleProofs` | its heaps, hosts and first file for TLC; theorems |
| `TcpServer` | the server's TCP loop and ofxNetwork's accepting thread |
| `MCTcpServer`, `TcpServerProofs` | its peers for TLC; theorems |
| `Ipc` | the ZeroMQ request/reply pair, the client's session and log, server restarts |
| `IpcProofs` | theorems about `Ipc` |
| `CommandQueue` | abstract: a queue of commands, posted and then taken in order |
| `Mailbox` | libzmq's mailbox over its lock-free queue; implements `CommandQueue` |
| `MailboxProofs` | theorems about `Mailbox` |
| `ZmqPipe` | the two ends of a libzmq pipe: flow control and termination |
| `MCZmqPipe`, `ZmqPipeProofs` | its water marks for TLC; theorems |

`Playback` composes the abstract clock of `BeatClock` with the decks. `ZmqPipe`
takes from `Mailbox` that commands arrive once and in order, and `Ipc` takes from
`ZmqPipe` that a close waits for what is in the pipe and then ends.

Definitions named `...Late`, `...Lost`, `...Forgets` and so on, commented "Mutant",
stand next to the definition of which they are a faulty variant. They are used by
no specification; each shows that some property would notice that fault
(`PROJECT.json`, "mutants").

### Metronome

`threadRunning` and `threadDone` are ofThread's two flags, `pc` is the thread's
place in `while (isThreadRunning()) { lock; count and beat; unlock; sleep }`, and
`call` is the blocking call the main thread is inside. ofThread is not part of the
repository; `startThread`, `stopThread` and `ThreadExit` say what the code relies
on: a start is refused until the old thread has ended, a stop clears a flag, and
the end of `run` sets `threadDone`. A call that waits is two actions, one up to the
wait (`ResetMetronome`, `SetBPM`, `Tap`) and one after it (`ResetDone`,
`SetBPMDone`), and thread steps happen between them.

Behaviour that is in the model because it is in the code: `Engine::setBPM` asks
`getBPM()`, truncated to 8 bits, whether the metronome is on (`BPM % 256 # 0`);
`tap` stores to `taps[-1]`, which falls on `metronomeOn` and its neighbours (any
value may result); a tempo of 0 is divided by, which kills the process on x86 and
yields 0 on arm64 (`fault` is either).

The host is assumed to have registered its beat callback; the pointer is never
initialised by the constructor. The interval between beats is not modelled.

### Playback

A clip is a cell `<<layer, column>>` of the current scene, with the set of its
flags: the player's `loaded` and `rolling`, the properties `playing` and
`triggered`, and `idle` (a minute has passed since it was last opened or played,
an event of its own). Players loop, as the code sets them to: they do not stop by
themselves. `VisualInstance`'s operations map a clip's flags to new flags,
`Layer`'s map a deck (active, scheduled, clips) to a new deck, and the actions of
`Engine` apply them to one layer or to all. A loop over layers ends at the first
layer that throws (`reached`).

`Engine::render` is two steps, `RenderBegin` (the `getInstance()` that resets the
flag) and `RenderEnd` (the read of the flag, the snap, the drawing). `Engine::beat`
is one step per store. FileManager's cleanup is one step for the test, one for the
store to isPlaying and one for the close. The thread that beats is the abstract
clock of `BeatClock`, with the refused start of `Metronome`. Of the tempo calls it
keeps what the decks can see: `SetTempo` restarts the thread, and `Tap` overwrites
the three flags next to `taps`.

The scene, the number of layers, which clips are cameras, cannot be opened, are
snapped or retrigger, the limits 32 and 4 of `EngineProperties::beat`, and whether
the host runs a FileManager (nothing in the library starts one) are constants.
Syphon clips behave as cameras do here. Changing the scene while it plays is in
`SetLifecycle`.

### Layers

The list is its length, `selected` the `int` in EngineProperties, `loaded` and
`nLayers` fields of Set. Arguments of `setActive` are 1-based and unsigned; 0 - 1
is -1 once it is stored. `crashed` is set where the code erases the end of the
list or dereferences the NULL of a refused `add`; nothing happens afterwards.
`SetCount` gives the outcome of the code's loop in closed form. The definitions every
module has are named `LayersInit`, `LayersNext`, `LayersSpec` and so on here, since
`ControlProofs` extends this module together with `ClipControls`.

### ClipControls

Values are counted in fractions of 1.0. The model has the setters with their
clamps and tests, playing, stopping, unloading, and `Frame`, what `updateVideo` does
to speed, loop state and direction on every frame under each loop mode. In ping-pong
mode every frame sets the player to `OF_LOOP_PALINDROME`, and such a player turns
round at the ends of the video by itself: `Turn`, at any time between two frames.
Directions and loop modes arrive as floats and are cast without a check, so that
numbers outside of the enumerations are inputs too. `framed` is the speed the last
frame left and `quiet` counts frames since the last call, up to 2.

What comes out is not what a user expects: `handleDirectionChange` gives every frame
the speed that goes with the direction, so that a palindrome player's turn lasts until
the next frame and the clip in ping-pong mode goes forward (`PingPongForward`).

### SetLifecycle

The state is one record and every function of `Visuals`, `Scenes`, `Set` and
`VisualInstances` an operator on it, composed in the source's order by one action
per call of the host. Objects are numbers, `freed` those that were deleted; an
access to one of them, or to NULL, makes the rest of the run undefined, and nothing
more is claimed of it (`Undefined`). `broken` records which of the ways to leave
pointers behind were taken: `VisualInstances::empty` deletes clips and keeps their
pointers ("emptied"), a request may load visuals without the scenes that show them
("visuals"), or scenes without the layers that show their clips ("layers"); the
invariants say what holds without each of them. `disk` is the set file. `loop` is a
C++ loop over a list; the operators that delete scenes and load visuals, scenes and
clips are uses of it.
`Visuals::empty` increments an iterator it has erased, which may or may not go wrong
(`iteratorLost`). A file that is missing makes `loadVideo` throw out of `loadAll`: of
what is modelled here only `newSet` has something left to do then, and the set is not
marked as loaded. An empty cell that is triggered stops its layer. `host`, which never changes, is the set of calls a host makes.

### TcpServer

`slots` is ofxTCPServer's table, `apc` the accepting thread (it looks for a free
slot, then blocks in `accept`, then fills the slot it chose), `pc` and `i` the main
thread in `TCPProtocol::update`'s loop over the clients. Each call into ofxNetwork
is one step, since it takes and releases a lock. A request is numbered by its
sender and has one of four kinds, by what the handler makes of it; the kind "fatal"
stands for the requests that end the process, which TLC lets happen at any time. A
peer in `Patient` sends its next request after the answer to the last. `wire` and
`tmpStr` are the bytes in the socket and in ofxTCPClient, as whole lines. The sockets
do not block: `SendAll` to a peer that does not read its answers (`Slow`) may fail
before or after some bytes have gone, and the bytes are not sent again. In the latter
case (`cut`) the peer's next line is the torn answer with the next one behind it.
`load`, which never changes, says which peers there are and how many requests each
will make.

### Ipc

A client's socket is closed, open, or being closed: `zmq_ctx_destroy` blocks while a
request is in the pipe (`waiting`). The client's session in libzmq's I/O thread
(`session_base.cpp`) is `link`, its engine, and `half`, the request of which one part
was pulled. A request has two parts, the empty bottom and the body, and is pulled part
by part (`PullBottom`, `PullBody`) onto the wire, from which the server's session
pushes it into the server's pipe (`Deliver`). A server may stop and start at any time;
what reached it and was not read, or is on the wire, is lost with it, and the client's
connection is dead. The client may go on pulling into the dead connection before it
notices; then `engine_error` discards the rest of a request that was begun
(`clean_pipes`) and connects again. `taken` and `orphaned` record for which server, one
that runs or one that has stopped, a request was pulled.

The server reads at most one request per start, since it never replies and its REP
socket then refuses to receive. The client's log keeps the newest `NumberOfMessages`
lines.

### Mailbox and CommandQueue

Each access to the pointer that `ypipe_t` shares between its two sides (`c`) is a
step of its own, with the reader's and the senders' own pointers updated around it;
the mutex of the senders and the signaler are variables. The abstract queue knows
which commands were posted and how many were taken. The mapping: a command is posted
when `flush` publishes it, and taken when `recv` returns it.

### ZmqPipe

One module for both ends: `state` is `pipe_t::_state`, with every assertion of
`process_pipe_term` and `process_pipe_term_ack` in `AssertionsHold`. A queue is what
the reader can see, what is written and not flushed, and the parts of an unfinished
message. `hurried` remembers that an end's owner gave up what was still to be read.
`CheckRead` is what a session without an engine does: it looks for a delimiter and
reads nothing. Messages that carry a routing id (REP's, being a ROUTER's) pass a pipe
without being counted and are left out.

## 3. Runs

Runs that pass:

| Run | Instance | Shows |
|---|---|---|
| `metronome` | tempos 120 and 256, 2 taps, fair | `WaitIsSafe`: whoever waits finds the flag down and the thread's flags consistent with where it is; `CountersInPhase`; `ImplementsBeatClock`; `BlockingCallsRestart`, `StopEnds`, `RunningBeats` |
| `playback_one_layer` | a plain and a snapped clip, an empty column, limits 32 and 4 | `OnlyActiveRolls`, `PlayingFlagTruthful`, `SnappedStartsOnSnap` |
| `playback_blocked` | an unopenable clip in front of a good one, a FileManager, fair | `ActiveRuns`: a shown clip runs again after FileManager closed it, unless the missing file ends every frame before it |
| `layers_safety` | 6 layers, arguments up to 8 | `SelectionNeverPastEnd`, `SelectionKept`, `ShrinkNeverOvershoots` |
| `clip_controls` | halves of 1.0, from below 0 to beyond 1; all codes and one on either side | `RangeRepaired`: an inverted range is a range again after the next change; `PlaybackSettles`: from the third frame without a call, every frame keeps the direction and leaves the speed the one before left, however the player turned |
| `set_lifecycle` | 2 visuals, 2 scenes, 2 clips, 1 layer, 2 columns; a host that plays and one that edits and saves | `PointersLive` (lists, clips, layers), `ScenesConsistent` (one clip per cell; the current scene and its number agree), `ReloadSettles`: what a set loses by being saved and opened it loses once |
| `tcp` | 3 slots; a patient peer with 2 requests and a slow one with 3, or a patient one with 1 and two silent ones; fair | `EveryClientVisited`, `AcceptKeepsClients`: no live client is left out or replaced; `StrayOnlyFromClosed`: an answer goes to another peer only if the one that asked has closed; `AnsweredOnceInOrder`; `PatientPeerAnswered` |
| `ipc` | 2 clients, 2 connections each, 2 requests, restarts, fair | `RequestsConserved`: a request is lost only with the server it was pulled for, and none is continued on another connection; `OneRequestPerConnection`; `LogTellsState`; `CloseEnds`: closing returns unless its request stays in the pipe for ever, servers being away again and again |
| `mailbox` | 3 senders, 6 commands, fair | `WokenFindsCommand` (recv's assertion), `WakeUpDue`, `DrainedIsQuiet`, `ImplementsQueue`, `CommandsReceived` |
| `pipe` | one way 4 messages of up to two parts and mark 3, the other way 1 and mark 1, fair | `TypeOK`, `TerminationSafe` (the code's assertions; nothing deallocated is used), `WakeUpsDue`, `WithinMarks`, `WholeAndInOrder`, `PendingDelivered`, `TerminationEnds`: both ends go, or one waits for what only a reader could take and nobody reads from it; `WriterResumes`: with a reader |

Runs in which the code does not do what the repository says of it:

| Run | Shows |
|---|---|
| `playback_snap_lost` | a triggered clip may never start although the clock beats: render resets the flag it then reads |
| `set_reload_kept` | a set that was just saved, opened again, has its clips on other visuals or not at all: the index saved with a clip is its place among the clips, and is read as the place of its visual |

Further configurations, to be run as `tlc -config X.cfg M`. They are not among the
runs of `PROJECT.json` and are no part of what is checked there; they are kept to look
at a trace. Each of these gives a counterexample to something the repository says; the
comment of the property quotes it:

| Configuration, module | The code does otherwise because |
|---|---|
| `MetronomeTap`, `Metronome` | `EngineProperties::incrementTap` never leaves -1, so four taps give no tempo |
| `PlaybackStopAll`, `MCPlayback` | stopping all layers skips one whose clip is only scheduled |
| `LayersNewSet`, `Layers` | `newSet` keeps the layers of an opened set, which nothing marks as loaded |
| `ClipControlsStart`, `MCClipControls` | the test of a new start against the end is commented out |
| `SetEmpty`, `MCSetLifecycle` | `VisualInstances::empty` leaves the deleted clips in the list |
| `SetVideoTwice`, `MCSetLifecycle` | `addVideo` does not look for the file in the list |
| `IpcUnread`, `Ipc` | the server never replies, and its REP socket then receives nothing more |
| `TcpServerPipelined`, `MCTcpServer` | a line that is already in ofxTCPClient's buffer is taken only when new bytes come |
| `TcpServerStray`, `MCTcpServer` | an answer is sent to a slot, which may have a new owner by then |
| `TcpServerLimit`, `MCTcpServer` | at the limit the accepting thread ends and drops every client |
| `TcpServerUnknown`, `MCTcpServer` | the handler throws a pointer, and the catch clause is for references |

`PlaybackTwoLayers` (exceptions in front of a snapped camera) and
`PlaybackFileManager` (one layer and a FileManager) hold on other scenes what the
proofs below say of all of them.

Bounds. Tempo 256 is the one multiple of 256 needed, 120 the default; two taps give
both a tap on a running metronome and one after the tempo has become 0. One layer
suffices for what happens between the threads and one deck, since layers share
only the beat flags and the exceptions; two layers for the latter, the first being
the one that throws and the second the one that is skipped. Where the beat limits
do not matter they are 0 and 1: every beat snaps, which is the most a run can have
happen. 8 exceeds the layer limit by two, so that a refused `add` happens with any
length of the list. Two objects of each kind let one be deleted while another is
kept, and let numbers be used again; two columns let a clip replace another one or
stand beside it. Two peers, of which one asks three times, make a slot
change hands between the check and the answer and leave a line in the buffer; with
three slots both may stay connected without the accepting thread reaching its limit,
which it does with three peers. Two connections let a close overlap the next connect;
two clients compete for one server, and two requests let one be half pulled while the
other waits, is on the wire or is lost with a server. Three senders let one hold the mutex, one wait for it and one come later,
and six commands take the queue through sleeping and waking several times. With mark
3 the low water mark is 2, so that a message which is read is not yet reported.

Fairness. The threads are assumed to be scheduled (weak fairness of their steps); a
main thread whose wait is over returns from it; the host renders for ever; a
FileManager that has begun to close a file goes on. The server's frames keep coming
and its throttle interval passes. libzmq's I/O threads connect again while there is a
server, pull, notice a broken connection, handle their commands, flush what was
written, and look for a delimiter (`CheckRead` of the session). Nobody is assumed to
read from a pipe: the client never receives, a REP socket refuses after one request,
and a session without an engine does not read. So reading is a hypothesis of
`WriterResumes`, and `TerminationEnds` says for each set of ends that are read what
ends and what waits. The reader of a mailbox calls `recv`
again and again, and a signal that stays is eventually seen by a call that did not
time out (strong fairness, `WaitSignalled`). No call by a host, user or peer is
assumed to be made, and a server may stop for good: `CloseEnds` says for how long a
close then waits. Deadlock is checked except where the system may stop: a killed process, and a
host or peer that makes no more calls.

## 4. Proofs

For every value of the constants (under the ASSUMEs of the modules, which TLC
evaluates in the runs). Each proof module also proves `TypeOK` (`TypeCorrect`).

* `MetronomeProofs`: `WaitSafety`, `PhaseCorrect`, `Implementation`.
  `WaitIsSafe` with the types is inductive. For the implementation, each step maps
  to a step of `BeatClock` or a stutter: only `ThreadBeat` counts
  (`OnlyBeatCounts`), and by `WaitIsSafe` a start happens only when no beat is under
  way.
* `PlaybackProofs`: `OnlyActiveRollsAlways`, `PlayingFlagAlwaysTruthful`,
  `SnappedAlwaysStartsOnSnap`. The invariant `DeckInv` says, layer by layer, that the
  deck has its types, that only the active clip rolls, and that a rolling clip has
  its file open: without the latter, `stop`, which does nothing when the file is
  closed, could leave a clip rolling when the layer forgets it. There is one lemma
  for each operator on clips and decks, and one case for each action. The flag
  reported to clients follows from a second invariant, under the assumption that no
  FileManager runs; that a snapped clip starts on a snap is a property of steps, by
  cases over the actions that can start a player.
* `ControlProofs`, of `Layers`: `SelectionSafe`, `SelectionIsKept`, `ShrinkIsSafe`.
  `SelectionNeverPastEnd` says nothing of an empty list, to which a layer may then be
  added; the invariant adds that an empty list selects 0 or nothing. Of
  `ClipControls`: `RangeAlwaysRepaired`, `SettlesAlways`, `InverseAlwaysBackwards`,
  `PingPongAlwaysForward`. The invariant says for each loop mode how far speed and
  direction have come after one and two quiet frames; it is about the speed a frame
  left, since the player may turn after it and the next frame finds either sign.
* `SetLifecycleProofs`: `PointersAlwaysLive`, `ScenesAlwaysConsistent`,
  `ReloadAlwaysSettles`, for sets and files of any size. Assumed are that the three
  kinds of objects are different numbers and that the first file is one the program
  could have saved (`FileAssumption`: clips numbered in order, one per cell).
  - `Good(s, b)` is what the functions of the source keep: the lists hold live objects
    once each; a scene that is in no list has no clips, or a new scene that gets its
    number would inherit them; live clips of a scene have cells of their own; a live
    current scene is at its number; and what clips and layers refer to lives, unless
    `b` names the way it was left behind. It is stated for every `b`, not only for
    `broken`, because a call passes through worse states than it ends in: `closeSet`
    deletes the visuals before the scenes, and `OpenSet` is safe only because its last
    part throws away the clips whose visuals the first part deleted. So emptying the
    visuals keeps `Good(s, b)` with "visuals" in `b`, and emptying the scenes leads
    from any `b` back to `{}`.
  - The loops are recursive functions over lists of any length. The library's
    induction theorems cannot be instantiated here, but that a set of naturals has a
    least element can be used (`Least`), and it gives induction for a *set* of
    numbers (`Counting`): the set of those `n` for which the state after `n` passes
    has the property. Each loop gets a predicate for the states it passes through
    (`LoadScenesRun` and so on) and a lemma that such states exist.
  - `reopened` is what opening makes of a file: a function on files that keeps the
    videos, gives the k-th clip of a scene the k-th of them, and drops the clips
    beyond. `ReopenSaved` shows, loop by loop, that `OpenSet` leaves a set that would
    be saved as `reopened(disk)`, and `ReopenedTwice` that `reopened` is idempotent.
    The invariant then says that a set which counts as opened would be saved as
    `reopened(disk)`: a call either changes nothing that is saved, or ends the opened
    set, or opens it again, or saves it, and by idempotence the equation holds for the
    file just written. That no clip is lost in between needs `Cells`: the load of
    a clip first removes what is in its cell.
* `TcpServerProofs`: `AllVisited`, `StraysFromClosed`, `LiveClientsKept`,
  `AnsweredInOrder`. The invariant `Inv` ties the slot the accepting thread chose to what may happen to it while
  it waits (nobody else fills slots), the count of slots to the table, and a request
  in the main thread's hands to the slot it came from. The order of the answers needs
  a second one, `OrderInv`, over the places a request passes through: the numbers rise
  along the socket's buffer and along `tmpStr`, everything in `tmpStr` is older than
  everything in the socket, the request being handled is older than both, and all that
  was answered, to whomever, is older than that. The two steps that matter are
  `ReceiveFresh`, which cuts the socket's buffer at an arbitrary place, and `Reply`,
  after which the request just answered is the newest of its peer.
* `IpcProofs`: `NoRequestLost`, `OneRequest`, `LogIsTrue` (the newest line of the log
  tells the state of the connection). The invariant adds whose turn a REQ socket
  thinks it is and what a client that waits has in its log. That a request is lost
  only with its server needs `Carried`: what is on the wire or in the server's pipe was
  pulled for the server that runs, and what is half pulled for that one or, on a dead
  link, for one that has stopped, so that what `clean_pipes` discards is no request
  that another server could still get.
* `MailboxProofs`: `AssertionHolds`, `NoWakeUpLost`, `DestructionSafe`,
  `StoreIsSafe` (the plain store in `flush` happens while the reader sleeps) and
  `MailboxIsQueue`, the refinement. The invariant orders the pointers of the queue,
  and says for each position of the reader and of the sender that holds the mutex
  which of them owes the other a signal.
* `ZmqPipeProofs`: `TerminationIsSafe`, `NoWakeUpLost`, `MarksKept`, `MessagesWhole`,
  `PendingAreDelivered`, and `PipeInvariant`, from which they follow, for all high
  water marks (0, no limit, included) and any number of messages and parts. None of
  the five is inductive. `PipeInv` is a conjunction of six layers:
  - `Shapes`, the types;
  - `Content`: from the next message to be read to the last one written, each queue
    holds exactly the messages between the two counts, in order, and a delimiter only
    at the end of what a terminating peer wrote. `MessagesWhole` reads off it;
  - `Handshake`: the pairs of states the two ends can be in and, for each, which of
    `pipe_term` and `pipe_term_ack` are on their way in which direction. Without it
    `process_pipe_term_ack` could find a state its assertion excludes. It needs
    `Content`: meeting a delimiter moves the reader, so a delimiter must mean that its
    writer has asked for the termination;
  - `Finished`: an end that met the delimiter has read everything before it, which
    with `Handshake` gives `PendingAreDelivered`;
  - `Waking`: a reader that stopped left its queue asleep and empty, or a command to
    read is in its inbox;
  - `Flow`: from what a writer believes to be read, the counts in its inbox rise, and
    the last of them is the last multiple of the low water mark the reader passed. So a
    writer that is not being told already knows of all the reads but a remainder
    smaller than the low water mark. It stopped because what it wrote beyond what it
    knew to be read had reached the high water mark; if everything is read, that
    remainder is at least the high water mark, and the low one never exceeds it: hence
    `NoWakeUpLost`. `MarksKept` is the same count the other way: what the writer
    believes never exceeds what was read.

  The proof has one lemma for each call of a pipe's owner and each command its object
  handles, layer by layer.

Only model-checked: the liveness properties, since no reasoning about fairness or
ENABLED is within the prover's reach here. Every invariant and every action property of
the passing runs that is no liveness property is proved.

## 5. Hazards

`PROJECT.json` lists what is hard to test in this code, at its line, with the
properties that would notice it. One has none: `Engine::beat` calls a function pointer
that no constructor initialises, and nothing in the repository says when the host
must register it; the models assume that it has.

## 6. Not modelled

* Drawing, shaders, thumbnails and Syphon output: output only, nothing in the engine
  depends on it. File and device I/O are openFrameworks'.
* The position within a video: the function that would use start and end is called
  by nothing.
* MIDI and OSC: the handlers end in a TODO before they would call the engine. The one
  effect an input has, a key that selects a layer, is `Select` in `Layers`.
* FreeFrame effects: compiled out.
* Setters that clamp or assign a value no other code depends on, names and captions.
* The properties of objects in a saved set, and the JSON text.
* `TCPProtocol::close`: only `ofApp::close` calls it, which is no callback of
  openFrameworks and is called by nothing.
* Of libzmq: hiccups and conflation (neither program uses them), messages with routing
  ids, and all that lies beside pipes, mailboxes and the client's session - transports, engines, security mechanisms, other socket
  types. Of the other vendored code (tinyxml, ofxUI, Syphon and the other addons):
  all of it; the programs call little of it, and none of it keeps state that the
  properties above depend on.
