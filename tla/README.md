# A TLA+ model of the camera streaming server

The server drives a set of libcamera cameras on behalf of at most two WebSocket
clients: a *commander*, which owns the camera lifecycle and attributes, and an
*observer*, which may only watch. Paths below are relative to the repository
root; the server's code is in `src/`, its protocol in
`docs/websocket-protocol.md`.

## 1. Inventory

| Component | State it keeps | Operations | Threads that meet in it | What makes it correct |
|---|---|---|---|---|
| `WebSocketServer` | `system_state`, one `ClientSession` per role, the capture watchdog | upgrade/open/message/drain/close, 18 commands, `captureWatchdogLoop` | uWS loop, watchdog, both streaming threads, capture callbacks | the state agrees with the cameras; sockets are not used after they are freed; clients know the state; handlers return |
| `command_parser` | none | `parseCommand`, `isCommandPermitted`, `isCommandAllowed`, builders | loop | an observer cannot move the pipeline |
| `UwsFrameSink` | `valid_`, `buffered_`, the socket | `send`, `sendText`, `invalidate` | any sender, loop | a deferred send touches the socket only while it lives |
| `CameraManager` | the cameras | `configureAll`, `startAll`, `stopAll`, `unconfigureAll`, `pollStalledCameras` | loop, watchdog | a failure half-way is undone or harmless |
| `Camera` | lifecycle, requests, mappings, three controls, newest frame, stall latch | `configure`, `start`, `stop`, setters, `onRequestComplete`, `getFrameForStreaming` | loop, libcamera's completion thread, watchdog, streamers | no setting torn or lost; no request lost; no stale frame; a dead camera is reported |
| `FrameProcessor` | backlog budget, three queues, armed trigger, detection slots | `configure`, `start`, `stop`, `saveFrame`, `armTrigger`, `flushBufferedFrames` | loop, capture callbacks, writer pool, detection worker, streamers | nothing accepted is lost; the budget counts exactly; triggers are answered once, with the right frames; no camera starves |
| `StreamManager`, `stream_priority`, `RateController` | subscriptions, cursors, backpressure, the priority link | `setSink`, `clearSink`, start/stop, `streamingLoop`, chunking | streaming thread of each role, loop | every subscription is served; the observer yields; a frame is sent whole or abandoned |
| `capacity`, `focus_region`, `sensor_mode`, `frame_subsample`, `frame_processor_helpers` | none | pure functions | - | arithmetic at its edges |
| detectors | OpenCV | `detect` | worker | image processing |
| `main` | the server | options, signals | - | - |

How they interact: a command arrives on the loop thread and its handler calls
`CameraManager` and `FrameProcessor` synchronously, joining threads as it goes.
Frames arrive on libcamera's completion thread, which calls
`FrameProcessor::saveFrame` and then publishes the frame in the camera's slot.
Streaming threads poll that slot (or, in a detector mode, the processor's) and
send through the sink, which defers to the loop. The watchdog polls the cameras
and sends the same way. The hard behaviours are therefore interleavings of
these threads around start, stop and close; sends that meet backpressure, a
reconnection or a congested commander in the middle of a frame; failures half-way through
`configureAll` and `startAll`; a mode change during a session; and budgets at
their limit. `PROJECT.json` lists them one by one under `hazards`.

## 2. Modules

| Module | Models | Composes |
|---|---|---|
| `CommandParser` | the two command gates | - |
| `WebSocketServer` | the control plane: both client slots, every handler that changes the state, sinks and deferred sends, subscriptions, the watchdog thread | extends `CommandParser`; contains the parts of `CameraManager`, `Camera::state`, `UwsFrameSink`, `StreamManager` that handlers drive |
| `FrameProcessor` | the data plane: a session from start to stop, capture callbacks, budget, writers, detection worker, triggers, `reset_frame_counts` | the order of the start/stop handlers is part of it (`phase`) |
| `Camera` | one camera, load by load and store by store | - |
| `StreamManager` | one client's session: sink and socket buffer, subscriptions, header-only mode, backpressure, priority, the streaming thread | sees the commander's session as a snapshot |
| `CaptureSession` | abstract: what a recording session promises | implemented by `FrameProcessor` |
| `FrameGeometry` | decimation, luma extraction, the focus block, as operators | - |
| `SensorMode` | the choice of the raw mode, a round of its loop per step | - |
| `Capacity` | demand, budget and the decision of `start_cameras`, as operators | - |
| `RateController` | the pace of chunks | - |
| `Algorithms` | the pure parts on a chosen input, and their properties | extends the four above |
| `WebSocketServerProofs`, `CameraProofs`, `StreamManagerProofs` | theorems about the module of that name | - |
| `AlgorithmProofs` | theorems about the pure parts | extends `Algorithms` |
| `FrameProcessorProofs` | the types of `FrameProcessor`, and theorems about detection | - |
| `TriggerProofs` | theorems about triggers | extends `FrameProcessorProofs` |
| `SessionProofs` | theorems about a session's threads, routes and stop | extends `TriggerProofs` |
| `BacklogProofs` | theorems about the backlog, and the refinement of `CaptureSession` | extends `SessionProofs` |
| `MC*` | the modules TLC runs, with their symmetry sets | - |

### WebSocketServer

A handler runs on the loop thread. One that joins a thread or walks over the
cameras is a sequence of actions, `loopOp` says which handler is at which
point, and no other handler or deferred send runs until it is back at `"poll"`.
`handleStartCameras` is followed by one `startCamera` per camera and
`startDone`, or by `stopCamera` steps and `startFailed`; `handleStopCameras` by
`joinWatchdog`, `stopCamera` steps and `stopDone`; `close` by `clearSink`,
`cleanupConnection` and `closeSlot`. `configureAll` and `unconfigureAll` are
single steps because no other thread looks at a camera that is not running.

A sink is identified with its socket; `alive` are the sockets uWS has not
freed, `valid` the sinks with `valid_` set, `deferQ` the loop's queue,
`sentFreed` the history of sends to a freed socket. The streaming thread sends
through its raw pointer `streamSink`, everybody else through the session's
`sink`. A send by the watchdog is two steps (`reportSink`, `reportDefer`), since it
checks `valid_` and defers later. A state message is the system state and the two
connection flags; `view` is the last one each client received, and
`handleGetState` overtakes the queue as the code's direct `ws->send` does.

Left out: replies without a state, frame bytes, `set_header_only` and the drain
handler (in `StreamManager`), the camera setters (in `Camera`),
`trigger_capture` and `reset_frame_counts` (in `FrameProcessor`), and process
shutdown.

### FrameProcessor

A frame is a camera and a place in its stream. Frames of a session have one
size, so `backlog` counts frames. The four detector modes are one, `DETECT`;
what the detector finds is a free choice (`detect`). `phase` is where the
handler of `start_cameras` or `stop_cameras` is: `FrameProcessor::start`, the
feasibility check, the cameras one by one, and back down; `stop` in the four
parts that block (`stop`, `joinWorker`, `stopWriters`, `joinWriters`). A
callback is a record `cap[c]`: `copyFrame`, one of the `saveFrame_*` branches,
then `reserve`, `push` and `ack` as separate steps, since each takes its own
lock. Writers and the worker likewise. `accepted`, `refused`, `disk`, `lost`,
`acks`, `want`, `bypassed` and `session` are history. `reset_frame_counts` starts
the frame ids again, which the place in the stream does not show.

libcamera delivers the completions of all cameras from one thread in practice;
the model lets callbacks of different cameras overlap, as the code's
compare-exchange in `reserveBacklog` and its mutexes provide for.
A pool that is started while writers of an earlier session still wait (possible
only after a mode change during a session) gains no more threads in the model.

`CaptureSession` says the same without threads, queues and modes: frames are
let in while the session is open and the budget has room, each leaves memory
once, written or failed, and the session ends with nothing held.
`ImplementsSession` is its specification under the mapping `Session`: a session
is open from `start` until the handler is idle again, `held` is what the
buffer, the batch, the queue and the hands of every thread hold, `disk` and
`lost` are the histories of the same names.

### Camera

`setControl`, `setFlag` and `bumpGeneration` are the stores of a setter;
`loadGeneration`, `loadFlag` and `loadValue` the loads of `onRequestComplete`.
The three controls follow one protocol and share nothing, so a behaviour has
one, `control`; a frame duration is a single variable, which `setControl` and
`loadFlag` treat in one step. `configure` either succeeds or has no effect:
every error path releases what was taken. `queued` counts the requests libcamera has.
`limitPasses` is time passing the stall limit. What libcamera does is external:
`Camera::stop` returns when no callback runs, a control that is not set keeps
its value (as `src/camera.cpp:601` says), and a request that goes back while the
camera runs is accepted with its controls. `hw_max` is the longest frame
duration libcamera reports, 0 when it reports none (`HwMax` are the ones tried);
a released duration is then not sent at all. `unsent` is history: the release of
a frame duration was counted as applied, by `start` or by a callback of such a
camera, and no control for it was sent.

### StreamManager

A module instance is one session; its role is chosen in `Init`. The two
sessions together, with their sinks and deferred sends, are in
`WebSocketServer`, where the thread is only a sender; here the other session is
`higher`, an arbitrary snapshot of the commander's that changes at any time, so
the observer is checked against every way a commander may behave.

The streaming thread has one step per lock it takes or flag it reads: `loopTop`,
`refreshOrder`, `beforeFrame`, `withhold`, `pickCamera` for a round;
`beginTransfer` and `sendChunkHeader` for a frame; then per chunk `beforeChunk`, `waitPressure`,
`waitForBufferDrain`, `waitForPriorityClear` and `sendChunkData`. A wait that
the code bounds by a clock (5 s of backpressure, 2 s for the buffer, 5 s for
the commander) may end at any time; a wait whose end is a condition is a guard.
The loop thread's side is `setSink`, `clearSink` and `handleStopCameras` with
their join (`joinStreaming`: the loop thread does nothing else meanwhile, not
even a drain), `startStreamingCamera`, `stopStreamingCamera`,
`setHeaderOnlyMode` and `drain`, which is the network taking bytes and the
drain handler with its two water marks.

Data: the buffer counts messages; a frame is its camera and number of chunks; a
cursor is a member of `fresh` (there is a frame past it); `last_sent` a member
of `resting`. A camera's options are constants (`Paced`, `Subsampled`).
`last_backpressure_us` shows only in a snapshot (`recent`). `rate_controller`
only delays a chunk, and is a module of its own. The fetch of a frame and the
store of its cursor are one step, as is the last send of a frame and the store
of `last_sent`; the first read of `header_only_mode` happens with the fetch,
the second in `beginTransfer`. `isTransferTimedOut` and the wait for a transfer in
progress cannot happen on a thread that is the only one to begin transfers, and
the sink cannot vanish under it; `withhold` and `SendFails` keep the branches.
uWS drops nothing: its limit of 10 MB lies beyond what the soft limit lets
through before the idle timeout closes a dead connection.
`sendFrameForTest` and the destructor are left out.

### The pure modules

`FrameGeometry` takes a pixel as a position: `decimatePlane` gives the source
pixels behind each output pixel, `extractYFromYUV420` the byte each luma comes
from. `SensorMode` runs the loop of `selectRawMode` a round at a time; a format
is its bit depth and the sizes it is offered at. Rates in `Capacity` are exact quotients where the code has doubles, and
truncated where it truncates. `RateController` counts rates in hundredths of a
chunk per second; `chunk_send_times` is written and never read, and is left out. `Algorithms` puts them together: `Init`
chooses an input (a frame to decimate, a sensor mode and a frame size, a list of
formats, a capture) or the turn of the rate controller, and the properties
compare what the operators return, or where the loop ends, with what they
promise. `MCAlgorithms` only lists the inputs TLC tries.

## 3. Runs

Passing runs:

| Run | Checks | Bounds |
|---|---|---|
| `server` | `TypeOK`, `StateAgreement`, `WatchdogOnlyWhileRunning`, `NoSendAfterFree`, `RawSinkOwned`, `SubscriptionsServed`, `NoLeakedSession`, `ViewsCurrent`, `OnlyCommanderActs`, `HandlersReturn` | 2 cameras, 2 sockets, 3 deferred sends |
| `fp_record` | `TypeOK`, `BacklogExact`, `StoppedMeansFlushed`, `KeepsPrefix`, `ImplementsSession` | `batch`, `buffer` and detector sessions, 2 cameras, 2 writers, budget 2, batches of 2, 2 frames per camera, writes may fail; the worker may still detect during a stop |
| `fp_trigger` | `TriggerAnsweredOnce`, `TriggerCapturesWanted`, `AckedAreWritten` | 2 triggers, skips of 0 and 1, a budget that suffices, starts may fail |
| `fp_detect` | `NoStarvation`, `NoStaleDetection`, `DetectionsVisible`, `StreamsMoveForward` | 2 frames per camera, 1 reset |
| `fp_liveness` | `StopCompletes` | every mode, with and without saving; 1 frame per camera, 1 trigger |
| `camera` | `TypeOK`, `ControlsConverge`, `OnlyAsked`, `BuffersMapped`, `RequestsConserved`, `ConsumersMoveForward` | a focus or a frame duration, 3 settings, 2 frames, 2 buffers, 2 streamers; a frame duration range that is known or not; starts may fail at any request |
| `stream` | `TypeOK`, `ObserverYields`, `StopStreamPrompt`, `FramesWhole`, `NoCameraStarved`, `WaitsEnd`, `NoSilentStall` | 2 cameras, one paced and subsampled; 2 chunks per frame; soft limit 1 message, low water 0, 3 messages told apart; a commander that is clear or not |
| `algorithms` | `GeometryInside`, `RawModeDeepest`, `AcceptedIsSustained`, `PressureSlows` | images up to 18 pixels a side, odd, padded and cut short; up to two raw formats, with and without the size; a second of 10 ticks, so that the limits are met to a byte; 3 backpressure events between resets |

Why the bounds are enough. Two cameras make "some, but not all" possible, which
is what a failure half-way and round robin need. Two sockets are one per role,
or a client and a socket that only a late deferred send refers to; the theorems
of section 4 are about any number. A queue of three holds two state pushes and
a frame. The budget is below what the cameras deliver, so it is reached and, in
`batch`, freed again. Three settings let a setter run
between the callback's load of the generation and its load of the value, and
again afterwards. In `stream` two chunks put a chunk boundary inside a frame,
and one message more than the soft limit fits into the buffer, so both water
marks are crossed in both directions; three cameras with wider marks (soft
limit 2, low water 1) were checked for the invariants as well. The bounds limit inputs (frames, settings, triggers, sends
begun), never a step half-way, so no run is cut off inside a handler.

Violation runs, each a disagreement between the code and what a document or a
comment says of it (`findings` in `PROJECT.json` quotes each):

| Run | Shows |
|---|---|
| `server_idle` | a `configure` that fails at a later camera leaves IDLE with cameras allocated, and no command that frees them is accepted |
| `fp_v_mode_flush` | `set_process_mode` during a `buffer` recording loses the recording |
| `fp_v_ack` | a `trigger_result` names a file the budget refused |
| `camera_v_stall` | a late latch hides the next, permanent stall |

The modelling met more of them. They can be read off the code and have no run;
where one limits a property or a run, the last column says so:

| Code | Text it disagrees with | Limits |
|---|---|---|
| `src/frame_processor.cpp:27`: `set_process_mode` is in force at once, so a trigger can be armed in a session started in another mode | `docs/websocket-protocol.md:528`: it leaves the processor in the mode it started with | passing runs have `ModeWhileRunning = FALSE` |
| `src/frame_processor.hpp:174`: `next_trigger_id` is set at construction only | `docs/websocket-protocol.md:522`: it is reset by `start_cameras` | `TriggerAnsweredOnce` counts ids across sessions |
| `src/frame_processor.cpp:134`: frames buffered by a start that fails half-way are neither flushed nor counted by the next session, unless that is a `buffer` session | `docs/websocket-protocol.md:255`: the budget is a ceiling on the RAM held | `fp_record` has `StartMayFail = FALSE` |
| `src/frame_processor.cpp:333`: in `batch` the writers free the budget, and recording goes on after a gap | `docs/websocket-protocol.md:259`: what is flushed is a contiguous prefix | `KeepsPrefix` is about `buffer` |
| `src/frame_processor.hpp:311`: a frame in the detection worker's hands during `reset_frame_counts` is published afterwards | `src/frame_processor.hpp:305`: no frame with a pre-reset id is emitted | none |
| `src/camera.cpp:301`: a frame duration released while stopped stays locked, as `start` sends no limits | `docs/websocket-protocol.md:420`: libcamera defaults apply at the next start | `ControlsConverge` excepts it (`unsent`) |
| `src/camera.cpp:603`: a frame duration released at run time is not sent if the camera reports no range, and its generation counts as applied | `src/camera.cpp:600`: the lock is released; `docs/websocket-protocol.md:420` | `ControlsConverge` excepts it (`unsent`) |
| `src/camera.cpp:337`: a start that fails after the first frame leaves that frame in the slot | `src/camera.hpp:158`: a later consumer never receives a stale frame | none |
| `src/stream_manager.cpp:311`: the commander is asked before a round and before each chunk, not before a header; a frame given up moves on to the next camera's header | `docs/websocket-protocol.md:710`: a chunk is handed over only while the commander is clear | `ObserverYields` allows a message per camera |
| `src/stream_manager.cpp:207`: a commander that sets header-only mode, or unsubscribes, counts as clear while its last frame still drains | `src/stream_priority.hpp:11`: only while the commander's connection is clear | none |
| `src/stream_manager.cpp:229`: backpressure holds back headers as well in header-only mode | `docs/websocket-protocol.md:700`: header-only frames are unaffected | none |
| `src/stream_manager.cpp:45`: `header_only_mode` survives the connection that set it | `docs/websocket-protocol.md:856`: it is per connection | none |
| `src/rate_controller.cpp:64`: after backpressure the smoothed rate may go on falling through a run of successes | `src/rate_controller.hpp:10`: a run of successes increases it | `PressureSlows` is about backpressure only |
| `src/camera.cpp:188`: a failing `mmap` unmaps the regions of its buffer, and `releaseConfiguredResources` unmaps them again | `src/camera.hpp:208`: the release is idempotent | `configure` in the model has no partial failure |

Fairness. In `WebSocketServer`, weak fairness of a begun handler, of the loop's
deferred sends and of the watchdog: threads the kernel schedules. In
`FrameProcessor`, of handlers, worker, writers and callbacks. In `Camera`, of
the watchdog, the completion thread and time. In `StreamManager`, of the
streaming thread, of a join, of the network (`drain`: a socket that takes
nothing is closed by the idle timeout, which ends the session) and of a paced
camera's period; a commander need not ever clear, and `NoSilentStall` asks for
nothing while it is not. Nothing obliges clients to send
or cameras to deliver.

Deadlock is checked except in `algorithms`, whose inputs have no next step: a
client can always do something.

Each property has a mutant of the code it would catch, named after the
definition it is a slip of and placed before it (`writerExit_Eager`,
`close_SinkFirst`, ...); `mutants` in `PROJECT.json` lists them.

## 4. Proofs

Every invariant and action property that a passing run checks is proved for all
values of the constants; each theorem is about the definition the run checks.
The liveness properties are not (see the end of this section). For the state
machines the argument is always the same: a property is not inductive by
itself, so an invariant is built of named parts that are, with one lemma per
part (`...Step`) and in it one step per action; `Inv => Property` is then a
line.

### The control plane

`WebSocketServerProofs` proves, for any number of cameras, any set of sockets
and any bound on deferred sends, from `ServerAssumption` alone:

| Theorem | Property |
|---|---|
| `TypeCorrect` | `TypeOK` |
| `StateAgrees` | `StateAgreement` |
| `WatchdogSeesOnlyRunning` | `WatchdogOnlyWhileRunning` |
| `SessionsEnd` | `NoLeakedSession` |
| `NoUseAfterFree` | `NoSendAfterFree` |
| `RawSinkIsOwned` | `RawSinkOwned` |
| `SubscriptionsAreServed` | `SubscriptionsServed` |
| `ObserverCannotAct` | `OnlyCommanderActs` |
| `ClientsAreUpToDate` | `ViewsCurrent` |

The argument. None of these is inductive by itself, because a handler passes
through states between two polls that break what it restores. `PipelineInv`
says what is true at each point of a walk: while starting, the cameras below
`loopCam` run and the others are configured; while unwinding or stopping, those
below are configured and the rest are not idle; the watchdog exists only in
RUNNING with no walk under way. At `"poll"` that is the agreement. `SinkInv` does the same for the
close sequence: who owns a sink, that a valid sink is owned, that a socket
outlives its sink, that the two roles never share one. `StreamInv` ties
subscriptions to the connection and the thread (and the commander's to
RUNNING), with the exception of a close that is under way. `CommanderInv` says
that a handler of the commander's is only ever under way while it is connected.
One lemma per invariant has a step per action (`PipelineStep`, `SinkStep`,
`StreamStep`, `CommanderStep`), and `TypeStep` supplies the types.

`ViewsCurrent` is about the moments between handlers; `Told` says it of every
moment, for each sink that is still owned: the newest state message queued for
it, or else the client's view, is the current one. A step that changes the state
or the connections also pushes; what remains are the queue lemmas (`NewestPushed`,
`NewestKept`, `NewestTail`) and `Addressed`: a valid sink has an owner, and its
queued messages name that owner's role, so an old connection's message is never
applied to the view of a new one. That holds because a sink is not used again
while a queued send refers to it.

### Camera

`CameraProofs`, from `CameraAssumption`:

| Theorem | Property | Part of the invariant it needs |
|---|---|---|
| `CameraTypes` | `TypeOK` | - |
| `CallbackMemory` | `BuffersMapped` | `Lifecycle`: the state, the handler's place and whether libcamera runs fit together |
| `NoRequestLeaks` | `RequestsConserved` | `Requests`: those with libcamera, in the callback's hands and still to be queued are all of them, unless the camera is stopping |
| `StreamersMoveForward` | `ConsumersMoveForward` | `Slot`: a cursor is never past the sequence number, and one behind it belongs to a streamer that had an older frame |
| `NoTornSetting` | `OnlyAsked` | `Asked`: every value in a variable or in the callback's hands was asked for |
| `NoLostSetting` | `ControlsConverge` | `Loads`: with no setter under way, a callback that has taken the current generation has the setting in force in its hands, or libcamera has it; the same of a released frame duration, unless `unsent` |

`ControlsConverge` covers the release of a frame duration while the camera runs.
What it excepts is recorded in `unsent`: a release that was pending when `start`
came, or one on a camera without a known range (both are rows of the second
table of section 3); the exception ends with the next setting that is sent, and the
property also says that nothing but a release is ever unsent.

### StreamManager

`StreamManagerProofs`, from `StreamAssumption`, for any number of cameras and
chunks, any water marks and any behaviour of the commander:

| Theorem | Property | Part of the invariant it needs |
|---|---|---|
| `SessionTypes` | `TypeOK` | - |
| `SocketGetsFrames` | `FramesWhole` | `Threads`: while the thread lives the sink stays, as the loop thread waits in its join; `Chunking`: the chunk index is within the frame |
| `StopIsPrompt` | `StopStreamPrompt` | `Prompt`: from the check of the subscription to the next message a camera has no late one |
| `ObserverGivesWay` | `ObserverYields` | `Yields`, `Round`: the messages sent since the commander became congested are at most the cameras the round has been through |
| `RoundRobinFair` | `NoCameraStarved` | `RoundRobin`: `passed[c]` is at most the number of cameras visited since `c` in the cyclic order (`Since`); a change of the subscriptions in the middle of a round leaves only the frame already begun |

### FrameProcessor

Four modules, each built on the ones before it, from `ProcessorAssumption`. Some
theorems have hypotheses; each is a limit of the code itself:

- **mode**: `~ModeWhileRunning`. With a mode change during a session the
  property is false (`fp_v_mode_flush`, and the first row of the second table
  of section 3); TLC also refutes `TriggerCapturesWanted`, `NoStaleDetection`
  and `KeepsPrefix` on instances that allow one;
- **writer**: `Writers # {}`. `writer_threads` of 0 leaves the queue to nobody
  (a hazard at `src/frame_processor.cpp:190`);
- **start**: `StartMayFail => "BUFFER" \notin Modes`. What a `buffer` start that
  fails half-way has buffered is neither flushed nor counted
  (`src/frame_processor.cpp:134`);
- **room**: `NumCameras * MaxFrames <= Budget`. Without room for every frame a
  trigger result may name a refused one (`fp_v_ack`).

The instances `fp_record` (mode, writer, start) and `fp_trigger` (all four, with
starts that fail) satisfy them.

| Module | Theorem | Property | Hypotheses |
|---|---|---|---|
| `FrameProcessorProofs` | `PipelineTypes` | `TypeOK` | none |
| | `OffersAreVisible` | `DetectionsVisible` | none |
| | `StreamsNeverGoBack` | `StreamsMoveForward` | none |
| | `DetectorFair` | `NoStarvation` | none |
| `TriggerProofs` | `TriggersAnswered` | `TriggerAnsweredOnce` | none |
| | `TriggersGetWhatTheyWant` | `TriggerCapturesWanted` | mode |
| `SessionProofs` | `SlotsEmptied` | `NoStaleDetection` | mode |
| | `BufferKeepsPrefix` | `KeepsPrefix` | mode |
| | `StopFlushes` | `StoppedMeansFlushed` | mode, writer, start |
| `BacklogProofs` | `BacklogCountsFrames` | `BacklogExact` | mode, writer, start |
| | `PipelineImplementsSession` | `ImplementsSession` | mode, writer, start |
| | `AcksAreWritten` | `AckedAreWritten` | mode, writer, start, room |

The invariants, in the order they build on each other:

- `TypeInv` adds to the types that a callback at work holds the frame of its own
  camera with the current number (`CapOK`), and the shape of triggers and slots.
- Detection. `Order`: along saveFrame, pending slot, worker, published slot and
  streamer, frames of one camera are in order, those nearer the streamer older;
  `Numbers`: the same of the sequence numbers. `Waiting`: what a pending frame
  has waited for, plus the cameras that may still go before it in the worker's
  round robin, are fewer than the cameras.
- Triggers. `Ids`: every id below the next one is in exactly one of the pending
  trigger, the hands of one callback and the answers. `CallbacksOn`: only a
  camera that is on has a callback. `Wanted`: for a pending trigger, the frames
  captured and the frames still due (`Due`: the next frame of the camera plus
  what it has yet to skip) are the frames that were wanted.
- Sessions. `Base`: the worker and the writers live from `start` until their
  joins, and accepted frames are below their camera's counter. `Routes`: which
  queue may hold frames in which mode. `Drained`: after each of the four parts
  of `stop`, which queues are empty and stay so. At the end of the last part
  nothing is held (`Flushed`).
- The backlog. `Once`: an accepted frame is in exactly one of the buffer, the
  batch, the queue and the hands of one thread. `Fresh`: the frames held or
  finished are older than any that may yet be accepted, so an accepted one is
  new. `Loaded`: a writer or worker at work has a frame in its hands.
  `Exact`: the backlog is the number of frames held. These are proved by sorting all
  steps of the pipeline into three kinds (`MovesStep`): frames move between
  places (`Keeps`), one new frame enters (`LetsIn`), some leave for the disk or
  as failed (`LetsGo`). Read through the mapping `Session`, the same three kinds
  are the stuttering step, `Accept` and `Write` of `CaptureSession`, to which
  the start and the end of a session are added (`SessionStep`).
- `CapturesSafe`: with room for every frame no reservation fails, so each frame
  a pending or answered trigger names is still on its way, held, written or lost.

### The pure parts

`AlgorithmProofs` proves, for inputs of any size:

| Theorem | Property | Assumption |
|---|---|---|
| `GeometryStaysInside` | `GeometryInside` | `AlgorithmAssumption` |
| `DeepestModeSelected` | `RawModeDeepest` | `AlgorithmAssumption` (types only) |
| `CapturesSustained` | `AcceptedIsSustained` | `CapacityAssumption`, `AlgorithmAssumption` (types only) |
| `BackpressureSlows` | `PressureSlows` | `RateAssumption` |

`AlgorithmAssumption` says of a frame what the code is given: the factor is one
that `isValidFactor` takes, a row is padded or not but never cut, and a frame
handed on as it is (factor 1) has all the bytes its geometry implies; with a
larger factor it may be short, which the code checks. A sensor mode has two
pixels or more for each cell of the focus grid, and a frame four on each axis:
below that `cellSize`'s minimum of 2 may put the block outside the mode, or
scaling may leave it empty.

- Decimation. An output pixel reads a square of `f * f` pixels
  (`SquareCardinality`, by a bijection); dividing them by `f` gives the output
  pixel back (`DivBlock`), so none is read twice. `GeometryFits`: cut to even
  numbers, `f` times the geometry fits the luma plane, and `f` times its half
  fits the chroma planes, odd sizes included. `PlanesInside`: each plane ends
  inside the data when the data is as long as the code's check asks, whatever
  the padding. `PlaneReads` puts them together for one plane.
- The focus block. `CellSize`: 8 cells fit the mode, 16 do not. Rounding to the
  nearest keeps the block inside (`RoundingInside`) and not empty
  (`RoundingApart`: the edges are four cells apart, which at four pixels or
  more of frame is over one pixel of it).
- The raw mode. The invariant of the loop, `DeepestBefore`: the selection is the
  deepest fitting format of those visited, or none fits. The loop being a
  machine, no induction over the list is needed.
- Capacity. The demand is cut to whole bytes once, so it is off by less than one
  (`DivBounds`, `RateAgainst`); a budget is never 0 (`BudgetPositive`), which is
  the one value for which the check of the headroom would abstain.
- The pace. `PressureSlows` is not inductive: backpressure halves the rate, and
  half of a rate far above the pace would still pull the pace up. `RateInv` says
  that this cannot be: the rate is at most twice the pace, plus 4 units of
  rounding. A raise of a tenth keeps that, since the pace follows by three
  tenths of the way; so does a reset, which sets both.

### Only model-checked

The liveness properties `HandlersReturn`, `StopCompletes`, `WaitsEnd` and
`NoSilentStall`: they need fairness, which is out of the prover's reach.

## 5. Plan

1. Core: `CommandParser`, `WebSocketServer`, `FrameProcessor`, `Camera`, and
   the theorems above. Done.
2. `StreamManager`, the pure algorithms, and the abstract `CaptureSession` with
   the refinement. Done.
3. Proofs of the safety and action properties of the four state machines and of
   the refinement. Done.
4. Proofs about the pure modules. Done.

Not modelled, and why:

- the detectors and image copies: image processing, no control; what a detector
  finds is a free choice in `FrameProcessor`;
- `availableMemoryBytes` and the disk probe: measurements, inputs of `Capacity`.
  A probe that fails is cached as 0 for the life of the process, so the check
  abstains for that directory from then on;
- JSON syntax and the builders of configurations: their results are the free
  inputs of the handlers. (`camera_id` is cut to 32 bits before it is compared
  with the number of cameras.);
- logging, file and directory names, the layout of headers and of the detection
  block: no property is about them;
- process shutdown: `stop()` runs in a signal handler, in the middle of
  whatever the loop thread does, and the process ends with it; its locks are not
  async-signal-safe, and a model could only restate that;
- `tools/`, `scripts/` and tests.
