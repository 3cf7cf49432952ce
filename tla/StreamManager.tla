--------------------------- MODULE StreamManager ---------------------------
(***************************************************************************)
(* One client's streaming session: StreamManager, the socket behind its    *)
(* sink, and the thread that pulls frames and cuts them into chunks.  The  *)
(* server owns one session per role; the observer's yields to the          *)
(* commander's, of which it sees a snapshot (higher) that may change at    *)
(* any time.                                                               *)
(*                                                                         *)
(* Two threads share this state: the uWS loop thread, which attaches and   *)
(* detaches the sink, changes the subscriptions and hears of backpressure, *)
(* and the streaming thread, one step per lock it takes or flag it reads.  *)
(* A wait that the code bounds by a clock may end at any time.             *)
(***************************************************************************)
EXTENDS Integers, FiniteSets, FiniteSetsExt

CONSTANTS NumCameras,    \* discovered cameras
          Chunks,        \* chunks in the payload of a frame
          Paced,         \* cameras the client subscribes with a max_fps
          Subsampled,    \* cameras the client subscribes with subsample > 1
          Soft,          \* SOFT_BUFFER_LIMIT, and the high water mark
          LowWater,      \* BACKPRESSURE_LOW_WATER
          MaxBuffered,   \* bound: buffered messages that are told apart
          HigherStates   \* what a session may see of the commander's

Cameras == 0 .. NumCameras - 1

(* stream_priority::Snapshot; congested stands for more than Soft bytes    *)
(* buffered, recent for backpressure within the last kBackpressureHold.    *)
Snapshot == [has_sink : BOOLEAN, streaming_payload : BOOLEAN,
             congested : BOOLEAN, in_backpressure : BOOLEAN, recent : BOOLEAN]

ASSUME StreamAssumption ==
  /\ NumCameras \in Nat \ {0}
  /\ Chunks \in Nat \ {0}
  /\ Paced \subseteq Cameras
  /\ Subsampled \subseteq Cameras
  /\ LowWater \in Nat /\ Soft \in Nat /\ MaxBuffered \in Nat
  /\ LowWater < Soft /\ Soft < MaxBuffered
  /\ HigherStates \subseteq Snapshot

VARIABLES
  role, higher,          \* role_; what yield_to_ shows of the commander
  sink,                  \* is a sink attached?
  buffered,              \* UwsFrameSink::bufferedAmount(), in messages
  in_backpressure,       \* the socket's flag: the drain handler's state
  has_backpressure,      \* the session's flag
  streaming_cameras,     \* the subscriptions
  fresh,                 \* subscribed cameras with a frame past the cursor
  resting,               \* paced cameras whose next send is not due yet
  header_only_mode,
  should_stop, streaming_active,
  loop,                  \* what the loop thread waits in a join for
  pc,                    \* the streaming thread; "off" when there is none
  camera_order, turn,    \* camera_order; the camera at current_index
  checked,               \* cameras_checked
  cam, total, chunk,     \* the frame in hand, its chunks, the next of them
  in_progress,           \* is current_transfer in progress?
  wire,                  \* history: chunks this socket is owed of a header
  excess,                \* history: messages since the commander congested
  late,                  \* history: messages of a camera since stop_stream
  passed                 \* history: frames sent while a camera's one waited

envVars    == <<role, higher>>
linkVars   == <<sink, buffered, in_backpressure, has_backpressure>>
subVars    == <<streaming_cameras, fresh, resting, header_only_mode>>
ctlVars    == <<should_stop, streaming_active, loop>>
orderVars  == <<camera_order, turn, checked>>
frameVars  == <<cam, total, chunk, in_progress>>
threadVars == <<pc, orderVars, frameVars>>
pastVars   == <<wire, excess, late, passed>>
vars == <<envVars, linkVars, subVars, ctlVars, threadVars, pastVars>>

(* stream_priority::isClear. *)
isClear(s) ==
  \/ ~s.has_sink \/ ~s.streaming_payload
  \/ ~s.in_backpressure /\ ~s.congested /\ ~s.recent

(* isClearForLowerPriority of the commander's session, as yield_to_ sees   *)
(* it; the commander itself yields to nobody.                              *)
Clear(s) == role = "COMMANDER" \/ isClear(s)

(* streaming_cameras is ordered by camera id, and so is camera_order. *)
First(S) == IF S = {} THEN 0 ELSE Min(S)
After(S, c) == First(IF \E d \in S : d > c THEN {d \in S : d > c} ELSE S)

NobodyPassed == [c \in Cameras |-> 0]
-----------------------------------------------------------------------------
Init ==
  /\ role \in {"COMMANDER", "OBSERVER"}
  /\ higher \in HigherStates
  /\ sink = FALSE /\ buffered = 0
  /\ in_backpressure = FALSE /\ has_backpressure = FALSE
  /\ streaming_cameras = {} /\ fresh = {} /\ resting = {}
  /\ header_only_mode = FALSE
  /\ should_stop = FALSE /\ streaming_active = FALSE
  /\ loop = "poll"
  /\ pc = "off"
  /\ camera_order = {} /\ turn = 0 /\ checked = 0
  /\ cam = 0 /\ total = 0 /\ chunk = 0 /\ in_progress = FALSE
  /\ wire = 0 /\ excess = 0
  /\ late = [c \in Cameras |-> 0]
  /\ passed = NobodyPassed
-----------------------------------------------------------------------------
(* The loop thread.                                                        *)

(* A streaming thread starts with an empty camera_order. *)
SpawnIf(wanted) ==
  IF wanted /\ ~streaming_active
  THEN /\ should_stop' = FALSE
       /\ streaming_active' = TRUE
       /\ pc' = "top"
       /\ camera_order' = {} /\ turn' = 0 /\ checked' = 0
  ELSE UNCHANGED <<should_stop, streaming_active, pc, orderVars>>

(* A setSink that keeps the flag of the connection before. *)
setSink_KeepsPressure ==
  /\ loop = "poll" /\ ~sink
  /\ sink' = TRUE /\ buffered' = 0
  /\ in_backpressure' = FALSE
  /\ SpawnIf(streaming_cameras # {})
  /\ wire' = 0
  /\ UNCHANGED <<envVars, has_backpressure, subVars, loop, frameVars, excess,
                 late, passed>>

(* open: a new socket and its sink. *)
setSink ==
  /\ loop = "poll" /\ ~sink
  /\ sink' = TRUE /\ buffered' = 0
  /\ in_backpressure' = FALSE /\ has_backpressure' = FALSE
  /\ SpawnIf(streaming_cameras # {})
  /\ wire' = 0
  /\ UNCHANGED <<envVars, subVars, loop, frameVars, excess, late, passed>>

(* stopAllStreaming, up to the join; `then` is the handler that called it. *)
stopAllStreaming(then) ==
  /\ loop = "poll" /\ sink
  /\ streaming_cameras' = {} /\ fresh' = {} /\ resting' = {}
  /\ should_stop' = (should_stop \/ streaming_active)
  /\ loop' = then
  /\ passed' = NobodyPassed
  /\ UNCHANGED <<envVars, linkVars, header_only_mode, streaming_active,
                 threadVars, wire, excess, late>>

(* close (cleanupConnection) and, for the commander, stop_cameras. *)
clearSink == stopAllStreaming("close")
handleStopCameras == role = "COMMANDER" /\ stopAllStreaming("stop_cameras")

(* A join that nobody waits for: the thread may still be in a frame. *)
joinStreaming_Detached ==
  /\ loop # "poll"
  /\ streaming_active' = FALSE
  /\ loop' = "poll"
  /\ in_progress' = FALSE
  /\ IF loop = "close"
     THEN sink' = FALSE /\ buffered' = 0 /\ in_backpressure' = FALSE
     ELSE UNCHANGED <<sink, buffered, in_backpressure>>
  /\ UNCHANGED <<envVars, has_backpressure, subVars, should_stop, pc,
                 orderVars, cam, total, chunk, pastVars>>

(* The join returns once the thread has ended.  A closing connection then  *)
(* loses its sink, and with it the socket and what it had buffered.        *)
joinStreaming ==
  /\ loop # "poll" /\ pc = "off"
  /\ streaming_active' = FALSE
  /\ loop' = "poll"
  /\ in_progress' = FALSE
  /\ IF loop = "close"
     THEN sink' = FALSE /\ buffered' = 0 /\ in_backpressure' = FALSE
     ELSE UNCHANGED <<sink, buffered, in_backpressure>>
  /\ UNCHANGED <<envVars, has_backpressure, subVars, should_stop, pc,
                 orderVars, cam, total, chunk, pastVars>>

(* start_stream.  A new subscription has cursor 0: what its slot holds, if *)
(* anything, is new to it; a repeated one only replaces the options.       *)
startStreamingCamera(c) ==
  /\ loop = "poll" /\ sink
  /\ streaming_cameras' = streaming_cameras \cup {c}
  /\ fresh' \in (IF c \in streaming_cameras THEN {fresh}
                 ELSE {fresh, fresh \cup {c}})
  /\ SpawnIf(TRUE)
  /\ late' = [late EXCEPT ![c] = 0]
  /\ passed' = IF c \in streaming_cameras THEN passed ELSE NobodyPassed
  /\ UNCHANGED <<envVars, linkVars, resting, header_only_mode, loop,
                 frameVars, wire, excess>>

(* stop_stream. *)
stopStreamingCamera(c) ==
  /\ loop = "poll" /\ c \in streaming_cameras
  /\ streaming_cameras' = streaming_cameras \ {c}
  /\ fresh' = fresh \ {c} /\ resting' = resting \ {c}
  /\ in_progress' = (in_progress /\ cam # c)
  /\ passed' = NobodyPassed
  /\ UNCHANGED <<envVars, linkVars, header_only_mode, ctlVars, pc, orderVars,
                 cam, total, chunk, wire, excess, late>>

(* set_header_only.  The flag outlives the connection that set it. *)
setHeaderOnlyMode ==
  /\ loop = "poll" /\ sink
  /\ header_only_mode' \in BOOLEAN
  /\ UNCHANGED <<envVars, linkVars, streaming_cameras, fresh, resting,
                 ctlVars, threadVars, pastVars>>

(* The network takes bytes: the deferred sends reach the socket (live of   *)
(* what is left is in its own buffer), the socket drains, and the drain    *)
(* handler moves the flag between the two water marks and notifies the     *)
(* session of a change.                                                    *)
drain ==
  /\ loop = "poll" /\ sink /\ buffered > 0
  /\ \E left \in 0 .. buffered - 1 : \E live \in 0 .. left :
       LET pressure == IF in_backpressure THEN live > LowWater
                                          ELSE live > Soft
       IN /\ buffered' = left
          /\ in_backpressure' = pressure
          /\ has_backpressure' =
               IF pressure # in_backpressure THEN pressure
                                             ELSE has_backpressure
  /\ UNCHANGED <<envVars, sink, subVars, ctlVars, threadVars, pastVars>>
-----------------------------------------------------------------------------
(* The world around the session.                                           *)

(* A camera, or the detector in a detector mode, fills its slot. *)
publishFrame(c) ==
  /\ c \in streaming_cameras \ fresh
  /\ fresh' = fresh \cup {c}
  /\ UNCHANGED <<envVars, linkVars, streaming_cameras, resting,
                 header_only_mode, ctlVars, threadVars, pastVars>>

(* set_process_mode moves the session to its other frame source, which has *)
(* slots and cursors of its own.                                           *)
switchSource ==
  /\ fresh' \in SUBSET streaming_cameras
  /\ passed' = [c \in Cameras |-> IF c \in fresh' THEN passed[c] ELSE 0]
  /\ UNCHANGED <<envVars, linkVars, streaming_cameras, resting,
                 header_only_mode, ctlVars, threadVars, wire, excess, late>>

(* max_fps: the period of a camera is over. *)
periodElapses(c) ==
  /\ c \in resting
  /\ resting' = resting \ {c}
  /\ UNCHANGED <<envVars, linkVars, streaming_cameras, fresh,
                 header_only_mode, ctlVars, threadVars, pastVars>>

(* The commander's session moves. *)
higherMoves ==
  /\ role = "OBSERVER"
  /\ higher' \in HigherStates
  /\ excess' = IF Clear(higher') THEN 0 ELSE excess
  /\ UNCHANGED <<role, linkVars, subVars, ctlVars, threadVars, wire, late,
                 passed>>
-----------------------------------------------------------------------------
(* The streaming thread: streamingLoop, sendChunkedFrame and the waits.    *)

Goto(l) == pc' = l

(* sink->send of a message of camera c; k chunks are owed after it. *)
Hand(c, k) ==
  /\ buffered' = Min({buffered + 1, MaxBuffered})
  /\ wire' = k
  /\ excess' = IF Clear(higher) THEN 0 ELSE excess + 1
  /\ late' = [late EXCEPT ![c] = IF c \in streaming_cameras THEN 0 ELSE @ + 1]

(* The head of the loop; it waits out backpressure and a missing sink. *)
loopTop ==
  /\ pc = "top"
  /\ IF should_stop THEN Goto("off")
     ELSE ~has_backpressure /\ sink /\ Goto("order")
  /\ UNCHANGED <<envVars, linkVars, subVars, ctlVars, orderVars, frameVars,
                 pastVars>>

(* current_index starts over in every round. *)
refreshOrder_Restarts ==
  /\ pc = "order"
  /\ camera_order' = streaming_cameras
  /\ turn' = First(streaming_cameras)
  /\ Goto(IF streaming_cameras = {} THEN "top" ELSE "drain")
  /\ UNCHANGED <<envVars, linkVars, subVars, ctlVars, checked, frameVars,
                 pastVars>>

(* A new set of subscriptions restarts the round robin. *)
refreshOrder ==
  /\ pc = "order"
  /\ camera_order' = streaming_cameras
  /\ turn' = IF streaming_cameras = camera_order THEN turn
             ELSE First(streaming_cameras)
  /\ Goto(IF streaming_cameras = {} THEN "top" ELSE "drain")
  /\ UNCHANGED <<envVars, linkVars, subVars, ctlVars, checked, frameVars,
                 pastVars>>

(* waitForBufferDrain: over the soft limit it waits, gives up after a      *)
(* time, and fails only when the thread is asked to stop.                  *)
drainFails == should_stop /\ buffered > Soft

beforeFrame ==
  /\ pc = "drain"
  /\ Goto(IF drainFails THEN "top" ELSE "prio")
  /\ UNCHANGED <<envVars, linkVars, subVars, ctlVars, orderVars, frameVars,
                 pastVars>>

(* New frames are withheld while the commander is congested; a transfer in *)
(* progress would be waited for.                                           *)
withhold ==
  /\ pc = "prio"
  /\ Goto(IF ~Clear(higher) \/ in_progress THEN "top" ELSE "pick")
  /\ checked' = 0
  /\ UNCHANGED <<envVars, linkVars, subVars, ctlVars, camera_order, turn,
                 frameVars, pastVars>>

(* One camera of the round.  Its frame is fetched, with the cursor moved,  *)
(* if it is still subscribed, due, and has a new one.  A subsampled frame  *)
(* is cut down here, to nothing but geometry in header-only mode.          *)
pickCamera ==
  /\ pc = "pick"
  /\ IF checked = Cardinality(camera_order) \/ should_stop
     THEN Goto("top") /\ UNCHANGED <<turn, checked, cam, total, fresh, passed>>
     ELSE /\ turn' = After(camera_order, turn)
          /\ checked' = checked + 1
          /\ passed' = [passed EXCEPT ![turn] = 0]
          /\ IF turn \in (streaming_cameras \ resting) \cap fresh
             THEN /\ fresh' = fresh \ {turn}
                  /\ cam' = turn
                  /\ total' = IF turn \in Subsampled /\ header_only_mode
                              THEN 0 ELSE Chunks
                  /\ Goto("begin")
             ELSE UNCHANGED <<pc, cam, total, fresh>>
  /\ UNCHANGED <<envVars, linkVars, streaming_cameras, resting,
                 header_only_mode, ctlVars, camera_order, chunk, in_progress,
                 wire, excess, late>>

(* A frame went out: found_frame ends the round, last_sent starts a period. *)
FrameSent ==
  /\ Goto("top")
  /\ cam' = 0 /\ total' = 0 /\ chunk' = 0 /\ in_progress' = FALSE
  /\ resting' = resting \cup ({cam} \cap Paced \cap streaming_cameras)
  /\ passed' = [c \in Cameras |->
       IF c \in fresh /\ c \notin resting' THEN passed[c] + 1 ELSE 0]

(* cleanupTransfer, and on to the next camera of the round. *)
FrameLost ==
  /\ Goto("pick")
  /\ cam' = 0 /\ total' = 0 /\ chunk' = 0 /\ in_progress' = FALSE

(* Without a sink a send fails, and the frame with it. *)
SendFails ==
  /\ ~sink /\ FrameLost
  /\ UNCHANGED <<buffered, resting, pastVars>>

(* The flag is read again: sendHeaderOnlyFrame sends no chunk and begins   *)
(* no transfer, sendChunkedFrame makes the frame the current transfer.     *)
beginTransfer ==
  /\ pc = "begin"
  /\ total' = IF header_only_mode THEN 0 ELSE total
  /\ in_progress' = ~header_only_mode
  /\ Goto("header")
  /\ UNCHANGED <<envVars, linkVars, subVars, ctlVars, orderVars, cam, chunk,
                 pastVars>>

(* The header announces the chunks that follow it. *)
sendChunkHeader ==
  /\ pc = "header"
  /\ IF ~sink THEN SendFails
     ELSE /\ Hand(cam, total)
          /\ IF total = 0 THEN FrameSent
             ELSE /\ Goto("chunk")
                  /\ UNCHANGED <<resting, passed, frameVars>>
  /\ UNCHANGED <<envVars, sink, in_backpressure, has_backpressure,
                 streaming_cameras, fresh, header_only_mode, ctlVars,
                 orderVars>>

(* A chunk loop that does not ask whether the camera is still wanted. *)
beforeChunk_Unasked ==
  /\ pc = "chunk"
  /\ IF should_stop THEN FrameLost ELSE Goto("press") /\ UNCHANGED frameVars
  /\ UNCHANGED <<envVars, linkVars, subVars, ctlVars, orderVars, pastVars>>

(* Before each chunk: a stop, or the end of the subscription, ends it. *)
beforeChunk ==
  /\ pc = "chunk"
  /\ IF should_stop \/ cam \notin streaming_cameras
     THEN FrameLost ELSE Goto("press") /\ UNCHANGED frameVars
  /\ UNCHANGED <<envVars, linkVars, subVars, ctlVars, orderVars, pastVars>>

(* One that waits for the drain handler for as long as it takes. *)
waitPressure_Forever ==
  /\ pc = "press" /\ ~has_backpressure
  /\ Goto("cdrain") /\ UNCHANGED frameVars
  /\ UNCHANGED <<envVars, linkVars, subVars, ctlVars, orderVars, pastVars>>

(* Backpressure is waited out for a time, then the frame is given up. *)
waitPressure ==
  /\ pc = "press"
  /\ IF has_backpressure THEN FrameLost
     ELSE Goto("cdrain") /\ UNCHANGED frameVars
  /\ UNCHANGED <<envVars, linkVars, subVars, ctlVars, orderVars, pastVars>>

waitForBufferDrain ==
  /\ pc = "cdrain"
  /\ IF drainFails THEN FrameLost ELSE Goto("cprio") /\ UNCHANGED frameVars
  /\ UNCHANGED <<envVars, linkVars, subVars, ctlVars, orderVars, pastVars>>

(* One that only withholds whole frames. *)
waitForPriorityClear_Never ==
  /\ pc = "cprio"
  /\ Goto("data") /\ UNCHANGED frameVars
  /\ UNCHANGED <<envVars, linkVars, subVars, ctlVars, orderVars, pastVars>>

(* The chunk waits for the commander to clear; a stop or the deadline ends *)
(* the frame.                                                              *)
waitForPriorityClear ==
  /\ pc = "cprio"
  /\ IF Clear(higher) THEN Goto("data") /\ UNCHANGED frameVars ELSE FrameLost
  /\ UNCHANGED <<envVars, linkVars, subVars, ctlVars, orderVars, pastVars>>

(* A chunk loop that runs one chunk too far. *)
sendChunkData_PastEnd ==
  /\ pc = "data"
  /\ IF ~sink THEN SendFails
     ELSE /\ Hand(cam, wire - 1)
          /\ IF chunk = total THEN FrameSent
             ELSE /\ chunk' = chunk + 1
                  /\ Goto("chunk")
                  /\ UNCHANGED <<resting, passed, cam, total, in_progress>>
  /\ UNCHANGED <<envVars, sink, in_backpressure, has_backpressure,
                 streaming_cameras, fresh, header_only_mode, ctlVars,
                 orderVars>>

(* A chunk; the last one completes the frame. *)
sendChunkData ==
  /\ pc = "data"
  /\ IF ~sink THEN SendFails
     ELSE /\ Hand(cam, wire - 1)
          /\ IF chunk + 1 = total THEN FrameSent
             ELSE /\ chunk' = chunk + 1
                  /\ Goto("chunk")
                  /\ UNCHANGED <<resting, passed, cam, total, in_progress>>
  /\ UNCHANGED <<envVars, sink, in_backpressure, has_backpressure,
                 streaming_cameras, fresh, header_only_mode, ctlVars,
                 orderVars>>

streamingLoop ==
  \/ loopTop \/ refreshOrder \/ beforeFrame \/ withhold \/ pickCamera
  \/ beginTransfer \/ sendChunkHeader \/ beforeChunk \/ waitPressure
  \/ waitForBufferDrain \/ waitForPriorityClear \/ sendChunkData
-----------------------------------------------------------------------------
Next ==
  \/ setSink \/ clearSink \/ handleStopCameras \/ joinStreaming
  \/ \E c \in Cameras : startStreamingCamera(c)
  \/ \E c \in Cameras : stopStreamingCamera(c)
  \/ setHeaderOnlyMode
  \/ drain
  \/ \E c \in Cameras : publishFrame(c)
  \/ switchSource
  \/ \E c \in Cameras : periodElapses(c)
  \/ higherMoves
  \/ streamingLoop

(* The two threads run; the network goes on taking bytes, or the idle      *)
(* timeout would close the socket; periods end.                            *)
Fairness ==
  /\ WF_vars(streamingLoop)
  /\ WF_vars(joinStreaming)
  /\ WF_vars(drain)
  /\ \A c \in Cameras : WF_vars(periodElapses(c))

Spec == Init /\ [][Next]_vars /\ Fairness
-----------------------------------------------------------------------------
InFrame == {"chunk", "press", "cdrain", "cprio", "data"}

(* Every variable has its type; the round and the chunk in hand stay       *)
(* within camera_order and the frame's total_chunks.                       *)
TypeOK ==
  /\ role \in {"COMMANDER", "OBSERVER"} /\ higher \in HigherStates
  /\ sink \in BOOLEAN /\ buffered \in 0 .. MaxBuffered
  /\ in_backpressure \in BOOLEAN /\ has_backpressure \in BOOLEAN
  /\ streaming_cameras \in SUBSET Cameras
  /\ fresh \in SUBSET streaming_cameras
  /\ resting \in SUBSET (streaming_cameras \cap Paced)
  /\ header_only_mode \in BOOLEAN
  /\ should_stop \in BOOLEAN /\ streaming_active \in BOOLEAN
  /\ loop \in {"poll", "close", "stop_cameras"}
  /\ pc \in {"off", "top", "order", "drain", "prio", "pick", "begin",
             "header"} \cup InFrame
  /\ camera_order \in SUBSET Cameras
  /\ turn \in Cameras /\ (camera_order # {} => turn \in camera_order)
  /\ checked \in 0 .. NumCameras
  /\ cam \in Cameras /\ total \in {0, Chunks}
  /\ chunk \in 0 .. Chunks - 1
  /\ in_progress \in BOOLEAN
  /\ wire \in 0 .. Chunks /\ excess \in Nat
  /\ late \in [Cameras -> Nat] /\ passed \in [Cameras -> Nat]

(* The observer yields: however its session and the commander's congestion *)
(* interleave, it hands its socket at most one message per camera between  *)
(* the moment the commander stops being clear and the moment it clears.    *)
(* The check precedes each chunk, but a header goes out unchecked, and a   *)
(* frame given up half-way moves on to the next camera's header.           *)
ObserverYields == excess <= NumCameras

(* stop_stream, stop_cameras and a close take effect within one message of *)
(* the camera, whatever the streaming thread was doing.                    *)
StopStreamPrompt == \A c \in Cameras : late[c] <= 1

(* What a socket receives is frames: a chunk is sent only on the socket    *)
(* that got its header, in order, with nothing in between, and a header    *)
(* announces as many chunks as the frame has, though header_only_mode may  *)
(* change between its two reads and the client may reconnect at any time.  *)
FramesWhole == pc \in InFrame => sink /\ wire = total - chunk

(* The round robin is fair: a camera with a new frame that is due sees at  *)
(* most NumCameras frames of the other cameras go out before its own, as   *)
(* long as the subscriptions do not change.                                *)
NoCameraStarved == \A c \in Cameras : passed[c] <= NumCameras

(* Every wait of the streaming thread ends by itself: a join on the loop   *)
(* thread, during which no drain can be handled, returns, and a frame once *)
(* begun is completed or given up.                                         *)
WaitsEnd ==
  /\ loop # "poll" ~> loop = "poll"
  /\ pc \in InFrame ~> pc \notin InFrame

(* A session does not go quiet: a new frame of a subscribed camera does    *)
(* not stay behind for ever while the commander is clear, over any number  *)
(* of reconnections and bouts of backpressure.                             *)
NoSilentStall == \A c \in Cameras : []<>~(c \in fresh /\ Clear(higher))
=============================================================================
