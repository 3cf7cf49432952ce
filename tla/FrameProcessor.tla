--------------------------- MODULE FrameProcessor ---------------------------
(***************************************************************************)
(* The frame-processing pipeline: FrameProcessor, the capture callbacks    *)
(* that feed it, its writer pool and detection worker, and the order in    *)
(* which the start_cameras and stop_cameras handlers drive it.             *)
(*                                                                         *)
(* Frames of a session have one size, so the backlog counts frames.  The   *)
(* four detector modes differ in what the detector computes, which is a    *)
(* free choice here, and are one mode, DETECT.  A frame is its camera and  *)
(* its place in that camera's stream; frame_id is that place counted from  *)
(* the last reset_frame_counts.                                            *)
(***************************************************************************)
EXTENDS Integers, Sequences, FiniteSets

CONSTANTS
  NumCameras,     \* cameras, all configured alike
  Writers,        \* the writer_threads threads of the pool
  Modes,          \* process modes the commander sets
  Saves,          \* values of save_frames it sets
  Budget,         \* backlog_budget, in frames
  BatchSize,      \* batch_size, in frames
  Skips,          \* values of skip_frames in a trigger_capture
  WriteResults,   \* {TRUE}, or BOOLEAN when a write may fail
  StartMayFail,   \* may start_cameras be infeasible or a camera fail?
  ModeWhileRunning,  \* does the commander set the mode while RUNNING?
  MaxFrames,      \* bound: frames each camera delivers
  MaxTriggers,    \* bound: triggers armed
  MaxResets       \* bound: reset_frame_counts

ProcessMode == {"NONE", "BUFFER", "BATCH", "TRIGGER", "DETECT"}

ASSUME ProcessorAssumption ==
  /\ NumCameras \in Nat \ {0}
  /\ Modes \subseteq ProcessMode /\ Saves \subseteq BOOLEAN
  /\ Budget \in Nat \ {0}
  /\ BatchSize \in Nat
  /\ Skips \subseteq Nat
  /\ WriteResults \subseteq BOOLEAN
  /\ StartMayFail \in BOOLEAN /\ ModeWhileRunning \in BOOLEAN
  /\ MaxFrames \in Nat /\ MaxTriggers \in Nat /\ MaxResets \in Nat

VARIABLES
  config,            \* FrameProcessor::config: mode and save_frames
  enabled,           \* FrameProcessor::enabled
  stop_threads, stop_detection,
  backlog,           \* backlog_bytes, in frames
  buffered_frames, pending_batch, write_queue,
  pending_trigger,   \* the armed trigger, if any
  next_trigger_id,
  pending_detection, \* per camera: the frame waiting for the worker, if any
  last_detected,     \* last_detected_camera_, -1 before the first
  detected,          \* detected_for_stream: per camera, frame and seq, if any
  detected_seq,      \* detected_seq_counter_
  phase,             \* where the start/stop handler of the server is
  camOn, callback,   \* per camera: delivering; is onFrameCaptured set?
  frame_counter,     \* per camera: frames delivered
  resets,            \* reset_frame_counts so far
  cap,               \* per camera: its completion callback
  wr,                \* per writer thread
  wk,                \* the detection worker
  cursor, got,       \* a streamer's cursor per camera, the last frame it took
  terminated         \* std::terminate: a joinable std::thread was assigned

(* What has become of the frames: history, read by the properties only. *)
VARIABLES session,   \* the mode the cameras were last started in
          accepted,  \* frames reserveBacklog let in, this session
          refused,   \* frames it dropped, this session
          disk, lost,  \* frames whose write succeeded, failed
          acks,      \* trigger results handed to the client, in order
          bypassed   \* per camera: detections since its frame was pending

ctlVars    == <<config, enabled, stop_threads, stop_detection, terminated>>
queueVars  == <<backlog, buffered_frames, pending_batch, write_queue>>
trigVars   == <<pending_trigger, next_trigger_id, acks>>
detVars    == <<pending_detection, last_detected, bypassed>>
slotVars   == <<detected, detected_seq>>
camVars    == <<camOn, callback, frame_counter>>
resetVars  == <<resets>>
threadVars == <<cap, wr, wk>>
readVars   == <<cursor, got>>
histVars   == <<session, accepted, refused>>
fileVars   == <<disk, lost>>
vars == <<ctlVars, queueVars, trigVars, detVars, slotVars, phase, camVars,
          resetVars, threadVars, readVars, histVars, fileVars>>

Cameras == 0 .. NumCameras - 1
Frames == [cam : Cameras, n : 1 .. MaxFrames]
Served == -1         \* a camera no longer in PendingTrigger::waiting

Result(t, cancelled) ==
  [id |-> t.id, cancelled |-> cancelled, captures |-> t.captures,
   want |-> t.want, save |-> config.save_frames]

(* types.hpp: the modes with a detection worker, and with a writer pool. *)
isDetectorMode(m) == m = "DETECT"
usesWriterPool(m) == m \in {"BATCH", "TRIGGER", "DETECT"}
poolStarted == usesWriterPool(config.mode) /\ config.save_frames

Elems(s) == {s[i] : i \in DOMAIN s}

Idle == [pc |-> "idle", f |-> {}, to |-> "QUEUE", done |-> {}]
Off == [pc |-> "off", f |-> {}]

(* A callback with nothing left to write answers the trigger it finished,  *)
(* if it did, and returns to the camera.                                   *)
Finish(r) == IF r.done = {} THEN Idle ELSE [r EXCEPT !.pc = "ack"]

-----------------------------------------------------------------------------
Init ==
  /\ config = [mode |-> "NONE", save_frames |-> TRUE]
  /\ enabled = FALSE /\ stop_threads = FALSE /\ stop_detection = FALSE
  /\ backlog = 0
  /\ buffered_frames = <<>> /\ pending_batch = <<>> /\ write_queue = <<>>
  /\ pending_trigger = {} /\ next_trigger_id = 1
  /\ pending_detection = [c \in Cameras |-> {}]
  /\ last_detected = -1
  /\ detected = [c \in Cameras |-> {}] /\ detected_seq = 0
  /\ phase = "configured"
  /\ camOn = [c \in Cameras |-> FALSE] /\ callback = FALSE
  /\ frame_counter = [c \in Cameras |-> 0]
  /\ resets = 0
  /\ cap = [c \in Cameras |-> Idle]
  /\ wr = [w \in Writers |-> Off]
  /\ wk = Off
  /\ cursor = [c \in Cameras |-> 0] /\ got = [c \in Cameras |-> 0]
  /\ terminated = FALSE
  /\ session = "NONE" /\ accepted = {} /\ refused = {} /\ disk = {} /\ lost = {} /\ acks = <<>>
  /\ bypassed = [c \in Cameras |-> 0]
-----------------------------------------------------------------------------
(* Commands of the commander, on the loop thread.                          *)

(* set_process_mode: FrameProcessor::configure, in force at once. *)
configure ==
  /\ phase = "configured" \/ (phase = "running" /\ ModeWhileRunning)
  /\ config' \in [mode : Modes, save_frames : Saves]
  /\ UNCHANGED <<enabled, stop_threads, stop_detection, terminated, queueVars,
                 trigVars, detVars, slotVars, phase, camVars, resetVars,
                 threadVars, readVars, histVars, fileVars>>

(* FrameProcessor::start for a mode that processes: the counters, the      *)
(* trigger and the detection slots of an earlier session go, write_queue   *)
(* stays; the pool and the worker are spawned.                             *)
start ==
  /\ phase = "configured"
  /\ config.mode # "NONE"
  /\ phase' = "started"
  /\ enabled' = TRUE
  /\ stop_threads' = FALSE /\ stop_detection' = FALSE
  /\ backlog' = 0
  /\ session' = config.mode /\ accepted' = {} /\ refused' = {}
  /\ pending_trigger' = {}
  /\ pending_detection' = [c \in Cameras |-> {}] /\ last_detected' = -1
  /\ bypassed' = [c \in Cameras |-> 0]
  /\ detected' = [c \in Cameras |-> {}]
  /\ buffered_frames' = IF config.mode = "BUFFER" THEN <<>> ELSE buffered_frames
  /\ pending_batch' = IF poolStarted THEN <<>> ELSE pending_batch
  /\ wr' = [w \in Writers |->
              IF poolStarted /\ wr[w] = Off THEN [Off EXCEPT !.pc = "wait"]
                                            ELSE wr[w]]
  /\ terminated' = (isDetectorMode(config.mode) /\ wk # Off)
  /\ wk' = IF isDetectorMode(config.mode) /\ wk = Off
           THEN [Off EXCEPT !.pc = "wait"] ELSE wk
  /\ UNCHANGED <<config, write_queue, next_trigger_id, acks, detected_seq,
                 camVars, resetVars, cap, readVars, fileVars>>

(* FrameProcessor::start in mode NONE only disables the processor. *)
startNone ==
  /\ phase = "configured"
  /\ config.mode = "NONE"
  /\ phase' = "started"
  /\ enabled' = FALSE
  /\ session' = "NONE"
  /\ UNCHANGED <<config, stop_threads, stop_detection, terminated, queueVars,
                 trigVars, detVars, slotVars, camVars, resetVars, threadVars,
                 readVars, accepted, refused, fileVars>>

(* The feasibility check refuses the mode, or the callback is installed.   *)
checkCaptureFeasibility ==
  /\ phase = "started" /\ ~terminated
  /\ \/ /\ StartMayFail /\ config.mode # "NONE"
        /\ phase' = "cancel"
        /\ UNCHANGED callback
     \/ /\ phase' = "starting"
        /\ callback' = (config.mode # "NONE")
  /\ UNCHANGED <<ctlVars, queueVars, trigVars, detVars, slotVars, camOn,
                 frame_counter, resetVars, threadVars, readVars, histVars,
                 fileVars>>

(* startAll: in order, and back down at the first camera that fails. *)
startCamera(c) ==
  /\ phase = "starting"
  /\ ~camOn[c] /\ \A d \in Cameras : d < c => camOn[d]
  /\ \/ camOn' = [camOn EXCEPT ![c] = TRUE] /\ UNCHANGED phase
     \/ StartMayFail /\ phase' = "unwinding" /\ UNCHANGED camOn
  /\ UNCHANGED <<ctlVars, queueVars, trigVars, detVars, slotVars, callback,
                 frame_counter, resetVars, threadVars, readVars, histVars,
                 fileVars>>

(* A camera that started and then fails to queue its requests: frames may  *)
(* have been delivered in between.                                         *)
queueRequestFails(c) ==
  /\ phase = "starting" /\ StartMayFail
  /\ camOn[c] /\ \A d \in Cameras : d > c => ~camOn[d]
  /\ cap[c] = Idle
  /\ camOn' = [camOn EXCEPT ![c] = FALSE]
  /\ phase' = "unwinding"
  /\ UNCHANGED <<ctlVars, queueVars, trigVars, detVars, slotVars, callback,
                 frame_counter, resetVars, threadVars, readVars, histVars,
                 fileVars>>

allStarted ==
  /\ phase = "starting"
  /\ \A c \in Cameras : camOn[c]
  /\ phase' = "running"
  /\ UNCHANGED <<ctlVars, queueVars, trigVars, detVars, slotVars, camVars,
                 resetVars, threadVars, readVars, histVars, fileVars>>

stopCameras ==
  /\ phase = "running"
  /\ phase' = "stopping"
  /\ UNCHANGED <<ctlVars, queueVars, trigVars, detVars, slotVars, camVars,
                 resetVars, threadVars, readVars, histVars, fileVars>>

(* Camera::stop returns when no completion callback of the camera runs. *)
stopCamera(c) ==
  /\ phase \in {"stopping", "unwinding"}
  /\ camOn[c] /\ \A d \in Cameras : d < c => ~camOn[d]
  /\ cap[c] = Idle
  /\ camOn' = [camOn EXCEPT ![c] = FALSE]
  /\ UNCHANGED <<ctlVars, queueVars, trigVars, detVars, slotVars, phase,
                 callback, frame_counter, resetVars, threadVars, readVars,
                 histVars, fileVars>>

(* A failed start goes on to FrameProcessor::stop without a flush. *)
unwound ==
  /\ phase = "unwinding" /\ \A c \in Cameras : ~camOn[c]
  /\ phase' = "cancel"
  /\ UNCHANGED <<ctlVars, queueVars, trigVars, detVars, slotVars, camVars,
                 resetVars, threadVars, readVars, histVars, fileVars>>

(* releaseBacklog: a saturating subtraction. *)
released(k) == IF backlog > k THEN backlog - k ELSE 0

(* stop_cameras: flushBufferedFrames writes what BUFFER mode holds. *)
flushBufferedFrames ==
  /\ phase = "stopping" /\ \A c \in Cameras : ~camOn[c]
  /\ phase' = "cancel"
  /\ IF config.mode = "BUFFER" /\ config.save_frames
     THEN /\ \E failed \in SUBSET Elems(buffered_frames) :
               /\ failed = {} \/ FALSE \in WriteResults
               /\ disk' = disk \cup (Elems(buffered_frames) \ failed)
               /\ lost' = lost \cup failed
          /\ buffered_frames' = <<>>
          /\ backlog' = released(Len(buffered_frames))
     ELSE UNCHANGED <<fileVars, buffered_frames, backlog>>
  /\ UNCHANGED <<ctlVars, pending_batch, write_queue, trigVars, detVars,
                 slotVars, camVars, resetVars, threadVars, readVars, histVars>>

(* A stop that leaves the trigger unanswered and the worker waiting. *)
stop_Silent ==
  /\ phase = "cancel"
  /\ enabled' = FALSE
  /\ pending_trigger' = {}
  /\ phase' = "joinWorker"
  /\ UNCHANGED <<config, stop_threads, stop_detection, terminated, queueVars,
                 next_trigger_id, acks, detVars, slotVars, camVars, resetVars,
                 threadVars, readVars, histVars, fileVars>>

(* A stop that tells the writers first, while the worker still detects. *)
stop_WritersFirst ==
  /\ phase = "cancel"
  /\ enabled' = FALSE
  /\ pending_trigger' = {}
  /\ \/ pending_trigger = {} /\ UNCHANGED acks
     \/ \E t \in pending_trigger :
          acks' = Append(acks, Result(t, TRUE))
  /\ stop_detection' = (isDetectorMode(config.mode) \/ stop_detection)
  /\ stop_threads' = (poolStarted \/ stop_threads)
  /\ phase' = "joinWorker"
  /\ UNCHANGED <<config, terminated, queueVars, next_trigger_id, detVars,
                 slotVars, camVars, resetVars, threadVars, readVars, histVars,
                 fileVars>>

(* FrameProcessor::stop, first part: disable, resolve an armed trigger as  *)
(* cancelled, and ask the detection worker to drain.                       *)
stop ==
  /\ phase = "cancel"
  /\ enabled' = FALSE
  /\ pending_trigger' = {}
  /\ \/ pending_trigger = {} /\ UNCHANGED acks
     \/ \E t \in pending_trigger :
          acks' = Append(acks, Result(t, TRUE))
  /\ stop_detection' = (isDetectorMode(config.mode) \/ stop_detection)
  /\ phase' = "joinWorker"
  /\ UNCHANGED <<config, stop_threads, terminated, queueVars, next_trigger_id,
                 detVars, slotVars, camVars, resetVars, threadVars, readVars,
                 histVars, fileVars>>

(* A join that leaves the processed frames in their slots. *)
joinWorker_KeepsSlots ==
  /\ phase = "joinWorker"
  /\ isDetectorMode(config.mode) => wk = Off
  /\ phase' = "stopWriters"
  /\ UNCHANGED <<ctlVars, queueVars, trigVars, detVars, slotVars, camVars,
                 resetVars, threadVars, readVars, histVars, fileVars>>

(* Second part: the worker is joined before the writers are told to stop,  *)
(* and the slots streamers read are emptied.                               *)
joinWorker ==
  /\ phase = "joinWorker"
  /\ IF isDetectorMode(config.mode)
     THEN wk = Off /\ detected' = [c \in Cameras |-> {}]
     ELSE UNCHANGED detected
  /\ phase' = "stopWriters"
  /\ UNCHANGED <<ctlVars, queueVars, trigVars, detVars, detected_seq, camVars,
                 resetVars, threadVars, readVars, histVars, fileVars>>

(* A stop that forgets the partial batch. *)
stopWriters_DropsBatch ==
  /\ phase = "stopWriters"
  /\ pending_batch' = <<>>
  /\ stop_threads' = poolStarted
  /\ phase' = "joinWriters"
  /\ UNCHANGED <<config, enabled, stop_detection, terminated, backlog,
                 buffered_frames, write_queue, trigVars, detVars, slotVars,
                 camVars, resetVars, threadVars, readVars, histVars, fileVars>>

(* Third part: a partial batch is queued, then the writers may stop. *)
stopWriters ==
  /\ phase = "stopWriters"
  /\ IF poolStarted
     THEN /\ write_queue' = write_queue \o pending_batch
          /\ pending_batch' = <<>>
          /\ stop_threads' = TRUE
     ELSE UNCHANGED <<write_queue, pending_batch, stop_threads>>
  /\ phase' = "joinWriters"
  /\ UNCHANGED <<config, enabled, stop_detection, terminated, backlog,
                 buffered_frames, trigVars, detVars, slotVars, camVars,
                 resetVars, threadVars, readVars, histVars, fileVars>>

joinWriters ==
  /\ phase = "joinWriters"
  /\ poolStarted => \A w \in Writers : wr[w] = Off
  /\ phase' = "configured"
  /\ UNCHANGED <<ctlVars, queueVars, trigVars, detVars, slotVars, camVars,
                 resetVars, threadVars, readVars, histVars, fileVars>>

nextOver(c) == frame_counter[c] + (IF cap[c].pc = "copied" THEN 0 ELSE 1)

(* armTrigger refuses a processor that is not in TRIGGER mode, and a       *)
(* second trigger while one is pending.  want is history: the frames the   *)
(* client asked for, counted from the one each camera is about to hand     *)
(* over, which is the one in flight if there is one.                       *)
armTrigger(ids, skip) ==
  /\ config.mode = "TRIGGER" /\ enabled
  /\ pending_trigger = {}
  /\ next_trigger_id <= MaxTriggers
  /\ pending_trigger' =
       {[id |-> next_trigger_id,
         waiting |-> [c \in Cameras |-> IF c \in ids THEN skip ELSE Served],
         captures |-> {},
         want |-> {[cam |-> c, n |-> nextOver(c) + skip] : c \in ids}]}
  /\ next_trigger_id' = next_trigger_id + 1
  /\ UNCHANGED <<ctlVars, queueVars, acks, detVars, slotVars, phase, camVars,
                 resetVars, threadVars, readVars, histVars, fileVars>>

(* trigger_capture: RUNNING only; one camera, or every running one. *)
handleTriggerCapture ==
  /\ phase = "running"
  /\ \E skip \in Skips :
       \/ armTrigger(Cameras, skip)
       \/ \E c \in Cameras : armTrigger({c}, skip)

(* reset_frame_counts, first half: the cameras count their frame ids from  *)
(* 0 again.  A frame is known by its place in the stream, which goes on ... *)
resetFrameCounts ==
  /\ phase \in {"configured", "running"}
  /\ resets < MaxResets
  /\ resets' = resets + 1
  /\ phase' = IF phase = "running" THEN "resetRunning" ELSE "resetConfigured"
  /\ UNCHANGED <<ctlVars, queueVars, trigVars, detVars, slotVars, camVars,
                 threadVars, readVars, histVars, fileVars>>

(* ... second half: whatever waits in the detection slots is dropped.      *)
resetFramesSavedCounts ==
  /\ phase \in {"resetRunning", "resetConfigured"}
  /\ pending_detection' = [c \in Cameras |-> {}]
  /\ detected' = [c \in Cameras |-> {}]
  /\ phase' = IF phase = "resetRunning" THEN "running" ELSE "configured"
  /\ UNCHANGED <<ctlVars, queueVars, trigVars, last_detected, bypassed,
                 detected_seq, camVars, resetVars, threadVars, readVars,
                 histVars, fileVars>>
-----------------------------------------------------------------------------
(* Completion callbacks.  Those of different cameras may run at once.      *)

(* onRequestComplete numbers the frame and copies it out of its buffer ... *)
copyFrame(c) ==
  /\ camOn[c] /\ cap[c] = Idle
  /\ frame_counter[c] < MaxFrames
  /\ frame_counter' = [frame_counter EXCEPT ![c] = @ + 1]
  /\ cap' = [cap EXCEPT ![c] = [Idle EXCEPT
               !.pc = "copied", !.f = {[cam |-> c, n |-> frame_counter'[c]]}]]
  /\ UNCHANGED <<ctlVars, queueVars, trigVars, detVars, slotVars, phase, camOn,
                 callback, resetVars, wr, wk, readVars, histVars, fileVars>>

(* ... and hands it to onFrameCaptured, which is saveFrame if it is set.   *)
Captured(c, f) == cap[c].pc = "copied" /\ f \in cap[c].f

processing == callback /\ enabled
recording == config.mode \in {"BUFFER", "BATCH"} /\ config.save_frames

saveFrame_Ignored(c) ==
  /\ \E f \in Frames : Captured(c, f)
  /\ ~processing \/ ~(recording \/ config.mode \in {"TRIGGER", "DETECT"})
  /\ cap' = [cap EXCEPT ![c] = Idle]
  /\ UNCHANGED <<ctlVars, queueVars, trigVars, detVars, slotVars, phase, camVars,
                 resetVars, wr, wk, readVars, histVars, fileVars>>

(* BUFFER and BATCH keep every frame the budget has room for. *)
saveFrame_Record(c) ==
  /\ processing /\ recording
  /\ \E f \in Frames : Captured(c, f)
  /\ cap' = [cap EXCEPT ![c].pc = "reserve", ![c].to = config.mode]
  /\ UNCHANGED <<ctlVars, queueVars, trigVars, detVars, slotVars, phase, camVars,
                 resetVars, wr, wk, readVars, histVars, fileVars>>

(* The frame f of camera c is a capture of trigger t; the camera that      *)
(* delivers the last one takes the finished result along.                  *)
capture(t, c, f) ==
  LET u == [t EXCEPT !.waiting[c] = Served, !.captures = @ \cup {f}]
      last == \A d \in Cameras : u.waiting[d] = Served
      task == [pc |-> "reserve", f |-> {f}, to |-> "QUEUE",
               done |-> IF last THEN {Result(u, FALSE)} ELSE {}]
  IN /\ pending_trigger' = IF last THEN {} ELSE {u}
     /\ cap' = [cap EXCEPT ![c] =
                  IF config.save_frames THEN task ELSE Finish(task)]

(* One that counts the frame it keeps among those to skip. *)
handleTriggerFrame_SkipsOneLess(c, f) ==
  \/ /\ \A t \in pending_trigger : t.waiting[c] = Served
     /\ cap' = [cap EXCEPT ![c] = Idle]
     /\ UNCHANGED pending_trigger
  \/ \E t \in pending_trigger :
       /\ t.waiting[c] > 1
       /\ pending_trigger' = {[t EXCEPT !.waiting[c] = @ - 1]}
       /\ cap' = [cap EXCEPT ![c] = Idle]
  \/ \E t \in pending_trigger : t.waiting[c] \in {0, 1} /\ capture(t, c, f)

(* handleTriggerFrame under trigger_mutex: nothing is armed, or camera c   *)
(* is not waited for, or the frame is one to skip, or it is the capture.   *)
handleTriggerFrame(c, f) ==
  \/ /\ \A t \in pending_trigger : t.waiting[c] = Served
     /\ cap' = [cap EXCEPT ![c] = Idle]
     /\ UNCHANGED pending_trigger
  \/ \E t \in pending_trigger :
       /\ t.waiting[c] > 0
       /\ pending_trigger' = {[t EXCEPT !.waiting[c] = @ - 1]}
       /\ cap' = [cap EXCEPT ![c] = Idle]
  \/ \E t \in pending_trigger : t.waiting[c] = 0 /\ capture(t, c, f)

saveFrame_Trigger(c) ==
  /\ processing /\ config.mode = "TRIGGER"
  /\ \E f \in Frames : Captured(c, f) /\ handleTriggerFrame(c, f)
  /\ UNCHANGED <<ctlVars, queueVars, next_trigger_id, acks, detVars, slotVars,
                 phase, camVars, resetVars, wr, wk, readVars, histVars,
                 fileVars>>

(* DETECT: the newest frame of each camera waits for the worker. *)
saveFrame_Detect(c) ==
  /\ processing /\ config.mode = "DETECT"
  /\ \E f \in Frames :
       /\ Captured(c, f)
       /\ pending_detection' = [pending_detection EXCEPT ![c] = {f}]
  /\ cap' = [cap EXCEPT ![c] = Idle]
  /\ bypassed' = [bypassed EXCEPT ![c] =
                    IF pending_detection[c] = {} THEN 0 ELSE @]
  /\ UNCHANGED <<ctlVars, queueVars, trigVars, last_detected, slotVars, phase,
                 camVars, resetVars, wr, wk, readVars, histVars, fileVars>>

(* A budget check that lets in one frame too many. *)
hasRoom_OffByOne == backlog <= Budget

hasRoom == backlog + 1 <= Budget

(* A refused frame that gives back room it never took. *)
reserveBacklog_ReleasesRefused(f) ==
  IF hasRoom
  THEN /\ backlog' = backlog + 1
       /\ accepted' = accepted \cup f
       /\ UNCHANGED <<session, refused>>
  ELSE /\ refused' = refused \cup f
       /\ backlog' = released(1)
       /\ UNCHANGED <<session, accepted>>

(* reserveBacklog: the compare-exchange either takes room for the frame or *)
(* counts a drop.                                                          *)
reserveBacklog(f) ==
  IF hasRoom
  THEN /\ backlog' = backlog + 1
       /\ accepted' = accepted \cup f
       /\ UNCHANGED <<session, refused>>
  ELSE /\ refused' = refused \cup f
       /\ UNCHANGED <<backlog, session, accepted>>

reserve(c) ==
  /\ cap[c].pc = "reserve"
  /\ reserveBacklog(cap[c].f)
  /\ cap' = [cap EXCEPT ![c] =
                IF hasRoom THEN [@ EXCEPT !.pc = "push"] ELSE Finish(@)]
  /\ UNCHANGED <<ctlVars, buffered_frames, pending_batch, write_queue, trigVars,
                 detVars, slotVars, phase, camVars, resetVars, wr, wk, readVars,
                 fileVars>>

batchSize == IF BatchSize > 1 THEN BatchSize ELSE 1

(* The accepted frame joins its queue; a full batch goes to the writers. *)
push(c) ==
  /\ cap[c].pc = "push"
  /\ LET f == CHOOSE x \in cap[c].f : TRUE
         batch == Append(pending_batch, f)
         full == Len(batch) >= batchSize
     IN CASE cap[c].to = "BUFFER" ->
               /\ buffered_frames' = Append(buffered_frames, f)
               /\ UNCHANGED <<pending_batch, write_queue>>
          [] cap[c].to = "BATCH" ->
               /\ pending_batch' = IF full THEN <<>> ELSE batch
               /\ write_queue' = IF full THEN write_queue \o batch
                                         ELSE write_queue
               /\ UNCHANGED buffered_frames
          [] OTHER ->
               /\ write_queue' = Append(write_queue, f)
               /\ UNCHANGED <<buffered_frames, pending_batch>>
  /\ cap' = [cap EXCEPT ![c] = Finish(@)]
  /\ UNCHANGED <<ctlVars, backlog, trigVars, detVars, slotVars, phase, camVars,
                 resetVars, wr, wk, readVars, histVars, fileVars>>

(* on_complete, outside the lock and after this camera's frame is queued. *)
ack(c) ==
  /\ cap[c].pc = "ack"
  /\ \E res \in cap[c].done : acks' = Append(acks, res)
  /\ cap' = [cap EXCEPT ![c] = Idle]
  /\ UNCHANGED <<ctlVars, queueVars, pending_trigger, next_trigger_id, detVars,
                 slotVars, phase, camVars, resetVars, wr, wk, readVars,
                 histVars, fileVars>>
-----------------------------------------------------------------------------
(* writerThreadFunc.                                                       *)

takeTask(w) ==
  /\ wr[w].pc = "wait"
  /\ write_queue # <<>>
  /\ wr' = [wr EXCEPT ![w] = [pc |-> "write", f |-> {Head(write_queue)}]]
  /\ write_queue' = Tail(write_queue)
  /\ UNCHANGED <<ctlVars, backlog, buffered_frames, pending_batch, trigVars,
                 detVars, slotVars, phase, camVars, resetVars, cap, wk,
                 readVars, histVars, fileVars>>

(* A failed write that keeps its bytes in the backlog. *)
writeTask_NoRelease(w) ==
  /\ wr[w].pc = "write"
  /\ disk' = disk \cup wr[w].f
  /\ wr' = [wr EXCEPT ![w] = [pc |-> "wait", f |-> {}]]
  /\ UNCHANGED <<ctlVars, queueVars, trigVars, detVars, slotVars, phase,
                 camVars, resetVars, cap, wk, readVars, histVars, lost>>

writeTask(w) ==
  /\ wr[w].pc = "write"
  /\ \E ok \in WriteResults :
       /\ disk' = IF ok THEN disk \cup wr[w].f ELSE disk
       /\ lost' = IF ok THEN lost ELSE lost \cup wr[w].f
  /\ backlog' = released(1)
  /\ wr' = [wr EXCEPT ![w] = [pc |-> "wait", f |-> {}]]
  /\ UNCHANGED <<ctlVars, buffered_frames, pending_batch, write_queue, trigVars,
                 detVars, slotVars, phase, camVars, resetVars, cap, wk,
                 readVars, histVars>>

(* A writer that does not drain the queue before it ends. *)
writerExit_Eager(w) ==
  /\ wr[w].pc = "wait"
  /\ stop_threads
  /\ wr' = [wr EXCEPT ![w] = Off]
  /\ UNCHANGED <<ctlVars, queueVars, trigVars, detVars, slotVars, phase,
                 camVars, resetVars, cap, wk, readVars, histVars, fileVars>>

writerExit(w) ==
  /\ wr[w].pc = "wait"
  /\ stop_threads /\ write_queue = <<>>
  /\ wr' = [wr EXCEPT ![w] = Off]
  /\ UNCHANGED <<ctlVars, queueVars, trigVars, detVars, slotVars, phase,
                 camVars, resetVars, cap, wk, readVars, histVars, fileVars>>
-----------------------------------------------------------------------------
(* detectionWorkerFunc.                                                    *)

pendingCameras == {c \in Cameras : pending_detection[c] # {}}

(* A worker that always begins with the first camera. *)
nextCamera_First ==
  CHOOSE c \in pendingCameras : \A d \in pendingCameras : c <= d

(* Round robin: the first pending camera after the last one, or the first. *)
nextCamera ==
  LET after == {c \in pendingCameras : c > last_detected}
      from  == IF after # {} THEN after ELSE pendingCameras
  IN CHOOSE c \in from : \A d \in from : c <= d

(* A worker that leaves the frame it takes pending. *)
takePending_KeepsPending ==
  /\ wk.pc = "wait"
  /\ pendingCameras # {}
  /\ wk' = [pc |-> "detect", f |-> pending_detection[nextCamera]]
  /\ last_detected' = nextCamera
  /\ UNCHANGED <<ctlVars, queueVars, trigVars, pending_detection, bypassed,
                 slotVars, phase, camVars, resetVars, cap, wr, readVars,
                 histVars, fileVars>>

takePending ==
  /\ wk.pc = "wait"
  /\ pendingCameras # {}
  /\ wk' = [pc |-> "detect", f |-> pending_detection[nextCamera]]
  /\ last_detected' = nextCamera
  /\ pending_detection' = [pending_detection EXCEPT ![nextCamera] = {}]
  /\ bypassed' = [c \in Cameras |->
       IF c # nextCamera /\ c \in pendingCameras THEN bypassed[c] + 1 ELSE 0]
  /\ UNCHANGED <<ctlVars, queueVars, trigVars, slotVars, phase, camVars,
                 resetVars, cap, wr, readVars, histVars, fileVars>>

(* It ends only when nothing is pending, so that stop drains it. *)
workerExit ==
  /\ wk.pc = "wait"
  /\ pendingCameras = {} /\ stop_detection
  /\ wk' = Off
  /\ UNCHANGED <<ctlVars, queueVars, trigVars, detVars, slotVars, phase,
                 camVars, resetVars, cap, wr, readVars, histVars, fileVars>>

(* detectCheckerboard, detectAruco and their 2x2 forms: whether there is a *)
(* board or a marker in the frame is the scene's choice.  A mode without a *)
(* detector, set while the worker had a frame in hand, finds none.         *)
detect(m) == IF isDetectorMode(m) THEN BOOLEAN ELSE {FALSE}

(* processDetection: what is detected is saved if there is room.           *)
processDetection ==
  /\ wk.pc = "detect"
  /\ \E detected_any \in detect(config.mode) :
       IF detected_any /\ config.save_frames
       THEN /\ reserveBacklog(wk.f)
            /\ wk' = [wk EXCEPT !.pc = IF hasRoom THEN "push" ELSE "publish"]
       ELSE /\ wk' = [wk EXCEPT !.pc = "publish"]
            /\ UNCHANGED <<backlog, histVars>>
  /\ UNCHANGED <<ctlVars, buffered_frames, pending_batch, write_queue, trigVars,
                 detVars, slotVars, phase, camVars, resetVars, cap, wr,
                 readVars, fileVars>>

pushDetection ==
  /\ wk.pc = "push"
  /\ \E f \in wk.f : write_queue' = Append(write_queue, f)
  /\ wk' = [wk EXCEPT !.pc = "publish"]
  /\ UNCHANGED <<ctlVars, backlog, buffered_frames, pending_batch, trigVars,
                 detVars, slotVars, phase, camVars, resetVars, cap, wr,
                 readVars, histVars, fileVars>>

(* A sequence number taken before it is incremented. *)
publishDetection_PostIncrement ==
  /\ wk.pc = "publish"
  /\ detected_seq' = detected_seq + 1
  /\ \E f \in wk.f :
       detected' = [detected EXCEPT ![f.cam] = {[n |-> f.n, seq |-> detected_seq]}]
  /\ wk' = [pc |-> "wait", f |-> {}]
  /\ UNCHANGED <<ctlVars, queueVars, trigVars, detVars, phase, camVars,
                 resetVars, cap, wr, readVars, histVars, fileVars>>

(* Detected or not, the processed frame becomes the camera's newest one. *)
publishDetection ==
  /\ wk.pc = "publish"
  /\ detected_seq' = detected_seq + 1
  /\ \E f \in wk.f :
       detected' = [detected EXCEPT ![f.cam] = {[n |-> f.n, seq |-> detected_seq']}]
  /\ wk' = [pc |-> "wait", f |-> {}]
  /\ UNCHANGED <<ctlVars, queueVars, trigVars, detVars, phase, camVars,
                 resetVars, cap, wr, readVars, histVars, fileVars>>

(* getDetectedFrameForStreaming: a streamer takes what is newer than its   *)
(* cursor.                                                                 *)
getDetectedFrame(c) ==
  /\ \E d \in detected[c] :
       /\ d.seq > cursor[c]
       /\ cursor' = [cursor EXCEPT ![c] = d.seq]
       /\ got' = [got EXCEPT ![c] = d.n]
  /\ UNCHANGED <<ctlVars, queueVars, trigVars, detVars, slotVars, phase,
                 camVars, resetVars, threadVars, histVars, fileVars>>
-----------------------------------------------------------------------------
Command ==
  \/ configure \/ start \/ startNone \/ stopCameras \/ resetFrameCounts
  \/ handleTriggerCapture

(* The handlers of start_cameras, stop_cameras and reset_frame_counts,     *)
(* once begun.                                                             *)
Handler ==
  \/ checkCaptureFeasibility \/ allStarted \/ unwound
  \/ \E c \in Cameras :
       startCamera(c) \/ queueRequestFails(c) \/ stopCamera(c)
  \/ flushBufferedFrames \/ stop \/ joinWorker \/ stopWriters \/ joinWriters
  \/ resetFramesSavedCounts

saveFrame(c) ==
  \/ saveFrame_Ignored(c) \/ saveFrame_Record(c) \/ saveFrame_Trigger(c)
  \/ saveFrame_Detect(c)

Callback(c) == saveFrame(c) \/ reserve(c) \/ push(c) \/ ack(c)

Writer(w) == takeTask(w) \/ writeTask(w) \/ writerExit(w)

Worker ==
  takePending \/ workerExit \/ processDetection \/ pushDetection
  \/ publishDetection

Next ==
  \/ Command \/ Handler \/ Worker
  \/ \E c \in Cameras : copyFrame(c) \/ Callback(c) \/ getDetectedFrame(c)
  \/ \E w \in Writers : Writer(w)

Spec == Init /\ [][Next]_vars

(* Every thread that can run is scheduled.  Frames need not arrive.        *)
FairSpec ==
  /\ Spec
  /\ WF_vars(Handler) /\ WF_vars(Worker)
  /\ \A c \in Cameras : WF_vars(Callback(c))
  /\ \A w \in Writers : WF_vars(Writer(w))
-----------------------------------------------------------------------------
(* Properties.                                                             *)

Phases == {"configured", "started", "starting", "running", "stopping",
           "unwinding", "cancel", "joinWorker", "stopWriters", "joinWriters",
           "resetRunning", "resetConfigured"}

Hands == [pc : {"off", "wait", "write", "detect", "push", "publish"},
          f : SUBSET Frames]

(* Every variable holds a value the code can give it.                      *)
TypeOK ==
  /\ config \in [mode : ProcessMode, save_frames : BOOLEAN]
  /\ enabled \in BOOLEAN /\ stop_threads \in BOOLEAN
  /\ stop_detection \in BOOLEAN /\ terminated \in BOOLEAN
  /\ backlog \in 0 .. Budget
  /\ buffered_frames \in Seq(Frames) /\ pending_batch \in Seq(Frames)
  /\ write_queue \in Seq(Frames)
  /\ next_trigger_id \in 1 .. MaxTriggers + 1
  /\ pending_detection \in [Cameras -> SUBSET Frames]
  /\ last_detected \in Cameras \cup {-1}
  /\ detected_seq \in Nat
  /\ phase \in Phases
  /\ camOn \in [Cameras -> BOOLEAN] /\ callback \in BOOLEAN
  /\ frame_counter \in [Cameras -> 0 .. MaxFrames]
  /\ wr \in [Writers -> Hands] /\ wk \in Hands
  /\ accepted \subseteq Frames /\ refused \subseteq Frames
  /\ disk \subseteq Frames /\ lost \subseteq Frames

(* The accepted frames still in memory: in a queue, or in the hands of a   *)
(* thread between reserving and queueing or between taking and writing.    *)
Held ==
  Elems(buffered_frames) \cup Elems(pending_batch) \cup Elems(write_queue)
  \cup (UNION {wr[w].f : w \in Writers})
  \cup (UNION {cap[c].f : c \in {d \in Cameras : cap[d].pc = "push"}})
  \cup (IF wk.pc = "push" THEN wk.f ELSE {})

(* backlog_bytes counts exactly the frames held in memory, whatever        *)
(* callbacks, writers and detector do at once, and the budget bounds it:   *)
(* it neither leaks away nor forgets frames it still holds.                *)
BacklogExact == backlog = Cardinality(Held) /\ backlog <= Budget

(* The pipeline implements the abstract session: through all its queues   *)
(* and threads an accepted frame is held within the budget until it leaves *)
(* for the disk, once, or as a failed write, and stop_cameras does not     *)
(* return before the last one has left.                                    *)
Session == INSTANCE CaptureSession WITH
  open <- phase \notin {"configured", "resetConfigured"}, held <- Held
ImplementsSession == Session!Spec

(* When the handler of stop_cameras (or of a failed start) returns, every  *)
(* accepted frame has been dealt with, and every thread has ended, so that *)
(* the next start finds none.                                              *)
StoppedMeansFlushed ==
  phase = "configured" =>
    Held = {} /\ wk = Off /\ \A w \in Writers : wr[w] = Off

(* What BUFFER mode records of each camera is a prefix of what the camera  *)
(* delivered: once a frame is refused, no later one is accepted.  (BATCH   *)
(* frees the budget as it writes and may have gaps.)                       *)
KeepsPrefix ==
  session = "BUFFER" =>
    \A f \in accepted, g \in refused : f.cam = g.cam => f.n < g.n

Answered == {acks[i].id : i \in DOMAIN acks}

(* Every trigger that was armed is answered exactly once, completed or     *)
(* cancelled, and none is left unanswered when the cameras have stopped.   *)
TriggerAnsweredOnce ==
  /\ \A i, j \in DOMAIN acks : acks[i].id = acks[j].id => i = j
  /\ phase = "configured" => Answered = 1 .. next_trigger_id - 1

(* A completed trigger captured from each camera exactly the frame that    *)
(* was asked for, skip_frames after the next one the camera hands over; a  *)
(* cancelled one captured only such frames.                                *)
TriggerCapturesWanted ==
  \A i \in DOMAIN acks :
    /\ acks[i].captures \subseteq acks[i].want
    /\ ~acks[i].cancelled => acks[i].captures = acks[i].want

(* With room in the budget, the files a trigger result names are on disk   *)
(* (or their write failed) once the cameras have stopped.                  *)
AckedAreWritten ==
  phase = "configured" =>
    \A i \in DOMAIN acks : acks[i].save => acks[i].captures \subseteq disk \cup lost

(* No camera's pending frame waits for more than one detection of each     *)
(* other camera, however fast those deliver.                               *)
NoStarvation ==
  \A c \in Cameras : pending_detection[c] # {} => bypassed[c] < NumCameras

(* A streamer never goes back and never gets a frame twice: each frame it  *)
(* takes of a camera is newer than the one before, across stops, starts    *)
(* and resets.                                                             *)
StreamsMoveForward ==
  [][\A c \in Cameras : cursor'[c] # cursor[c] => got'[c] > got[c]]_vars

(* No cursor outruns the publisher: a processed frame on offer is one the  *)
(* streamer can still take, or the one it took last.                       *)
DetectionsVisible ==
  \A c \in Cameras : \A d \in detected[c] :
    d.seq > cursor[c] \/ got[c] = d.n

(* Once the cameras have stopped no processed frame is left for a streamer *)
(* that subscribes later.                                                  *)
NoStaleDetection ==
  phase = "configured" => \A c \in Cameras : detected[c] = {}

(* stop_cameras returns: the callbacks, the worker and the writers it      *)
(* waits for all come to an end.                                           *)
StopCompletes == phase = "stopping" ~> phase = "configured"

(* frame_processor.cpp: the ack means that the frames it names have been   *)
(* handed to the writer pool.                                              *)
AckMeansQueued ==
  \A i \in DOMAIN acks :
    acks[i].save /\ ~acks[i].cancelled =>
      acks[i].captures \subseteq
        Elems(write_queue) \cup (UNION {wr[w].f : w \in Writers}) \cup disk \cup lost
=============================================================================
