------------------------ MODULE FrameProcessorProofs ------------------------
(***************************************************************************)
(* Proofs about the frame-processing pipeline that hold for every value of *)
(* the constants: whatever mode is set while the cameras run, and however  *)
(* a start fails.                                                          *)
(***************************************************************************)
EXTENDS FrameProcessor, SequenceTheorems, WellFoundedInduction,
        FiniteSetTheorems, TLAPS

(***************************************************************************)
(* Types.  TypeOK leaves out the histories and the callbacks' records.     *)
(***************************************************************************)
Results ==
  [id : Nat, cancelled : BOOLEAN, captures : SUBSET Frames,
   want : SUBSET [cam : Cameras, n : Int], save : BOOLEAN]

Triggers ==
  [id : Nat, waiting : [Cameras -> Int], captures : SUBSET Frames,
   want : SUBSET [cam : Cameras, n : Int]]

CapStates ==
  [pc : {"idle", "copied", "reserve", "push", "ack"}, f : SUBSET Frames,
   to : {"QUEUE", "BUFFER", "BATCH"}, done : SUBSET Results]

(* A callback that has a frame to hand over or to queue. *)
Active == {"copied", "reserve", "push"}

FrameOf(c) == [cam |-> c, n |-> frame_counter[c]]

(* The frame in a callback's hands is the newest of its camera. *)
CapOK ==
  /\ cap \in [Cameras -> CapStates]
  /\ \A c \in Cameras :
       /\ cap[c].pc \in Active => cap[c].f = {FrameOf(c)}
       /\ cap[c].pc \in {"idle", "copied"} => cap[c].done = {}

TrigOK == pending_trigger \subseteq Triggers /\ acks \in Seq(Results)

SlotOK ==
  /\ detected \in [Cameras -> SUBSET [n : 1 .. MaxFrames, seq : Nat]]
  /\ cursor \in [Cameras -> Nat] /\ got \in [Cameras -> 0 .. MaxFrames]
  /\ bypassed \in [Cameras -> Nat]

TypeInv == TypeOK /\ CapOK /\ TrigOK /\ SlotOK

(* A set of cameras has a first one; the round robin takes one of them.    *)
LEMMA LeastCamera ==
  ASSUME NEW T \in SUBSET Cameras, T # {}
  PROVE  \E c \in T : \A d \in T : c <= d
<1>1. T \subseteq Nat BY ProcessorAssumption DEF Cameras
<1>2. PICK x \in T : \A y \in T : ~(<<y, x>> \in OpToRel(<, Nat))
  BY <1>1, NatLessThanWellFounded, WFMin
<1>3. \A y \in T : x <= y
  <2> SUFFICES ASSUME NEW y \in T PROVE ~(y < x) BY <1>1
  <2>1. y < x => <<y, x>> \in OpToRel(<, Nat) BY <1>1 DEF OpToRel
  <2>2. QED BY <1>2, <2>1
<1>4. QED BY <1>3

LEMMA NextCamera ==
  ASSUME pendingCameras # {}
  PROVE  LET after == {c \in pendingCameras : c > last_detected}
             from  == IF after # {} THEN after ELSE pendingCameras
         IN  nextCamera \in from /\ \A d \in from : nextCamera <= d
<1> DEFINE after == {c \in pendingCameras : c > last_detected}
           from  == IF after # {} THEN after ELSE pendingCameras
<1>1. from \in SUBSET Cameras /\ from # {} BY DEF pendingCameras
<1>2. \E c \in from : \A d \in from : c <= d BY <1>1, LeastCamera
<1>3. nextCamera = CHOOSE c \in from : \A d \in from : c <= d
  BY DEF nextCamera
<1> HIDE DEF from
<1>4. nextCamera \in from /\ \A d \in from : nextCamera <= d
  BY <1>2, <1>3, Zenon
<1>5. QED BY <1>4 DEF from

LEMMA NextCameraPending ==
  ASSUME pendingCameras # {}
  PROVE  nextCamera \in Cameras /\ pending_detection[nextCamera] # {}
<1>1. nextCamera \in pendingCameras BY NextCamera
<1>2. QED BY <1>1 DEF pendingCameras

LEMMA TypeInit == Init => TypeInv
<1> SUFFICES ASSUME Init PROVE TypeInv
  OBVIOUS
<1> USE ProcessorAssumption DEF Init
<1>1. /\ enabled \in BOOLEAN /\ stop_threads \in BOOLEAN
      /\ stop_detection \in BOOLEAN /\ terminated \in BOOLEAN
      /\ callback \in BOOLEAN /\ camOn \in [Cameras -> BOOLEAN]
      /\ config \in [mode : ProcessMode, save_frames : BOOLEAN]
  BY Zenon DEF ProcessMode
<1>2. wr \in [Writers -> Hands] /\ wk \in Hands BY DEF Off, Hands
<1>3. TypeOK BY <1>1, <1>2 DEF TypeOK, Phases
<1>4. CapOK BY DEF CapOK, CapStates, Idle, Active
<1>5. TrigOK /\ SlotOK BY DEF TrigOK, SlotOK
<1>6. QED BY <1>3, <1>4, <1>5 DEF TypeInv

(* A callback that has nothing more to queue. *)
LEMMA FinishType ==
  ASSUME NEW r \in CapStates
  PROVE  /\ Finish(r) \in CapStates /\ Finish(r).pc \in {"idle", "ack"}
         /\ Finish(r).done = r.done
         /\ Finish(r).pc = "idle" => Finish(r) = Idle
<1>1. CASE r.done = {} BY <1>1 DEF Finish, Idle, CapStates
<1>2. CASE r.done # {}
  <2>1. Finish(r) = [pc |-> "ack", f |-> r.f, to |-> r.to, done |-> r.done]
    BY <1>2 DEF Finish, CapStates
  <2>2. QED BY <2>1 DEF CapStates
<1>3. QED BY <1>1, <1>2

(* One step of one callback. *)
LEMMA CapMove ==
  ASSUME TypeInv, NEW c \in Cameras, NEW r \in CapStates,
         cap' = [cap EXCEPT ![c] = r], frame_counter' = frame_counter,
         r.pc \in Active => r.f = {FrameOf(c)},
         r.pc \in {"idle", "copied"} => r.done = {}
  PROVE  CapOK'
BY DEF TypeInv, CapOK, FrameOf

LEMMA IdleType == Idle \in CapStates /\ Idle.pc = "idle" /\ Idle.done = {}
BY DEF Idle, CapStates

LEMMA FinishedCap ==
  ASSUME TypeInv, NEW c \in Cameras, NEW r \in CapStates,
         cap' = [cap EXCEPT ![c] = Finish(r)], frame_counter' = frame_counter
  PROVE  CapOK'
<1>1. Finish(r) \in CapStates /\ Finish(r).pc \in {"idle", "ack"} BY FinishType
<1>2. Finish(r).pc = "idle" => Finish(r).done = {} BY FinishType, IdleType
<1>3. QED BY <1>1, <1>2, CapMove DEF Active

(* The trigger t once the frame f of camera c has been taken, or skipped. *)
Taken(t, c, f) == [t EXCEPT !.waiting[c] = Served, !.captures = @ \cup {f}]
Skipped(t, c) == [t EXCEPT !.waiting[c] = @ - 1]

LEMMA TakenType ==
  ASSUME NEW t \in Triggers, NEW c \in Cameras, NEW f \in Frames
  PROVE  /\ Taken(t, c, f) \in Triggers
         /\ Taken(t, c, f).id = t.id /\ Taken(t, c, f).want = t.want
         /\ Taken(t, c, f).captures = t.captures \cup {f}
         /\ Taken(t, c, f).waiting = [t.waiting EXCEPT ![c] = Served]
<1> USE DEF Triggers, Taken, Served
<1>1. Taken(t, c, f) \in Triggers
  <2> DEFINE u == [t EXCEPT !.waiting[c] = Served]
  <2>1. u \in Triggers /\ u.captures = t.captures OBVIOUS
  <2>2. Taken(t, c, f) = [u EXCEPT !.captures = @ \cup {f}] OBVIOUS
  <2> HIDE DEF u, Taken
  <2>3. [u EXCEPT !.captures = @ \cup {f}] \in Triggers BY <2>1
  <2>4. QED BY <2>2, <2>3
<1>2. Taken(t, c, f).id = t.id /\ Taken(t, c, f).want = t.want OBVIOUS
<1>3. Taken(t, c, f).captures = t.captures \cup {f} OBVIOUS
<1>4. Taken(t, c, f).waiting = [t.waiting EXCEPT ![c] = Served] OBVIOUS
<1>5. QED BY <1>1, <1>2, <1>3, <1>4

LEMMA SkippedType ==
  ASSUME NEW t \in Triggers, NEW c \in Cameras
  PROVE  /\ Skipped(t, c) \in Triggers
         /\ Skipped(t, c).id = t.id /\ Skipped(t, c).want = t.want
         /\ Skipped(t, c).captures = t.captures
         /\ Skipped(t, c).waiting = [t.waiting EXCEPT ![c] = @ - 1]
BY DEF Triggers, Skipped

LEMMA ResultType ==
  ASSUME TypeOK, NEW t \in Triggers, NEW b \in BOOLEAN
  PROVE  Result(t, b) \in Results
BY DEF Triggers, Results, Result, TypeOK

(* handleTriggerFrame in terms of these. *)
LastOf(t, c, f) == \A d \in Cameras : Taken(t, c, f).waiting[d] = Served

Task(t, c, f) ==
  [pc |-> "reserve", f |-> {f}, to |-> "QUEUE",
   done |-> IF LastOf(t, c, f) THEN {Result(Taken(t, c, f), FALSE)} ELSE {}]

LEMMA CaptureIs ==
  ASSUME NEW t \in Triggers, NEW c \in Cameras, NEW f, capture(t, c, f)
  PROVE  /\ pending_trigger' = IF LastOf(t, c, f) THEN {}
                               ELSE {Taken(t, c, f)}
         /\ cap' = [cap EXCEPT ![c] =
                      IF config.save_frames THEN Task(t, c, f)
                      ELSE Finish(Task(t, c, f))]
BY Zenon DEF capture, LastOf, Taken, Task

LEMMA CapStep == ASSUME TypeInv, [Next]_vars PROVE CapOK'
<1> USE ProcessorAssumption
<1> USE DEF TypeInv, TypeOK, CapOK, TrigOK, Active, ctlVars, queueVars,
            trigVars, detVars, slotVars, camVars, resetVars, threadVars,
            readVars, histVars, fileVars
<1>1. ASSUME NEW c \in Cameras, copyFrame(c) PROVE CapOK'
  <2> DEFINE new == [cam |-> c, n |-> frame_counter'[c]]
             r == [Idle EXCEPT !.pc = "copied", !.f = {new}]
  <2>1. cap' = [cap EXCEPT ![c] = r] BY <1>1 DEF copyFrame
  <2>2. /\ frame_counter' = [frame_counter EXCEPT ![c] = @ + 1]
        /\ frame_counter'[c] \in 1 .. MaxFrames
    BY <1>1, SMTT(30) DEF copyFrame
  <2>3. new \in Frames BY <2>2 DEF Frames
  <2>4. r \in CapStates /\ r.pc = "copied" /\ r.f = {new} /\ r.done = {}
    BY <2>3 DEF CapStates, Idle
  <2> HIDE DEF r
  <2>5. QED BY <2>1, <2>2, <2>4 DEF FrameOf
<1>2. ASSUME NEW c \in Cameras, saveFrame_Ignored(c) PROVE CapOK'
  BY <1>2, CapMove, IdleType DEF saveFrame_Ignored
<1>3. ASSUME NEW c \in Cameras, saveFrame_Record(c) PROVE CapOK'
  <2> DEFINE r == [cap[c] EXCEPT !.pc = "reserve", !.to = config.mode]
  <2>1. cap[c] \in CapStates /\ cap[c].pc = "copied"
    BY <1>3 DEF saveFrame_Record, Captured
  <2>2. cap' = [cap EXCEPT ![c] = r] BY <1>3, <2>1 DEF saveFrame_Record
  <2>3. r \in CapStates /\ r.pc = "reserve" /\ r.f = cap[c].f
    BY <1>3, <2>1 DEF saveFrame_Record, recording, CapStates
  <2> HIDE DEF r
  <2>4. r.f = {FrameOf(c)} /\ frame_counter' = frame_counter
    BY <1>3, <2>1, <2>3 DEF saveFrame_Record
  <2>5. QED BY <2>2, <2>3, <2>4, CapMove
<1>4. ASSUME NEW c \in Cameras, saveFrame_Trigger(c) PROVE CapOK'
  <2>1. PICK f \in Frames : Captured(c, f) /\ handleTriggerFrame(c, f)
    BY <1>4 DEF saveFrame_Trigger
  <2>2. frame_counter' = frame_counter BY <1>4 DEF saveFrame_Trigger
  <2>3. CASE cap' = [cap EXCEPT ![c] = Idle] BY <2>2, <2>3, CapMove, IdleType
  <2>4. ASSUME NEW t \in pending_trigger, capture(t, c, f) PROVE CapOK'
    <3> DEFINE task == Task(t, c, f)
    <3>1. cap' = [cap EXCEPT ![c] =
                    IF config.save_frames THEN task ELSE Finish(task)]
      BY <2>4, CaptureIs
    <3>2. Result(Taken(t, c, f), FALSE) \in Results BY TakenType, ResultType
    <3>3. f = FrameOf(c) BY <2>1 DEF Captured
    <3>4. task \in CapStates BY <3>2 DEF Task, CapStates
    <3>5. task.pc = "reserve" /\ task.f = {FrameOf(c)} BY <3>3 DEF Task
    <3> HIDE DEF task
    <3>6. CASE config.save_frames BY <2>2, <3>1, <3>4, <3>5, <3>6, CapMove
    <3>7. CASE ~config.save_frames
      BY <2>2, <3>1, <3>4, <3>7, FinishedCap
    <3>8. QED BY <3>6, <3>7
  <2>5. QED BY <2>1, <2>3, <2>4 DEF handleTriggerFrame
<1>5. ASSUME NEW c \in Cameras, saveFrame_Detect(c) PROVE CapOK'
  BY <1>5, CapMove, IdleType DEF saveFrame_Detect
<1>6. ASSUME NEW c \in Cameras, reserve(c) PROVE CapOK'
  <2> DEFINE r == [cap[c] EXCEPT !.pc = "push"]
  <2>1. /\ cap[c] \in CapStates /\ cap[c].pc = "reserve"
        /\ frame_counter' = frame_counter
    BY <1>6 DEF reserve
  <2>2. cap' = [cap EXCEPT ![c] = IF hasRoom THEN r ELSE Finish(cap[c])]
    BY <1>6, <2>1 DEF reserve
  <2>3. r \in CapStates /\ r.pc = "push" /\ r.f = cap[c].f
    BY <2>1 DEF CapStates
  <2> HIDE DEF r
  <2>4. CASE hasRoom BY <2>1, <2>2, <2>3, <2>4, CapMove
  <2>5. CASE ~hasRoom
    <3>1. cap' = [cap EXCEPT ![c] = Finish(cap[c])] BY <2>2, <2>5
    <3>2. QED BY <2>1, <3>1, FinishedCap
  <2>6. QED BY <2>4, <2>5
<1>7. ASSUME NEW c \in Cameras, push(c) PROVE CapOK'
  <2>1. cap' = [cap EXCEPT ![c] = Finish(cap[c])] /\ cap[c] \in CapStates
    BY <1>7 DEF push
  <2>2. frame_counter' = frame_counter BY <1>7 DEF push
  <2>3. QED BY <2>1, <2>2, FinishedCap
<1>8. ASSUME NEW c \in Cameras, ack(c) PROVE CapOK'
  BY <1>8, CapMove, IdleType DEF ack
<1>9. CASE UNCHANGED <<cap, frame_counter>> BY <1>9 DEF FrameOf
<1>10. QED
  BY <1>1, <1>2, <1>3, <1>4, <1>5, <1>6, <1>7, <1>8, <1>9
  DEF Next, vars, Command, Handler, Worker, Callback, Writer, saveFrame,
      configure, start, startNone, stopCameras, resetFrameCounts,
      handleTriggerCapture, armTrigger, checkCaptureFeasibility, allStarted,
      unwound, startCamera, queueRequestFails, stopCamera, flushBufferedFrames,
      stop, joinWorker, stopWriters, joinWriters, resetFramesSavedCounts,
      getDetectedFrame, takePending, workerExit, processDetection,
      pushDetection, publishDetection, takeTask, writeTask, writerExit

LEMMA TrigStep == ASSUME TypeInv, [Next]_vars PROVE TrigOK'
<1> USE ProcessorAssumption
<1> USE DEF TypeInv, TypeOK, CapOK, TrigOK, ctlVars, queueVars, trigVars,
            detVars, slotVars, camVars, resetVars, threadVars, readVars,
            histVars, fileVars
<1>1. CASE start BY <1>1 DEF start
<1>2. CASE handleTriggerCapture
  <2>1. PICK skip \in Skips, ids \in SUBSET Cameras : armTrigger(ids, skip)
    BY <1>2 DEF handleTriggerCapture
  <2>2. \A c \in Cameras : nextOver(c) + skip \in Int BY DEF nextOver
  <2>3. QED BY <2>1, <2>2 DEF armTrigger, Triggers, Served
<1>3. CASE stop
  <2>1. \A t \in pending_trigger : Result(t, TRUE) \in Results BY ResultType
  <2>2. acks' \in Seq(Results)
    <3>1. CASE UNCHANGED acks BY <3>1
    <3>2. ASSUME NEW t \in pending_trigger,
                 acks' = Append(acks, Result(t, TRUE))
          PROVE  acks' \in Seq(Results)
      <4>1. Result(t, TRUE) \in Results BY <2>1
      <4>2. QED BY <3>2, <4>1, AppendProperties
    <3>3. QED BY <1>3, <3>1, <3>2 DEF stop
  <2>3. QED BY <1>3, <2>2 DEF stop
<1>4. ASSUME NEW c \in Cameras, saveFrame_Trigger(c) PROVE TrigOK'
  <2>1. PICK f \in Frames : Captured(c, f) /\ handleTriggerFrame(c, f)
    BY <1>4 DEF saveFrame_Trigger
  <2>2. UNCHANGED acks BY <1>4 DEF saveFrame_Trigger
  <2>3. CASE UNCHANGED pending_trigger BY <2>2, <2>3
  <2>4. ASSUME NEW t \in pending_trigger,
               pending_trigger' = {[t EXCEPT !.waiting[c] = @ - 1]}
        PROVE  TrigOK'
    <3>1. pending_trigger' = {Skipped(t, c)} BY <2>4, Zenon DEF Skipped
    <3>2. Skipped(t, c) \in Triggers BY SkippedType
    <3>3. QED BY <2>2, <3>1, <3>2
  <2>5. ASSUME NEW t \in pending_trigger, capture(t, c, f) PROVE TrigOK'
    <3>1. pending_trigger' \subseteq {Taken(t, c, f)} BY <2>5, CaptureIs
    <3>2. Taken(t, c, f) \in Triggers BY TakenType
    <3>3. QED BY <2>2, <3>1, <3>2
  <2>6. QED BY <2>1, <2>3, <2>4, <2>5 DEF handleTriggerFrame
<1>5. ASSUME NEW c \in Cameras, ack(c) PROVE TrigOK'
  BY <1>5 DEF ack, CapStates
<1>6. CASE UNCHANGED trigVars BY <1>6
<1>7. QED
  BY <1>1, <1>2, <1>3, <1>4, <1>5, <1>6
  DEF Next, vars, Command, Handler, Worker, Callback, Writer, saveFrame,
      configure, startNone, stopCameras, resetFrameCounts,
      checkCaptureFeasibility, allStarted, unwound, startCamera,
      queueRequestFails, stopCamera, flushBufferedFrames, joinWorker,
      stopWriters, joinWriters, resetFramesSavedCounts, copyFrame,
      saveFrame_Ignored, saveFrame_Record, saveFrame_Detect, reserve, push,
      getDetectedFrame, takePending, workerExit, processDetection,
      pushDetection, publishDetection, takeTask, writeTask, writerExit

LEMMA SlotStep == ASSUME TypeInv, [Next]_vars PROVE SlotOK'
<1> USE ProcessorAssumption
<1> USE DEF TypeInv, TypeOK, SlotOK, ctlVars, queueVars, trigVars, detVars,
            slotVars, camVars, resetVars, threadVars, readVars, histVars,
            fileVars
<1>1. CASE start BY <1>1 DEF start
<1>2. CASE joinWorker BY <1>2, SMTT(30) DEF joinWorker
<1>3. CASE resetFramesSavedCounts BY <1>3 DEF resetFramesSavedCounts
<1>4. ASSUME NEW c \in Cameras, saveFrame_Detect(c) PROVE SlotOK'
  BY <1>4 DEF saveFrame_Detect
<1>5. CASE takePending BY <1>5 DEF takePending
<1>6. CASE publishDetection BY <1>6 DEF publishDetection, Hands, Frames
<1>7. ASSUME NEW c \in Cameras, getDetectedFrame(c) PROVE SlotOK'
  BY <1>7 DEF getDetectedFrame
<1>8. CASE UNCHANGED <<slotVars, readVars, detVars>> BY <1>8
<1>9. QED
  BY <1>1, <1>2, <1>3, <1>4, <1>5, <1>6, <1>7, <1>8
  DEF Next, vars, Command, Handler, Worker, Callback, Writer, saveFrame,
      configure, startNone, stopCameras, resetFrameCounts,
      handleTriggerCapture, armTrigger, checkCaptureFeasibility, allStarted,
      unwound, startCamera, queueRequestFails, stopCamera, flushBufferedFrames,
      stop, stopWriters, joinWriters, copyFrame, saveFrame_Ignored,
      saveFrame_Record, saveFrame_Trigger, reserve, push, ack, workerExit,
      processDetection, pushDetection, takeTask, writeTask, writerExit

(* TypeOK in the parts its proof takes it in. *)
CtlTypes ==
  /\ config \in [mode : ProcessMode, save_frames : BOOLEAN]
  /\ enabled \in BOOLEAN /\ stop_threads \in BOOLEAN
  /\ stop_detection \in BOOLEAN /\ terminated \in BOOLEAN
  /\ callback \in BOOLEAN
PhaseTypes == phase \in Phases /\ camOn \in [Cameras -> BOOLEAN]
QueueTypes ==
  /\ backlog \in 0 .. Budget
  /\ buffered_frames \in Seq(Frames) /\ pending_batch \in Seq(Frames)
  /\ write_queue \in Seq(Frames)
ThreadTypes == wr \in [Writers -> Hands] /\ wk \in Hands
HistTypes ==
  /\ accepted \subseteq Frames /\ refused \subseteq Frames
  /\ disk \subseteq Frames /\ lost \subseteq Frames
DetectTypes ==
  /\ pending_detection \in [Cameras -> SUBSET Frames]
  /\ last_detected \in Cameras \cup {-1} /\ detected_seq \in Nat
  /\ next_trigger_id \in 1 .. MaxTriggers + 1
  /\ frame_counter \in [Cameras -> 0 .. MaxFrames]

LEMMA FramesOf ==
  ASSUME NEW q \in Seq(Frames) PROVE Elems(q) \subseteq Frames
BY DEF Elems

LEMMA CtlStep == ASSUME CtlTypes, [Next]_vars PROVE CtlTypes'
<1> USE ProcessorAssumption
<1> USE DEF CtlTypes, ctlVars, queueVars, trigVars, detVars, slotVars, camVars,
            resetVars, threadVars, readVars, histVars, fileVars
<1>1. CASE configure BY <1>1 DEF configure
<1>2. CASE start
  BY <1>2, Zenon DEF start
<1>3. CASE startNone
  BY <1>3, Zenon DEF startNone
<1>4. CASE checkCaptureFeasibility
  BY <1>4, Zenon DEF checkCaptureFeasibility
<1>5. CASE stop
  BY <1>5, Zenon DEF stop
<1>6. CASE stopWriters
  BY <1>6, Zenon DEF stopWriters
<1>7. CASE UNCHANGED <<ctlVars, callback>> BY <1>7
<1>8. QED
  BY <1>1, <1>2, <1>3, <1>4, <1>5, <1>6, <1>7
  DEF Next, vars, Command, Handler, Worker, Callback, Writer, saveFrame,
      stopCameras, resetFrameCounts, handleTriggerCapture, armTrigger,
      allStarted, unwound, startCamera, queueRequestFails, stopCamera,
      flushBufferedFrames, joinWorker, joinWriters, resetFramesSavedCounts,
      copyFrame, saveFrame_Ignored, saveFrame_Record, saveFrame_Trigger,
      saveFrame_Detect, reserve, push, ack, getDetectedFrame, takePending,
      workerExit, processDetection, pushDetection, publishDetection, takeTask,
      writeTask, writerExit

LEMMA PhaseStep == ASSUME PhaseTypes, [Next]_vars PROVE PhaseTypes'
<1> USE ProcessorAssumption
<1> USE DEF PhaseTypes, Phases, ctlVars, queueVars, trigVars, detVars,
            slotVars, camVars, resetVars, threadVars, readVars, histVars,
            fileVars
<1>1. CASE start BY <1>1 DEF start
<1>2. CASE startNone BY <1>2 DEF startNone
<1>3. CASE stopCameras BY <1>3 DEF stopCameras
<1>4. CASE resetFrameCounts BY <1>4 DEF resetFrameCounts
<1>5. CASE checkCaptureFeasibility BY <1>5 DEF checkCaptureFeasibility
<1>6. CASE allStarted BY <1>6 DEF allStarted
<1>7. CASE unwound BY <1>7 DEF unwound
<1>8. ASSUME NEW c \in Cameras, startCamera(c) PROVE PhaseTypes'
  <2>1. camOn' \in [Cameras -> BOOLEAN] BY <1>8, Zenon DEF startCamera
  <2>2. QED BY <1>8, <2>1 DEF startCamera
<1>9. ASSUME NEW c \in Cameras, queueRequestFails(c) PROVE PhaseTypes'
  <2>1. camOn' \in [Cameras -> BOOLEAN] BY <1>9, Zenon DEF queueRequestFails
  <2>2. QED BY <1>9, <2>1 DEF queueRequestFails
<1>10. ASSUME NEW c \in Cameras, stopCamera(c) PROVE PhaseTypes'
  <2>1. camOn' \in [Cameras -> BOOLEAN] BY <1>10, Zenon DEF stopCamera
  <2>2. QED BY <1>10, <2>1 DEF stopCamera
<1>11. CASE flushBufferedFrames BY <1>11 DEF flushBufferedFrames
<1>12. CASE stop BY <1>12 DEF stop
<1>13. CASE joinWorker BY <1>13 DEF joinWorker
<1>14. CASE stopWriters BY <1>14 DEF stopWriters
<1>15. CASE joinWriters BY <1>15 DEF joinWriters
<1>16. CASE resetFramesSavedCounts BY <1>16 DEF resetFramesSavedCounts
<1>17. CASE UNCHANGED <<phase, camOn>> BY <1>17
<1>18. QED
  BY <1>1, <1>2, <1>3, <1>4, <1>5, <1>6, <1>7, <1>8, <1>9, <1>10, <1>11, <1>12,
     <1>13, <1>14, <1>15, <1>16, <1>17
  DEF Next, vars, Command, Handler, Worker, Callback, Writer, saveFrame,
      configure, handleTriggerCapture, armTrigger, copyFrame,
      saveFrame_Ignored, saveFrame_Record, saveFrame_Trigger, saveFrame_Detect,
      reserve, push, ack, getDetectedFrame, takePending, workerExit,
      processDetection, pushDetection, publishDetection, takeTask, writeTask,
      writerExit

LEMMA QueueStep == ASSUME TypeInv, [Next]_vars PROVE QueueTypes'
<1> USE ProcessorAssumption
<1> USE DEF TypeInv, TypeOK, QueueTypes, ctlVars, queueVars, trigVars, detVars,
            slotVars, camVars, resetVars, threadVars, readVars, histVars,
            fileVars
<1>1. CASE start BY <1>1 DEF start
<1>2. CASE flushBufferedFrames
  <2>1. Len(buffered_frames) \in Nat OBVIOUS
  <2>2. released(Len(buffered_frames)) \in 0 .. Budget BY <2>1 DEF released
  <2>3. /\ backlog' \in {backlog, released(Len(buffered_frames))}
        /\ buffered_frames' \in {buffered_frames, <<>>}
        /\ UNCHANGED <<pending_batch, write_queue>>
    BY <1>2 DEF flushBufferedFrames
  <2>4. <<>> \in Seq(Frames) /\ buffered_frames \in Seq(Frames) BY EmptySeq
  <2>5. buffered_frames' \in Seq(Frames) BY <2>3, <2>4, Zenon
  <2>6. QED BY <2>2, <2>3, <2>5
<1>3. CASE stopWriters
  <2>1. write_queue \o pending_batch \in Seq(Frames) BY ConcatProperties
  <2>2. write_queue' \in Seq(Frames) /\ pending_batch' \in Seq(Frames)
    BY <1>3, <2>1, EmptySeq, ZenonT(40) DEF stopWriters
  <2>3. QED BY <1>3, <2>2 DEF stopWriters
<1>4. ASSUME NEW c \in Cameras, reserve(c) PROVE QueueTypes'
  BY <1>4, SMTT(30) DEF reserve, reserveBacklog, hasRoom
<1>5. ASSUME NEW c \in Cameras, push(c) PROVE QueueTypes'
  <2> DEFINE f == CHOOSE x \in cap[c].f : TRUE
  <2>1. cap[c].f = {FrameOf(c)} /\ cap[c].f \subseteq Frames
    BY <1>5 DEF push, CapOK, CapStates, Active
  <2>2. f \in Frames BY <2>1
  <2> HIDE DEF f
  <2>3. Append(pending_batch, f) \in Seq(Frames)
    BY <2>2, AppendProperties
  <2>4. buffered_frames' \in {buffered_frames, Append(buffered_frames, f)}
    BY <1>5, Zenon DEF push, f
  <2>5. pending_batch' \in {pending_batch, <<>>, Append(pending_batch, f)}
    BY <1>5, Zenon DEF push, f
  <2>6. write_queue' \in {write_queue, Append(write_queue, f),
                          write_queue \o Append(pending_batch, f)}
    BY <1>5, Zenon DEF push, f
  <2>7. /\ Append(buffered_frames, f) \in Seq(Frames)
        /\ Append(write_queue, f) \in Seq(Frames)
        /\ write_queue \o Append(pending_batch, f) \in Seq(Frames)
    BY <2>2, <2>3, AppendProperties, ConcatProperties
  <2>8. UNCHANGED backlog BY <1>5 DEF push
  <2>9. /\ <<>> \in Seq(Frames) /\ buffered_frames \in Seq(Frames)
        /\ pending_batch \in Seq(Frames) /\ write_queue \in Seq(Frames)
    BY EmptySeq
  <2>10. buffered_frames' \in Seq(Frames) BY <2>4, <2>7, <2>9, Zenon
  <2>11. pending_batch' \in Seq(Frames) BY <2>3, <2>5, <2>9, Zenon
  <2>12. write_queue' \in Seq(Frames) BY <2>6, <2>7, <2>9, Zenon
  <2>13. QED BY <2>8, <2>10, <2>11, <2>12
<1>6. CASE processDetection
  BY <1>6 DEF processDetection, reserveBacklog, hasRoom, detect
<1>7. CASE pushDetection BY <1>7 DEF pushDetection, Hands
<1>8. ASSUME NEW w \in Writers, takeTask(w) PROVE QueueTypes'
  BY <1>8 DEF takeTask
<1>9. ASSUME NEW w \in Writers, writeTask(w) PROVE QueueTypes'
  BY <1>9 DEF writeTask, released
<1>10. CASE UNCHANGED queueVars BY <1>10
<1>11. QED
  BY <1>1, <1>2, <1>3, <1>4, <1>5, <1>6, <1>7, <1>8, <1>9, <1>10
  DEF Next, vars, Command, Handler, Worker, Callback, Writer, saveFrame,
      configure, startNone, stopCameras, resetFrameCounts,
      handleTriggerCapture, armTrigger, checkCaptureFeasibility, allStarted,
      unwound, startCamera, queueRequestFails, stopCamera, stop, joinWorker,
      joinWriters, resetFramesSavedCounts, copyFrame, saveFrame_Ignored,
      saveFrame_Record, saveFrame_Trigger, saveFrame_Detect, ack,
      getDetectedFrame, takePending, workerExit, publishDetection, writerExit

LEMMA ThreadStep == ASSUME TypeInv, [Next]_vars PROVE ThreadTypes'
<1> USE ProcessorAssumption
<1> USE DEF TypeInv, TypeOK, ThreadTypes, Hands, ctlVars, queueVars, trigVars,
            detVars, slotVars, camVars, resetVars, threadVars, readVars,
            histVars, fileVars
<1>1. CASE start BY <1>1 DEF start, Off
<1>2. CASE takePending
  BY <1>2, NextCameraPending DEF takePending
<1>3. CASE workerExit BY <1>3 DEF workerExit, Off
<1>4. CASE processDetection
  BY <1>4, SMTT(30) DEF processDetection, detect, reserveBacklog
<1>5. CASE pushDetection BY <1>5 DEF pushDetection
<1>6. CASE publishDetection BY <1>6 DEF publishDetection
<1>7. ASSUME NEW w \in Writers, takeTask(w) PROVE ThreadTypes'
  BY <1>7 DEF takeTask
<1>8. ASSUME NEW w \in Writers, writeTask(w) PROVE ThreadTypes'
  BY <1>8 DEF writeTask
<1>9. ASSUME NEW w \in Writers, writerExit(w) PROVE ThreadTypes'
  BY <1>9 DEF writerExit, Off
<1>10. CASE UNCHANGED <<wr, wk>> BY <1>10
<1>11. QED
  BY <1>1, <1>2, <1>3, <1>4, <1>5, <1>6, <1>7, <1>8, <1>9, <1>10
  DEF Next, vars, Command, Handler, Worker, Callback, Writer, saveFrame,
      configure, startNone, stopCameras, resetFrameCounts,
      handleTriggerCapture, armTrigger, checkCaptureFeasibility, allStarted,
      unwound, startCamera, queueRequestFails, stopCamera, flushBufferedFrames,
      stop, joinWorker, stopWriters, joinWriters, resetFramesSavedCounts,
      copyFrame, saveFrame_Ignored, saveFrame_Record, saveFrame_Trigger,
      saveFrame_Detect, reserve, push, ack, getDetectedFrame

LEMMA HistStep == ASSUME TypeInv, [Next]_vars PROVE HistTypes'
<1> USE ProcessorAssumption
<1> USE DEF TypeInv, TypeOK, HistTypes, Hands, ctlVars, queueVars, trigVars,
            detVars, slotVars, camVars, resetVars, threadVars, readVars,
            histVars, fileVars
<1>1. CASE start BY <1>1 DEF start
<1>2. CASE startNone BY <1>2 DEF startNone
<1>3. CASE flushBufferedFrames
  <2>1. Elems(buffered_frames) \subseteq Frames BY FramesOf
  <2>2. QED BY <1>3, <2>1 DEF flushBufferedFrames
<1>4. ASSUME NEW c \in Cameras, reserve(c) PROVE HistTypes'
  <2>1. cap[c].f \subseteq Frames BY DEF CapOK, CapStates
  <2>2. QED BY <1>4, <2>1 DEF reserve, reserveBacklog
<1>5. CASE processDetection
  BY <1>5 DEF processDetection, detect, reserveBacklog
<1>6. ASSUME NEW w \in Writers, writeTask(w) PROVE HistTypes'
  BY <1>6 DEF writeTask
<1>7. CASE UNCHANGED <<histVars, fileVars>> BY <1>7
<1>8. QED
  BY <1>1, <1>2, <1>3, <1>4, <1>5, <1>6, <1>7
  DEF Next, vars, Command, Handler, Worker, Callback, Writer, saveFrame,
      configure, stopCameras, resetFrameCounts, handleTriggerCapture,
      armTrigger, checkCaptureFeasibility, allStarted, unwound, startCamera,
      queueRequestFails, stopCamera, stop, joinWorker, stopWriters,
      joinWriters, resetFramesSavedCounts, copyFrame, saveFrame_Ignored,
      saveFrame_Record, saveFrame_Trigger, saveFrame_Detect, push, ack,
      getDetectedFrame, takePending, workerExit, pushDetection,
      publishDetection, takeTask, writerExit

LEMMA DetectStep == ASSUME TypeInv, [Next]_vars PROVE DetectTypes'
<1> USE ProcessorAssumption
<1> USE DEF TypeInv, TypeOK, DetectTypes, ctlVars, queueVars, trigVars,
            detVars, slotVars, camVars, resetVars, threadVars, readVars,
            histVars, fileVars
<1>1. CASE start BY <1>1 DEF start
<1>2. CASE resetFramesSavedCounts BY <1>2 DEF resetFramesSavedCounts
<1>3. CASE handleTriggerCapture BY <1>3 DEF handleTriggerCapture, armTrigger
<1>4. ASSUME NEW c \in Cameras, copyFrame(c) PROVE DetectTypes'
  BY <1>4, SMTT(30) DEF copyFrame
<1>5. ASSUME NEW c \in Cameras, saveFrame_Trigger(c) PROVE DetectTypes'
  BY <1>5 DEF saveFrame_Trigger
<1>6. ASSUME NEW c \in Cameras, saveFrame_Detect(c) PROVE DetectTypes'
  BY <1>6 DEF saveFrame_Detect
<1>7. CASE stop BY <1>7 DEF stop
<1>8. ASSUME NEW c \in Cameras, ack(c) PROVE DetectTypes'
  BY <1>8 DEF ack
<1>9. CASE takePending
  BY <1>9, NextCameraPending DEF takePending
<1>10. CASE publishDetection BY <1>10 DEF publishDetection
<1>11. CASE UNCHANGED <<detVars, detected_seq, trigVars, frame_counter>>
  BY <1>11
<1>12. QED
  BY <1>1, <1>2, <1>3, <1>4, <1>5, <1>6, <1>7, <1>8, <1>9, <1>10, <1>11
  DEF Next, vars, Command, Handler, Worker, Callback, Writer, saveFrame,
      configure, startNone, stopCameras, resetFrameCounts,
      checkCaptureFeasibility, allStarted, unwound, startCamera,
      queueRequestFails, stopCamera, flushBufferedFrames, joinWorker,
      stopWriters, joinWriters, saveFrame_Ignored, saveFrame_Record, reserve,
      push, getDetectedFrame, workerExit, processDetection, pushDetection,
      takeTask, writeTask, writerExit

(* Every variable of the pipeline holds a value the code can give it, in   *)
(* every mode, with any number of cameras, writers and failed starts.      *)
LEMMA TypeStep == TypeInv /\ [Next]_vars => TypeInv'
<1> SUFFICES ASSUME TypeInv, [Next]_vars PROVE TypeInv'
  OBVIOUS
<1>1. CtlTypes /\ PhaseTypes
  BY Zenon DEF TypeInv, TypeOK, CtlTypes, PhaseTypes
<1>2. CtlTypes' BY <1>1, CtlStep
<1>3. PhaseTypes' BY <1>1, PhaseStep
<1>4. TypeOK'
  <2>1. QueueTypes' /\ ThreadTypes' /\ HistTypes' /\ DetectTypes'
    BY QueueStep, ThreadStep, HistStep, DetectStep
  <2>2. QED
    BY <1>2, <1>3, <2>1, Zenon
    DEF TypeOK, CtlTypes, PhaseTypes, QueueTypes, ThreadTypes, HistTypes,
        DetectTypes
<1>5. QED BY <1>4, CapStep, TrigStep, SlotStep DEF TypeInv

(* Every variable of the pipeline holds a value the code can give it.      *)
THEOREM PipelineTypes == Spec => []TypeOK
<1>1. Spec => []TypeInv BY TypeInit, TypeStep, PTL DEF Spec
<1>2. TypeInv => TypeOK BY DEF TypeInv
<1>3. QED BY <1>1, <1>2, PTL

-----------------------------------------------------------------------------
(***************************************************************************)
(* The detection path of the pipeline, from the callbacks over the worker  *)
(* to the streamers.                                                       *)
(***************************************************************************)

(***************************************************************************)
(* Frames move forward.                                                    *)
(***************************************************************************)

(* n is behind what camera c has delivered, and behind what its callback   *)
(* has in hand.                                                            *)
Old(c, n) ==
  /\ n <= frame_counter[c]
  /\ cap[c].pc \in Active => n < frame_counter[c]

(* On its way from the camera to the streamer a frame stays in order: what *)
(* the streamer has, what is on offer, what the worker has, what is        *)
(* pending, and what the callback has are ever newer.                      *)
Order ==
  \A c \in Cameras :
    /\ Old(c, got[c])
    /\ \A d \in detected[c] : Old(c, d.n)
    /\ \A f \in wk.f : f.cam = c =>
         /\ Old(c, f.n) /\ got[c] < f.n
         /\ \A d \in detected[c] : d.n < f.n
    /\ \A f \in pending_detection[c] :
         /\ f.cam = c /\ Old(c, f.n) /\ got[c] < f.n
         /\ \A d \in detected[c] : d.n < f.n
         /\ \A g \in wk.f : g.cam = c => g.n < f.n

(* A slot holds one frame, no cursor is ahead of the sequence number, and  *)
(* what the sequence number calls new is a newer frame.                    *)
Numbers ==
  \A c \in Cameras :
    /\ cursor[c] <= detected_seq
    /\ \A d, e \in detected[c] : d = e
    /\ \A d \in detected[c] :
         /\ d.seq <= detected_seq
         /\ d.seq > cursor[c] \/ got[c] = d.n
         /\ d.seq > cursor[c] => got[c] < d.n

(* A callback whose frame has yet to be accepted. *)
Upcoming == {"copied", "reserve"}

(* How a step moves the callback of a camera and its count of frames. *)
Advances ==
  \A c \in Cameras :
    \/ /\ frame_counter'[c] = frame_counter[c]
       /\ cap'[c].pc \in Active => cap[c].pc \in Active
       /\ cap'[c].pc \in Upcoming => cap[c].pc \in Upcoming
    \/ frame_counter'[c] = frame_counter[c] + 1 /\ cap[c].pc \notin Active

LEMMA AdvancesStep == ASSUME TypeInv, [Next]_vars PROVE Advances
<1> USE ProcessorAssumption
<1> USE DEF Advances, TypeInv, TypeOK, CapOK, Active, Upcoming, ctlVars,
            queueVars, trigVars, detVars, slotVars, camVars, resetVars,
            threadVars, readVars, histVars, fileVars
<1>1. ASSUME NEW c \in Cameras, copyFrame(c) PROVE Advances
  <2>1. cap[c].pc = "idle" BY <1>1 DEF copyFrame, Idle
  <2>2. frame_counter' = [frame_counter EXCEPT ![c] = @ + 1]
    BY <1>1 DEF copyFrame
  <2>3. \A d \in Cameras : d # c => cap'[d] = cap[d] BY <1>1 DEF copyFrame
  <2>4. QED BY <2>1, <2>2, <2>3
<1>2. ASSUME NEW c \in Cameras, saveFrame_Ignored(c) PROVE Advances
  BY <1>2 DEF saveFrame_Ignored, Captured
<1>3. ASSUME NEW c \in Cameras, saveFrame_Record(c) PROVE Advances
  BY <1>3 DEF saveFrame_Record, Captured
<1>4. ASSUME NEW c \in Cameras, saveFrame_Trigger(c) PROVE Advances
  <2>1. cap[c].pc = "copied" BY <1>4 DEF saveFrame_Trigger, Captured
  <2>2. \A d \in Cameras : d # c => cap'[d] = cap[d]
    BY <1>4 DEF saveFrame_Trigger, handleTriggerFrame, capture
  <2>3. QED BY <1>4, <2>1, <2>2 DEF saveFrame_Trigger
<1>5. ASSUME NEW c \in Cameras, saveFrame_Detect(c) PROVE Advances
  BY <1>5 DEF saveFrame_Detect, Captured
<1>6. ASSUME NEW c \in Cameras, reserve(c) PROVE Advances
  <2>1. cap[c].pc = "reserve" BY <1>6 DEF reserve
  <2>2. \A d \in Cameras : d # c => cap'[d] = cap[d] BY <1>6 DEF reserve
  <2>3. QED BY <1>6, <2>1, <2>2 DEF reserve
<1>7. ASSUME NEW c \in Cameras, push(c) PROVE Advances
  <2>1. cap[c].pc = "push" /\ cap'[c].pc \in {"idle", "ack"}
    BY <1>7, FinishType DEF push
  <2>2. \A d \in Cameras : d # c => cap'[d] = cap[d] BY <1>7 DEF push
  <2>3. QED BY <1>7, <2>1, <2>2 DEF push
<1>8. ASSUME NEW c \in Cameras, ack(c) PROVE Advances
  <2>1. Idle.pc = "idle" BY IdleType
  <2>2. QED BY <1>8, <2>1 DEF ack
<1>9. CASE UNCHANGED <<cap, frame_counter>> BY <1>9
<1>10. QED
  BY <1>1, <1>2, <1>3, <1>4, <1>5, <1>6, <1>7, <1>8, <1>9
  DEF Next, vars, Command, Handler, Worker, Callback, Writer, saveFrame,
      configure, start, startNone, stopCameras, resetFrameCounts,
      handleTriggerCapture, armTrigger, checkCaptureFeasibility, allStarted,
      unwound, startCamera, queueRequestFails, stopCamera, flushBufferedFrames,
      stop, joinWorker, stopWriters, joinWriters, resetFramesSavedCounts,
      getDetectedFrame, takePending, workerExit, processDetection,
      pushDetection, publishDetection, takeTask, writeTask, writerExit

LEMMA OldStays ==
  ASSUME TypeInv, [Next]_vars, NEW c \in Cameras, NEW n \in Nat, Old(c, n)
  PROVE  Old(c, n)'
<1>1. Advances BY AdvancesStep
<1>2. frame_counter[c] \in Nat /\ frame_counter'[c] \in Nat
  <2>1. TypeInv' BY TypeStep
  <2>2. QED BY <2>1 DEF TypeInv, TypeOK
<1>3. QED BY <1>1, <1>2 DEF Advances, Old

(* The numbers that Order compares. *)
LEMMA Comparable ==
  ASSUME TypeInv
  PROVE  /\ \A c \in Cameras : got[c] \in Nat /\ cursor[c] \in Nat
         /\ \A c \in Cameras : \A d \in detected[c] : d.n \in Nat /\ d.seq \in Nat
         /\ \A c \in Cameras : \A f \in pending_detection[c] :
              f \in Frames /\ f.n \in Nat
         /\ \A f \in wk.f : f \in Frames /\ f.cam \in Cameras /\ f.n \in Nat
BY ProcessorAssumption DEF TypeInv, TypeOK, SlotOK, Hands, Frames

(* Steps that only take frames away keep the order. *)
LEMMA OrderShrinks ==
  ASSUME TypeInv, Order, [Next]_vars, got' = got, wk'.f \subseteq wk.f,
         \A c \in Cameras : /\ detected'[c] \subseteq detected[c]
                            /\ pending_detection'[c] \subseteq pending_detection[c]
  PROVE  Order'
<1> SUFFICES ASSUME NEW c \in Cameras
             PROVE  /\ Old(c, got[c])'
                    /\ \A d \in detected'[c] : Old(c, d.n)'
                    /\ \A f \in wk'.f : f.cam = c => Old(c, f.n)'
                    /\ \A f \in pending_detection'[c] : Old(c, f.n)'
  BY DEF Order
<1>1. Old(c, got[c])' BY Comparable, OldStays DEF Order
<1>2. \A d \in detected'[c] : Old(c, d.n)' BY Comparable, OldStays DEF Order
<1>3. \A f \in wk'.f : f.cam = c => Old(c, f.n)'
  BY Comparable, OldStays DEF Order
<1>4. \A f \in pending_detection'[c] : Old(c, f.n)'
  BY Comparable, OldStays DEF Order
<1>5. QED BY <1>1, <1>2, <1>3, <1>4

LEMMA OrderStep == ASSUME TypeInv, Order, [Next]_vars PROVE Order'
<1> USE ProcessorAssumption
<1> USE DEF TypeInv, TypeOK, SlotOK, ctlVars, queueVars, trigVars, detVars,
            slotVars, camVars, resetVars, threadVars, readVars, histVars,
            fileVars
<1>1. CASE start
  <2>1. got' = got /\ wk'.f \subseteq wk.f BY <1>1 DEF start, Off, Hands
  <2>2. \A c \in Cameras : detected'[c] = {} /\ pending_detection'[c] = {}
    BY <1>1 DEF start
  <2>3. QED BY <2>1, <2>2, OrderShrinks
<1>2. CASE joinWorker
  <2>1. \A c \in Cameras : detected'[c] \subseteq detected[c]
    BY <1>2 DEF joinWorker
  <2>2. UNCHANGED <<got, wk, pending_detection>> BY <1>2 DEF joinWorker
  <2>3. QED BY <2>1, <2>2, OrderShrinks
<1>3. CASE resetFramesSavedCounts
  <2>1. \A c \in Cameras : detected'[c] = {} /\ pending_detection'[c] = {}
    BY <1>3 DEF resetFramesSavedCounts
  <2>2. UNCHANGED <<got, wk>> BY <1>3 DEF resetFramesSavedCounts
  <2>3. QED BY <2>1, <2>2, OrderShrinks
<1>4. ASSUME NEW c \in Cameras, saveFrame_Detect(c) PROVE Order'
  <2>1. cap[c].pc = "copied" /\ cap[c].f = {FrameOf(c)}
    BY <1>4 DEF saveFrame_Detect, Captured, CapOK, Active
  <2>2. pending_detection' = [pending_detection EXCEPT ![c] = {FrameOf(c)}]
    BY <1>4, <2>1 DEF saveFrame_Detect, Captured
  <2>3. UNCHANGED <<got, wk, detected, frame_counter>>
    BY <1>4 DEF saveFrame_Detect
  <2>4. cap'[c].pc = "idle"
    BY <1>4, IdleType DEF saveFrame_Detect, CapOK
  <2>5. /\ \A d \in detected[c] : d.n < frame_counter[c]
        /\ \A g \in wk.f : g.cam = c => g.n < frame_counter[c]
        /\ got[c] < frame_counter[c]
    BY <2>1, Comparable DEF Order, Old, Active
  <2>6. Old(c, frame_counter[c])' BY <2>3, <2>4 DEF Old, Active
  <2>7. \A e \in Cameras : Old(e, got[e])'
    BY <2>3, Comparable, OldStays DEF Order
  <2>8. \A e \in Cameras : \A d \in detected'[e] : Old(e, d.n)'
    BY <2>3, Comparable, OldStays DEF Order
  <2>9. \A f \in wk'.f : Old(f.cam, f.n)'
    BY <2>3, Comparable, OldStays DEF Order
  <2>10. \A e \in Cameras \ {c} : \A f \in pending_detection[e] : Old(e, f.n)'
    BY <2>3, Comparable, OldStays DEF Order
  <2>11. FrameOf(c).cam = c /\ FrameOf(c).n = frame_counter[c] BY DEF FrameOf
  <2> HIDE DEF FrameOf
  <2>12. QED
    BY <2>2, <2>3, <2>5, <2>6, <2>7, <2>8, <2>9, <2>10, <2>11 DEF Order
<1>5. CASE takePending
  <2> DEFINE m == nextCamera
  <2>1. m \in Cameras BY <1>5, NextCameraPending DEF takePending
  <2>2. /\ wk'.f = pending_detection[m]
        /\ pending_detection' = [pending_detection EXCEPT ![m] = {}]
        /\ UNCHANGED <<got, detected>>
    BY <1>5 DEF takePending
  <2> HIDE DEF m
  <2>3. \A e \in Cameras : Old(e, got[e])'
    BY <2>2, Comparable, OldStays DEF Order
  <2>4. \A e \in Cameras : \A d \in detected'[e] : Old(e, d.n)'
    BY <2>2, Comparable, OldStays DEF Order
  <2>5. \A e \in Cameras : \A f \in pending_detection[e] : Old(e, f.n)'
    BY Comparable, OldStays DEF Order
  <2>6. ASSUME NEW e \in Cameras, NEW f \in wk'.f, f.cam = e
        PROVE  /\ Old(e, f.n)' /\ got'[e] < f.n
               /\ \A d \in detected'[e] : d.n < f.n
    <3>1. e = m BY <2>1, <2>2, <2>6 DEF Order
    <3>2. QED BY <2>2, <2>5, <2>6, <3>1 DEF Order
  <2>7. ASSUME NEW e \in Cameras, NEW f \in pending_detection'[e]
        PROVE  /\ f.cam = e /\ Old(e, f.n)' /\ got'[e] < f.n
               /\ \A d \in detected'[e] : d.n < f.n
               /\ \A g \in wk'.f : g.cam = e => g.n < f.n
    <3>1. e # m /\ f \in pending_detection[e]
      BY <2>1, <2>2, <2>7, Comparable
    <3>2. \A g \in wk'.f : g.cam = m BY <2>1, <2>2 DEF Order
    <3>3. QED BY <2>2, <2>5, <3>1, <3>2 DEF Order
  <2>8. QED BY <2>3, <2>4, <2>6, <2>7 DEF Order
<1>6. CASE workerExit
  <2>1. wk'.f = {} BY <1>6 DEF workerExit, Off
  <2>2. UNCHANGED <<got, detected, pending_detection>> BY <1>6 DEF workerExit
  <2>3. QED BY <2>1, <2>2, OrderShrinks
<1>7. CASE processDetection
  <2>1. wk'.f = wk.f BY <1>7 DEF processDetection, Hands
  <2>2. UNCHANGED <<got, detected, pending_detection>>
    BY <1>7 DEF processDetection
  <2>3. QED BY <2>1, <2>2, OrderShrinks
<1>8. CASE pushDetection
  <2>1. wk'.f = wk.f BY <1>8 DEF pushDetection, Hands
  <2>2. UNCHANGED <<got, detected, pending_detection>>
    BY <1>8 DEF pushDetection
  <2>3. QED BY <2>1, <2>2, OrderShrinks
<1>9. CASE publishDetection
  <2>1. PICK f \in wk.f :
          detected' = [detected EXCEPT
                         ![f.cam] = {[n |-> f.n, seq |-> detected_seq']}]
    BY <1>9 DEF publishDetection
  <2>2. /\ wk'.f = {} /\ UNCHANGED <<got, pending_detection>>
        /\ f.cam \in Cameras /\ f.n \in Nat
    BY <1>9, Comparable DEF publishDetection
  <2>3. \A e \in Cameras : Old(e, got[e])'
    BY <2>2, Comparable, OldStays DEF Order
  <2>4. \A e \in Cameras : \A d \in detected[e] : Old(e, d.n)'
    BY Comparable, OldStays DEF Order
  <2>5. Old(f.cam, f.n)' BY <2>2, OldStays DEF Order
  <2>6. \A e \in Cameras : \A g \in pending_detection[e] : Old(e, g.n)'
    BY Comparable, OldStays DEF Order
  <2>7. \A e \in Cameras : \A d \in detected'[e] :
          d \in detected[e] \/ (e = f.cam /\ d.n = f.n)
    BY <2>1, <2>2
  <2>8. \A e \in Cameras : \A d \in detected'[e] : Old(e, d.n)'
    BY <2>4, <2>5, <2>7
  <2>9. ASSUME NEW e \in Cameras, NEW g \in pending_detection[e]
        PROVE  /\ g.cam = e /\ Old(e, g.n)' /\ got'[e] < g.n
               /\ \A d \in detected'[e] : d.n < g.n
    <3>1. /\ g.cam = e /\ got[e] < g.n
          /\ \A d \in detected[e] : d.n < g.n
          /\ f.cam = e => f.n < g.n
      BY <2>9 DEF Order
    <3>2. QED BY <2>2, <2>6, <2>7, <2>9, <3>1
  <2>10. QED BY <2>2, <2>3, <2>8, <2>9 DEF Order
<1>10. ASSUME NEW c \in Cameras, getDetectedFrame(c) PROVE Order'
  <2>1. PICK d \in detected[c] : got' = [got EXCEPT ![c] = d.n]
    BY <1>10 DEF getDetectedFrame
  <2>2. UNCHANGED <<wk, detected, pending_detection>>
    BY <1>10 DEF getDetectedFrame
  <2>3. \A e \in Cameras : Old(e, got[e])'
    <3>1. \A e \in Cameras : got'[e] = IF e = c THEN d.n ELSE got[e] BY <2>1
    <3>2. \A e \in Cameras : got'[e] \in Nat /\ Old(e, got'[e])
      BY <2>1, <3>1, Comparable DEF Order
    <3>3. SUFFICES ASSUME NEW e \in Cameras, NEW n \in Nat, n = got'[e]
                   PROVE  Old(e, n)'
      BY <3>2 DEF Old
    <3>4. QED BY <3>2, <3>3, OldStays
  <2>4. \A e \in Cameras : \A x \in detected'[e] : Old(e, x.n)'
    BY <2>2, Comparable, OldStays DEF Order
  <2>5. \A f \in wk'.f : Old(f.cam, f.n)'
    BY <2>2, Comparable, OldStays DEF Order
  <2>6. \A e \in Cameras : \A f \in pending_detection'[e] : Old(e, f.n)'
    BY <2>2, Comparable, OldStays DEF Order
  <2>7. \A e \in Cameras : got'[e] = IF e = c THEN d.n ELSE got[e]
    BY <2>1, Comparable
  <2>8. ASSUME NEW e \in Cameras, NEW f \in wk.f, f.cam = e
        PROVE  /\ Old(e, f.n)' /\ got'[e] < f.n
               /\ \A x \in detected[e] : x.n < f.n
    <3>1. got[e] < f.n /\ \A x \in detected[e] : x.n < f.n BY <2>8 DEF Order
    <3>2. QED BY <2>1, <2>2, <2>5, <2>7, <2>8, <3>1
  <2>9. ASSUME NEW e \in Cameras, NEW f \in pending_detection[e]
        PROVE  /\ f.cam = e /\ Old(e, f.n)' /\ got'[e] < f.n
               /\ \A x \in detected[e] : x.n < f.n
               /\ \A g \in wk.f : g.cam = e => g.n < f.n
    <3>1. /\ f.cam = e /\ got[e] < f.n
          /\ \A x \in detected[e] : x.n < f.n
          /\ \A g \in wk.f : g.cam = e => g.n < f.n
      BY <2>9 DEF Order
    <3>2. QED BY <2>1, <2>2, <2>6, <2>7, <2>9, <3>1
  <2>10. QED BY <2>2, <2>3, <2>4, <2>8, <2>9 DEF Order
<1>11. CASE UNCHANGED <<detected, wk, pending_detection, got>>
  BY <1>11, OrderShrinks
<1>12. QED
  BY <1>1, <1>2, <1>3, <1>4, <1>5, <1>6, <1>7, <1>8, <1>9, <1>10, <1>11
  DEF Next, vars, Command, Handler, Worker, Callback, Writer, saveFrame,
      configure, startNone, stopCameras, resetFrameCounts,
      handleTriggerCapture, armTrigger, checkCaptureFeasibility, allStarted,
      unwound, startCamera, queueRequestFails, stopCamera, flushBufferedFrames,
      stop, stopWriters, joinWriters, copyFrame, saveFrame_Ignored,
      saveFrame_Record, saveFrame_Trigger, reserve, push, ack, takeTask,
      writeTask, writerExit

LEMMA NumbersStep == ASSUME TypeInv, Order, Numbers, [Next]_vars PROVE Numbers'
<1> USE ProcessorAssumption
<1> USE DEF TypeInv, TypeOK, SlotOK, ctlVars, queueVars, trigVars, detVars,
            slotVars, camVars, resetVars, threadVars, readVars, histVars,
            fileVars
<1>1. CASE start
  BY <1>1 DEF start, Numbers
<1>2. CASE joinWorker
  <2>1. \A c \in Cameras : detected'[c] \subseteq detected[c]
    BY <1>2 DEF joinWorker
  <2>2. UNCHANGED <<readVars, detected_seq>> BY <1>2 DEF joinWorker
  <2>3. QED BY <2>1, <2>2 DEF Numbers
<1>3. CASE resetFramesSavedCounts
  BY <1>3 DEF resetFramesSavedCounts, Numbers
<1>4. CASE publishDetection
  <2>1. PICK f \in wk.f :
          detected' = [detected EXCEPT
                         ![f.cam] = {[n |-> f.n, seq |-> detected_seq']}]
    BY <1>4 DEF publishDetection
  <2>2. /\ UNCHANGED readVars /\ detected_seq' = detected_seq + 1
        /\ f.cam \in Cameras /\ f.n \in Nat
    BY <1>4, Comparable DEF publishDetection
  <2>3. \A e \in Cameras : \A d \in detected'[e] :
          \/ d \in detected[e]
          \/ e = f.cam /\ d.n = f.n /\ d.seq = detected_seq + 1
    BY <2>1, <2>2
  <2>4. got[f.cam] < f.n BY <2>2 DEF Order
  <2>5. \A e \in Cameras : \A x, y \in detected'[e] : x = y
    BY <2>1, <2>2 DEF Numbers
  <2> SUFFICES ASSUME NEW e \in Cameras
               PROVE  /\ cursor'[e] <= detected_seq'
                      /\ \A d \in detected'[e] :
                           /\ d.seq <= detected_seq'
                           /\ d.seq > cursor'[e] \/ got'[e] = d.n
                           /\ d.seq > cursor'[e] => got'[e] < d.n
    BY <2>5 DEF Numbers
  <2>6. cursor[e] <= detected_seq /\ cursor[e] \in Nat
    BY Comparable DEF Numbers
  <2>7. \A d \in detected[e] :
          /\ d.seq <= detected_seq /\ d.seq \in Nat
          /\ d.seq > cursor[e] \/ got[e] = d.n
          /\ d.seq > cursor[e] => got[e] < d.n
    BY Comparable DEF Numbers
  <2>8. cursor'[e] = cursor[e] /\ got'[e] = got[e] BY <2>2
  <2>9. SUFFICES ASSUME NEW d \in detected'[e]
                 PROVE  /\ d.seq <= detected_seq'
                        /\ d.seq > cursor'[e] \/ got'[e] = d.n
                        /\ d.seq > cursor'[e] => got'[e] < d.n
    BY <2>2, <2>6, <2>8
  <2>10. CASE d \in detected[e]
    BY <2>2, <2>7, <2>8, <2>10
  <2>11. CASE e = f.cam /\ d.n = f.n /\ d.seq = detected_seq + 1
    BY <2>2, <2>4, <2>6, <2>8, <2>11
  <2>12. QED BY <2>3, <2>10, <2>11
<1>5. ASSUME NEW c \in Cameras, getDetectedFrame(c) PROVE Numbers'
  <2>1. PICK d \in detected[c] :
          /\ d.seq > cursor[c]
          /\ got' = [got EXCEPT ![c] = d.n]
          /\ cursor' = [cursor EXCEPT ![c] = d.seq]
    BY <1>5 DEF getDetectedFrame
  <2>2. UNCHANGED slotVars BY <1>5 DEF getDetectedFrame
  <2>3. \A x \in detected[c] : x = d BY DEF Numbers
  <2>4. d.seq \in Nat /\ d.seq <= detected_seq BY Comparable DEF Numbers
  <2>5. cursor'[c] = d.seq /\ got'[c] = d.n BY <2>1
  <2>6. \A e \in Cameras \ {c} : cursor'[e] = cursor[e] /\ got'[e] = got[e]
    BY <2>1
  <2>7. \A x \in detected'[c] : x = d BY <2>2, <2>3
  <2>8. detected' = detected /\ detected_seq' = detected_seq BY <2>2
  <2> SUFFICES ASSUME NEW e \in Cameras
               PROVE  /\ cursor'[e] <= detected_seq'
                      /\ \A x, y \in detected'[e] : x = y
                      /\ \A x \in detected'[e] :
                           /\ x.seq <= detected_seq'
                           /\ x.seq > cursor'[e] \/ got'[e] = x.n
                           /\ x.seq > cursor'[e] => got'[e] < x.n
    BY DEF Numbers
  <2>9. CASE e = c BY <2>4, <2>5, <2>7, <2>8, <2>9
  <2>10. CASE e # c BY <2>6, <2>8, <2>10 DEF Numbers
  <2>11. QED BY <2>9, <2>10
<1>6. CASE UNCHANGED <<slotVars, readVars>> BY <1>6 DEF Numbers
<1>7. QED
  BY <1>1, <1>2, <1>3, <1>4, <1>5, <1>6
  DEF Next, vars, Command, Handler, Worker, Callback, Writer, saveFrame,
      configure, startNone, stopCameras, resetFrameCounts,
      handleTriggerCapture, armTrigger, checkCaptureFeasibility, allStarted,
      unwound, startCamera, queueRequestFails, stopCamera, flushBufferedFrames,
      stop, stopWriters, joinWriters, copyFrame, saveFrame_Ignored,
      saveFrame_Record, saveFrame_Trigger, saveFrame_Detect, reserve, push,
      ack, takePending, workerExit, processDetection, pushDetection, takeTask,
      writeTask, writerExit

LEMMA OrderInit == Init => Order /\ Numbers
<1> SUFFICES ASSUME Init PROVE Order /\ Numbers
  OBVIOUS
<1>1. Order BY ProcessorAssumption DEF Init, Order, Old, Off, Idle, Active
<1>2. Numbers BY ProcessorAssumption DEF Init, Numbers
<1>3. QED BY <1>1, <1>2

(* Frames and sequence numbers stay in order from saveFrame over the       *)
(* worker and the slots of getDetectedFrameForStreaming to the streamer.   *)
THEOREM OrderInvariant == Spec => [](TypeInv /\ Order /\ Numbers)
<1> DEFINE I == TypeInv /\ Order /\ Numbers
<1>1. Init => I BY TypeInit, OrderInit
<1>2. I /\ [Next]_vars => I' BY TypeStep, OrderStep, NumbersStep
<1>3. QED BY <1>1, <1>2, PTL DEF Spec

(* No cursor outruns the publisher: a processed frame on offer can still   *)
(* be taken by the streamer, or is the one it took last.                   *)
THEOREM OffersAreVisible == Spec => []DetectionsVisible
<1>1. Numbers => DetectionsVisible BY DEF Numbers, DetectionsVisible
<1>2. QED BY <1>1, OrderInvariant, PTL

(* A streamer never goes back and never gets a frame twice, across stops,  *)
(* starts, resets and changes of mode.                                     *)
THEOREM StreamsNeverGoBack == Spec => StreamsMoveForward
<1>1. ASSUME TypeInv, Order, Numbers, [Next]_vars, NEW c \in Cameras,
             cursor'[c] # cursor[c]
      PROVE  got'[c] > got[c]
  <2>1. cursor' # cursor BY <1>1
  <2>2. PICK e \in Cameras : getDetectedFrame(e)
    BY <1>1, <2>1
    DEF Next, vars, Command, Handler, Worker, Callback, Writer, saveFrame,
        configure, start, startNone, stopCameras, resetFrameCounts,
        handleTriggerCapture, armTrigger, checkCaptureFeasibility, allStarted,
        unwound, startCamera, queueRequestFails, stopCamera,
        flushBufferedFrames, stop, joinWorker, stopWriters, joinWriters,
        resetFramesSavedCounts, copyFrame, saveFrame_Ignored, saveFrame_Record,
        saveFrame_Trigger, saveFrame_Detect, reserve, push, ack, takePending,
        workerExit, processDetection, pushDetection, publishDetection,
        takeTask, writeTask, writerExit, ctlVars, queueVars, trigVars, detVars,
        slotVars, camVars, resetVars, threadVars, readVars, histVars, fileVars
  <2>3. PICK d \in detected[e] : /\ d.seq > cursor[e]
                                 /\ cursor' = [cursor EXCEPT ![e] = d.seq]
                                 /\ got' = [got EXCEPT ![e] = d.n]
    BY <2>2 DEF getDetectedFrame
  <2>4. /\ cursor \in [Cameras -> Nat] /\ got \in [Cameras -> Nat]
        /\ d.n \in Nat
    BY <1>1, Comparable DEF TypeInv, SlotOK
  <2>5. e = c BY <1>1, <2>3, <2>4
  <2>6. got[c] < d.n BY <1>1, <2>3, <2>5 DEF Numbers
  <2>7. got'[c] = d.n BY <2>3, <2>4, <2>5
  <2>8. QED BY <2>4, <2>6, <2>7
<1> DEFINE Forward ==
      \A c \in Cameras : cursor'[c] # cursor[c] => got'[c] > got[c]
<1>2. TypeInv /\ Order /\ Numbers /\ [Next]_vars => [Forward]_vars BY <1>1
<1>3. Spec => [][Forward]_vars BY <1>2, OrderInvariant, PTL DEF Spec
<1>4. QED BY <1>3 DEF StreamsMoveForward

(***************************************************************************)
(* The detector's round robin.                                             *)
(***************************************************************************)

(* The cameras between l and c in the cyclic order, without either.        *)
Between(c, l) ==
  {d \in Cameras : IF l < c THEN l < d /\ d < c ELSE l < d \/ d < c}

(* What has gone before the pending frame of a camera, and what still may. *)
Waiting ==
  \A c \in Cameras :
    pending_detection[c] # {} =>
      bypassed[c] + Cardinality(Between(c, last_detected)) < NumCameras

LEMMA BetweenOthers ==
  ASSUME NEW c \in Cameras, NEW l \in Cameras \cup {-1}
  PROVE  /\ IsFiniteSet(Between(c, l))
         /\ Cardinality(Between(c, l)) \in Nat
         /\ Cardinality(Between(c, l)) < NumCameras
<1>1. /\ IsFiniteSet(Cameras) /\ Cardinality(Cameras) = NumCameras
      /\ Cameras \subseteq Nat
  <2>1. /\ IsFiniteSet(Cameras)
        /\ Cardinality(Cameras) =
             IF 0 > NumCameras - 1 THEN 0 ELSE (NumCameras - 1) - 0 + 1
    BY ProcessorAssumption, FS_Interval DEF Cameras
  <2>2. Cameras \subseteq Nat BY ProcessorAssumption DEF Cameras
  <2>3. QED BY <2>1, <2>2, ProcessorAssumption
<1>2. Between(c, l) \subseteq Cameras \ {c} BY <1>1 DEF Between
<1>3. IsFiniteSet(Cameras \ {c}) /\ Cardinality(Cameras \ {c}) = NumCameras - 1
  BY <1>1, FS_RemoveElement
<1>4. /\ IsFiniteSet(Between(c, l))
      /\ Cardinality(Between(c, l)) <= Cardinality(Cameras \ {c})
  BY <1>2, <1>3, FS_Subset
<1>5. QED BY <1>3, <1>4, FS_CardinalityType, ProcessorAssumption

(* The worker takes the camera it comes to next: those between it and a    *)
(* waiting camera were between the last one and that camera before.        *)
LEMMA OneFewer ==
  ASSUME TypeOK, NEW c \in pendingCameras, c # nextCamera
  PROVE  Cardinality(Between(c, nextCamera)) + 1
           <= Cardinality(Between(c, last_detected))
<1> DEFINE m == nextCamera
           l == last_detected
           after == {d \in pendingCameras : d > l}
           from == IF after # {} THEN after ELSE pendingCameras
<1>1. m \in from /\ \A d \in from : m <= d BY NextCamera
<1>2. /\ c \in Cameras /\ c \in Nat /\ m \in Cameras /\ m \in Nat
      /\ l \in Cameras \cup {-1} /\ l \in Int /\ Cameras \subseteq Nat
  BY <1>1, ProcessorAssumption DEF pendingCameras, TypeOK, Cameras
<1> HIDE DEF m, l
<1>3. m \in Between(c, l)
  <2>1. CASE after # {} BY <1>1, <1>2, <2>1 DEF Between, m
  <2>2. CASE after = {} BY <1>1, <1>2, <2>2 DEF Between, m
  <2>3. QED BY <2>1, <2>2
<1>4. Between(c, m) \subseteq Between(c, l) \ {m}
  <2>1. CASE after # {}
    <3>1. c # m /\ m > l /\ (c > l => m < c) BY <1>1, <1>2, <2>1 DEF m
    <3>2. SUFFICES ASSUME NEW d \in Between(c, m)
                   PROVE  d \in Between(c, l) /\ d # m
      OBVIOUS
    <3>3. d \in Cameras /\ d \in Nat /\ IF m < c THEN m < d /\ d < c
                                        ELSE m < d \/ d < c
      BY <1>2 DEF Between
    <3>4. d # m /\ IF l < c THEN l < d /\ d < c ELSE l < d \/ d < c
      BY <1>2, <3>1, <3>3
    <3>5. QED BY <3>3, <3>4 DEF Between
  <2>2. CASE after = {} BY <1>1, <1>2, <2>2 DEF Between, m
  <2>3. QED BY <2>1, <2>2
<1>5. IsFiniteSet(Between(c, l)) /\ Cardinality(Between(c, l)) \in Nat
  BY <1>2, BetweenOthers
<1>6. /\ IsFiniteSet(Between(c, l) \ {m})
      /\ Cardinality(Between(c, l) \ {m}) = Cardinality(Between(c, l)) - 1
  BY <1>3, <1>5, FS_RemoveElement
<1>7. Cardinality(Between(c, m)) <= Cardinality(Between(c, l) \ {m})
  BY <1>4, <1>6, FS_Subset
<1>8. Cardinality(Between(c, m)) \in Nat BY <1>2, BetweenOthers
<1>9. QED BY <1>5, <1>6, <1>7, <1>8 DEF m, l

LEMMA WaitingStep == ASSUME TypeInv, Waiting, [Next]_vars PROVE Waiting'
<1> USE ProcessorAssumption
<1> USE DEF TypeInv, TypeOK, SlotOK, ctlVars, queueVars, trigVars, detVars,
            slotVars, camVars, resetVars, threadVars, readVars, histVars,
            fileVars
<1>1. CASE start
  BY <1>1 DEF start, Waiting
<1>2. CASE resetFramesSavedCounts
  BY <1>2 DEF resetFramesSavedCounts, Waiting
<1>3. ASSUME NEW c \in Cameras, saveFrame_Detect(c) PROVE Waiting'
  <2>1. /\ bypassed' = [bypassed EXCEPT
                          ![c] = IF pending_detection[c] = {} THEN 0 ELSE @]
        /\ \A d \in Cameras \ {c} :
             pending_detection'[d] = pending_detection[d]
        /\ last_detected' = last_detected
    BY <1>3 DEF saveFrame_Detect
  <2>2. \A d \in Cameras : /\ Cardinality(Between(d, last_detected)) \in Nat
                           /\ Cardinality(Between(d, last_detected)) < NumCameras
    BY BetweenOthers
  <2>3. \A d \in Cameras : Between(d, last_detected)' = Between(d, last_detected)
    BY <2>1 DEF Between
  <2>4. SUFFICES ASSUME NEW d \in Cameras, pending_detection'[d] # {}
                 PROVE  bypassed'[d] + Cardinality(Between(d, last_detected))
                          < NumCameras
    BY <2>3 DEF Waiting
  <2>5. CASE pending_detection[d] = {}
    <3>1. d = c /\ bypassed'[d] = 0 BY <2>1, <2>4, <2>5
    <3>2. QED BY <2>2, <3>1
  <2>6. CASE pending_detection[d] # {}
    BY <2>1, <2>6 DEF Waiting
  <2>7. QED BY <2>5, <2>6
<1>4. CASE takePending
  <2> DEFINE m == nextCamera
  <2>1. m \in Cameras BY <1>4, NextCameraPending DEF takePending
  <2>2. /\ pending_detection' = [pending_detection EXCEPT ![m] = {}]
        /\ last_detected' = m
        /\ \A c \in Cameras : bypassed'[c] =
             IF c # m /\ c \in pendingCameras THEN bypassed[c] + 1 ELSE 0
    BY <1>4 DEF takePending
  <2>3. \A c \in pendingCameras : c # m =>
          Cardinality(Between(c, m)) + 1
            <= Cardinality(Between(c, last_detected))
    BY OneFewer
  <2>4. \A c \in Cameras : /\ Cardinality(Between(c, m)) \in Nat
                           /\ Cardinality(Between(c, last_detected)) \in Nat
    BY <2>1, BetweenOthers
  <2> HIDE DEF m
  <2>5. SUFFICES ASSUME NEW c \in Cameras, pending_detection'[c] # {}
                 PROVE  bypassed'[c] + Cardinality(Between(c, m)) < NumCameras
    <3>1. \A c \in Cameras : Between(c, last_detected)' = Between(c, m)
      BY <2>2 DEF Between
    <3>2. QED BY <2>2, <3>1, <2>5 DEF Waiting
  <2>6. c # m /\ c \in pendingCameras BY <2>1, <2>2, <2>5 DEF pendingCameras
  <2>7. bypassed[c] + Cardinality(Between(c, last_detected)) < NumCameras
    BY <2>6 DEF Waiting, pendingCameras
  <2>8. bypassed'[c] = bypassed[c] + 1 /\ bypassed[c] \in Nat BY <2>2, <2>6
  <2>9. QED BY <2>3, <2>4, <2>6, <2>7, <2>8
<1>5. CASE UNCHANGED detVars
  <2>1. \A c \in Cameras : Between(c, last_detected)' = Between(c, last_detected)
    BY <1>5 DEF Between
  <2>2. QED BY <1>5, <2>1 DEF Waiting
<1>6. QED
  BY <1>1, <1>2, <1>3, <1>4, <1>5
  DEF Next, vars, Command, Handler, Worker, Callback, Writer, saveFrame,
      configure, startNone, stopCameras, resetFrameCounts,
      handleTriggerCapture, armTrigger, checkCaptureFeasibility, allStarted,
      unwound, startCamera, queueRequestFails, stopCamera, flushBufferedFrames,
      stop, joinWorker, stopWriters, joinWriters, copyFrame, saveFrame_Ignored,
      saveFrame_Record, saveFrame_Trigger, reserve, push, ack,
      getDetectedFrame, workerExit, processDetection, pushDetection,
      publishDetection, takeTask, writeTask, writerExit

(* The detections a pending frame has waited for, and those that still may *)
(* go before it in the worker's round robin, are fewer than the cameras.   *)
THEOREM WaitingInvariant == Spec => [](TypeInv /\ Waiting)
<1>1. Init => Waiting BY DEF Init, Waiting
<1>2. QED BY <1>1, TypeInit, TypeStep, WaitingStep, PTL DEF Spec

(* A pending frame waits for at most one detection of each other camera,   *)
(* with any number of cameras.                                             *)
THEOREM DetectorFair == Spec => []NoStarvation
<1>1. TypeInv /\ Waiting => NoStarvation
  <2> SUFFICES ASSUME TypeInv, Waiting, NEW c \in Cameras,
                      pending_detection[c] # {}
               PROVE  bypassed[c] < NumCameras
    BY DEF NoStarvation
  <2>1. bypassed[c] + Cardinality(Between(c, last_detected)) < NumCameras
    BY DEF Waiting
  <2>2. bypassed[c] \in Nat /\ last_detected \in Cameras \cup {-1}
    BY DEF TypeInv, TypeOK, SlotOK
  <2>3. Cardinality(Between(c, last_detected)) \in Nat
    BY <2>2, BetweenOthers
  <2>4. QED BY <2>1, <2>2, <2>3, ProcessorAssumption
<1>2. QED BY <1>1, WaitingInvariant, PTL
=============================================================================
