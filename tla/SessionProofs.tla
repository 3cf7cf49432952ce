---------------------------- MODULE SessionProofs ----------------------------
(***************************************************************************)
(* Proofs about a recording session: what the backlog counts, what a stop  *)
(* leaves behind, and that the pipeline implements CaptureSession.         *)
(***************************************************************************)
EXTENDS TriggerProofs

(***************************************************************************)
(* Who is at work.                                                         *)
(***************************************************************************)
Open == phase \notin {"configured", "resetConfigured"}

(* The detection worker lives in a DETECT session, until it is joined, and *)
(* so do the frames it offers.                                             *)
WorkerLife ==
  ~Open \/ phase \in {"stopWriters", "joinWriters"} \/ config.mode # "DETECT" =>
    wk = Off /\ \A c \in Cameras : detected[c] = {}

(* The writers live in a session that has a pool.                          *)
WriterLife ==
  \A w \in Writers : wr[w] # Off => Open /\ poolStarted

LEMMA WorkerLifeStep ==
  ASSUME ~ModeWhileRunning, TypeInv, WorkerLife, [Next]_vars
  PROVE  WorkerLife'
<1> USE DEF WorkerLife, Open, ctlVars, queueVars, trigVars, detVars, slotVars,
            camVars, resetVars, threadVars, readVars, histVars, fileVars
<1>1. CASE configure BY <1>1 DEF configure
<1>2. CASE start
  BY <1>2 DEF start, isDetectorMode
<1>3. CASE startNone BY <1>3 DEF startNone
<1>4. CASE stopCameras BY <1>4 DEF stopCameras
<1>5. CASE resetFrameCounts BY <1>5 DEF resetFrameCounts
<1>6. CASE checkCaptureFeasibility BY <1>6 DEF checkCaptureFeasibility
<1>7. CASE allStarted BY <1>7 DEF allStarted
<1>8. CASE unwound BY <1>8 DEF unwound
<1>9. ASSUME NEW c \in Cameras, startCamera(c) PROVE WorkerLife'
  BY <1>9 DEF startCamera
<1>10. ASSUME NEW c \in Cameras, queueRequestFails(c) PROVE WorkerLife'
  BY <1>10 DEF queueRequestFails
<1>11. CASE flushBufferedFrames BY <1>11 DEF flushBufferedFrames
<1>12. CASE stop BY <1>12 DEF stop
<1>13. CASE joinWorker
  BY <1>13 DEF joinWorker, isDetectorMode
<1>14. CASE stopWriters BY <1>14 DEF stopWriters
<1>15. CASE joinWriters BY <1>15 DEF joinWriters
<1>16. CASE resetFramesSavedCounts BY <1>16 DEF resetFramesSavedCounts
<1>17. CASE takePending
  BY <1>17 DEF takePending, Off
<1>18. CASE workerExit BY <1>18 DEF workerExit
<1>19. CASE processDetection
  BY <1>19 DEF processDetection, Off
<1>20. CASE pushDetection
  BY <1>20 DEF pushDetection, Off
<1>21. CASE publishDetection
  BY <1>21 DEF publishDetection, Off
<1>22. CASE UNCHANGED <<phase, config, wk, detected>> BY <1>22
<1>23. QED
  BY <1>1, <1>2, <1>3, <1>4, <1>5, <1>6, <1>7, <1>8, <1>9, <1>10, <1>11, <1>12,
     <1>13, <1>14, <1>15, <1>16, <1>17, <1>18, <1>19, <1>20, <1>21, <1>22
  DEF Next, vars, Command, Handler, Worker, Callback, Writer, saveFrame,
      handleTriggerCapture, armTrigger, stopCamera, copyFrame,
      saveFrame_Ignored, saveFrame_Record, saveFrame_Trigger, saveFrame_Detect,
      reserve, push, ack, getDetectedFrame, takeTask, writeTask, writerExit

LEMMA WriterLifeStep ==
  ASSUME ~ModeWhileRunning, TypeInv, WriterLife, [Next]_vars
  PROVE  WriterLife'
<1> USE DEF WriterLife, Open, poolStarted, ctlVars, queueVars, trigVars,
            detVars, slotVars, camVars, resetVars, threadVars, readVars,
            histVars, fileVars
<1>1. CASE configure BY <1>1 DEF configure
<1>2. CASE start BY <1>2 DEF start
<1>3. CASE startNone
  BY <1>3 DEF startNone, usesWriterPool
<1>4. CASE stopCameras BY <1>4 DEF stopCameras
<1>5. CASE resetFrameCounts BY <1>5 DEF resetFrameCounts
<1>6. CASE checkCaptureFeasibility BY <1>6 DEF checkCaptureFeasibility
<1>7. CASE allStarted BY <1>7 DEF allStarted
<1>8. CASE unwound BY <1>8 DEF unwound
<1>9. ASSUME NEW c \in Cameras, startCamera(c) PROVE WriterLife'
  BY <1>9 DEF startCamera
<1>10. ASSUME NEW c \in Cameras, queueRequestFails(c) PROVE WriterLife'
  BY <1>10 DEF queueRequestFails
<1>11. CASE flushBufferedFrames BY <1>11 DEF flushBufferedFrames
<1>12. CASE stop BY <1>12 DEF stop
<1>13. CASE joinWorker BY <1>13 DEF joinWorker
<1>14. CASE stopWriters BY <1>14 DEF stopWriters
<1>15. CASE joinWriters BY <1>15 DEF joinWriters
<1>16. CASE resetFramesSavedCounts BY <1>16 DEF resetFramesSavedCounts
<1>17. ASSUME NEW w \in Writers, takeTask(w) PROVE WriterLife'
  BY <1>17 DEF takeTask, Off, TypeInv, TypeOK
<1>18. ASSUME NEW w \in Writers, writeTask(w) PROVE WriterLife'
  BY <1>18 DEF writeTask, Off, TypeInv, TypeOK
<1>19. ASSUME NEW w \in Writers, writerExit(w) PROVE WriterLife'
  BY <1>19 DEF writerExit, Off, TypeInv, TypeOK
<1>20. CASE UNCHANGED <<phase, config, wr>> BY <1>20
<1>21. QED
  BY <1>1, <1>2, <1>3, <1>4, <1>5, <1>6, <1>7, <1>8, <1>9, <1>10, <1>11, <1>12,
     <1>13, <1>14, <1>15, <1>16, <1>17, <1>18, <1>19, <1>20
  DEF Next, vars, Command, Handler, Worker, Callback, Writer, saveFrame,
      handleTriggerCapture, armTrigger, stopCamera, copyFrame,
      saveFrame_Ignored, saveFrame_Record, saveFrame_Trigger, saveFrame_Detect,
      reserve, push, ack, getDetectedFrame, takePending, workerExit,
      processDetection, pushDetection, publishDetection

(* n is behind what camera c has delivered, and behind the frame that is   *)
(* on its way to the backlog.                                              *)
Past(c, n) ==
  /\ n <= frame_counter[c]
  /\ cap[c].pc \in Upcoming => n < frame_counter[c]

(* Phases in which frames may come. *)
Taking == {"started", "starting", "running", "resetRunning", "stopping",
           "unwinding"}

(* While a BUFFER session can take frames, one that has refused a frame is *)
(* full.                                                                   *)
Full ==
  phase \in Taking /\ session = "BUFFER" /\ refused # {} => ~hasRoom

Filled == (\A f \in accepted : Past(f.cam, f.n)) /\ Full /\ KeepsPrefix

(* The steps that begin a session or let a frame in. *)
LEMMA AcceptActors ==
  ASSUME [Next]_vars
  PROVE  \/ UNCHANGED accepted \/ start \/ processDetection
         \/ \E c \in Cameras : reserve(c)
BY DEF Next, vars, Command, Handler, Worker, Callback, Writer, saveFrame,
       configure, startNone, stopCameras, resetFrameCounts,
       handleTriggerCapture, armTrigger, checkCaptureFeasibility, allStarted,
       unwound, startCamera, queueRequestFails, stopCamera,
       flushBufferedFrames, stop, joinWorker, stopWriters, joinWriters,
       resetFramesSavedCounts, copyFrame, saveFrame_Ignored, saveFrame_Record,
       saveFrame_Trigger, saveFrame_Detect, push, ack, getDetectedFrame,
       takePending, workerExit, pushDetection, publishDetection, takeTask,
       writeTask, writerExit, ctlVars, queueVars, trigVars, detVars, slotVars,
       camVars, resetVars, threadVars, readVars, histVars, fileVars

LEMMA PastStays ==
  ASSUME TypeInv, [Next]_vars, NEW c \in Cameras, NEW n \in Nat, Past(c, n)
  PROVE  Past(c, n)'
<1>1. Advances BY AdvancesStep
<1>2. frame_counter[c] \in Nat /\ frame_counter'[c] \in Nat
  <2>1. TypeInv' BY TypeStep
  <2>2. QED BY <2>1 DEF TypeInv, TypeOK
<1>3. QED BY <1>1, <1>2 DEF Advances, Past, Upcoming, Active

(* The frame in a callback's hands passes by, the one in the worker's has  *)
(* passed.                                                                 *)
LEMMA ReservedPast ==
  ASSUME TypeInv, NEW c \in Cameras, reserve(c)
  PROVE  /\ cap[c].f = {FrameOf(c)} /\ FrameOf(c) \in Frames
         /\ FrameOf(c).cam = c /\ FrameOf(c).n = frame_counter[c]
         /\ Past(c, frame_counter[c])'
<1>1. cap[c].pc = "reserve" /\ cap[c] \in CapStates
  BY DEF reserve, TypeInv, CapOK
<1>2. cap[c].f = {FrameOf(c)} /\ cap[c].f \subseteq Frames
  BY <1>1 DEF TypeInv, CapOK, CapStates, Active
<1>3. cap'[c].pc \notin Upcoming /\ UNCHANGED frame_counter
  BY <1>1, FinishType DEF reserve, TypeInv, CapOK, CapStates, Upcoming, camVars
<1>4. frame_counter[c] \in Nat BY DEF TypeInv, TypeOK
<1>5. QED BY <1>2, <1>3, <1>4 DEF Past, FrameOf

LEMMA DetectedPast ==
  ASSUME TypeInv, Order, NEW f \in wk.f
  PROVE  f \in Frames /\ f.cam \in Cameras /\ f.n \in Nat /\ Past(f.cam, f.n)
<1>1. f \in Frames /\ f.cam \in Cameras /\ f.n \in Nat BY Comparable
<1>2. Old(f.cam, f.n) BY <1>1 DEF Order
<1>3. QED BY <1>1, <1>2 DEF Old, Past, Active, Upcoming

(* The worker is at work in DETECT sessions only. *)
LEMMA DetectSession ==
  ASSUME InForce, WorkerLife, wk.pc # "off"
  PROVE  Open /\ config.mode = "DETECT" /\ session = "DETECT"
BY DEF InForce, WorkerLife, Off, Open

LEMMA AcceptedPast ==
  ASSUME TypeInv, Order, [Next]_vars,
         \A f \in accepted : Past(f.cam, f.n)
  PROVE  (\A f \in accepted : Past(f.cam, f.n))'
<1>1. \A f \in accepted : Past(f.cam, f.n)'
  <2>1. \A f \in accepted : f.cam \in Cameras /\ f.n \in Nat
    BY ProcessorAssumption DEF TypeInv, TypeOK, Frames
  <2>2. QED BY <2>1, PastStays
<1>2. CASE start BY <1>2 DEF start
<1>3. ASSUME NEW c \in Cameras, reserve(c)
      PROVE  \A f \in accepted' : Past(f.cam, f.n)'
  <2>1. accepted' \subseteq accepted \cup {FrameOf(c)}
    BY <1>3, ReservedPast DEF reserve, reserveBacklog
  <2>2. Past(c, frame_counter[c])' /\ frame_counter' = frame_counter
    BY <1>3, ReservedPast DEF reserve, camVars
  <2>3. ASSUME NEW f, f = FrameOf(c) PROVE Past(f.cam, f.n)'
    <3>1. f.cam = c /\ f.n = frame_counter[c] BY <1>3, <2>3, ReservedPast
    <3>2. QED BY <2>2, <3>1 DEF Past
  <2>4. QED BY <1>1, <2>1, <2>3
<1>4. CASE processDetection
  <2>1. accepted' \subseteq accepted \cup wk.f
    BY <1>4 DEF processDetection, reserveBacklog, histVars
  <2>2. \A f \in wk.f : Past(f.cam, f.n)' BY DetectedPast, PastStays
  <2>3. QED BY <1>1, <2>1, <2>2
<1>5. CASE UNCHANGED accepted BY <1>1, <1>5
<1>6. QED BY <1>2, <1>3, <1>4, <1>5, AcceptActors

LEMMA FullStep ==
  ASSUME TypeInv, CallbacksOn, InForce, WorkerLife, WriterLife, Filled,
         [Next]_vars
  PROVE  Full'
<1> USE DEF Full, Filled, hasRoom, Taking, ctlVars, queueVars, trigVars,
            detVars, slotVars, camVars, resetVars, threadVars, readVars,
            histVars, fileVars
<1>1. CASE start
  BY <1>1 DEF start
<1>2. CASE startNone
  BY <1>2 DEF startNone
<1>3. CASE stopCameras BY <1>3 DEF stopCameras
<1>4. CASE resetFrameCounts BY <1>4 DEF resetFrameCounts
<1>5. CASE checkCaptureFeasibility BY <1>5 DEF checkCaptureFeasibility
<1>6. CASE allStarted BY <1>6 DEF allStarted
<1>7. CASE unwound BY <1>7 DEF unwound
<1>8. ASSUME NEW c \in Cameras, startCamera(c) PROVE Full'
  BY <1>8 DEF startCamera
<1>9. ASSUME NEW c \in Cameras, queueRequestFails(c) PROVE Full'
  BY <1>9 DEF queueRequestFails
<1>10. CASE flushBufferedFrames BY <1>10 DEF flushBufferedFrames
<1>11. CASE stop BY <1>11 DEF stop
<1>12. CASE joinWorker BY <1>12 DEF joinWorker
<1>13. CASE stopWriters BY <1>13 DEF stopWriters
<1>14. CASE joinWriters BY <1>14 DEF joinWriters
<1>15. CASE resetFramesSavedCounts BY <1>15 DEF resetFramesSavedCounts
<1>16. ASSUME NEW c \in Cameras, reserve(c) PROVE Full'
  <2>1. UNCHANGED <<phase, session>> BY <1>16 DEF reserve, reserveBacklog
  <2>2. phase \in Taking
    BY <1>16 DEF CallbacksOn, reserve, Idle, Taking
  <2>3. CASE hasRoom
    <3>1. refused' = refused BY <1>16, <2>3 DEF reserve, reserveBacklog
    <3>2. QED BY <2>1, <2>2, <2>3, <3>1 DEF Full
  <2>4. CASE ~hasRoom
    <3>1. backlog' = backlog BY <1>16, <2>4 DEF reserve, reserveBacklog
    <3>2. QED BY <2>4, <3>1 DEF Full, hasRoom
  <2>5. QED BY <2>3, <2>4
<1>17. CASE processDetection
  <2>1. UNCHANGED session
    BY <1>17 DEF processDetection, reserveBacklog
  <2>2. session = "DETECT" BY <1>17, DetectSession DEF processDetection
  <2>3. QED BY <2>1, <2>2 DEF Full
<1>18. ASSUME NEW w \in Writers, writeTask(w) PROVE Full'
  <2>1. Open /\ poolStarted BY <1>18 DEF WriterLife, writeTask, Off
  <2>2. session # "BUFFER"
    BY <2>1 DEF InForce, Open, poolStarted, usesWriterPool
  <2>3. QED BY <1>18, <2>2 DEF Full, writeTask
<1>19. CASE UNCHANGED <<phase, session, refused, backlog>> BY <1>19
<1>20. QED
  BY <1>1, <1>2, <1>3, <1>4, <1>5, <1>6, <1>7, <1>8, <1>9, <1>10, <1>11, <1>12,
     <1>13, <1>14, <1>15, <1>16, <1>17, <1>18, <1>19
  DEF Next, vars, Command, Handler, Worker, Callback, Writer, saveFrame,
      configure, handleTriggerCapture, armTrigger, stopCamera, copyFrame,
      saveFrame_Ignored, saveFrame_Record, saveFrame_Trigger, saveFrame_Detect,
      push, ack, getDetectedFrame, takePending, workerExit, pushDetection,
      publishDetection, takeTask, writerExit

(* The steps that change what a session has taken. *)
LEMMA HistActors ==
  ASSUME [Next]_vars
  PROVE  \/ UNCHANGED histVars \/ start \/ startNone \/ processDetection
         \/ \E c \in Cameras : reserve(c)
BY ZenonT(60)
DEF Next, vars, Command, Handler, Worker, Callback, Writer, saveFrame,
       configure, stopCameras, resetFrameCounts, handleTriggerCapture,
       armTrigger, checkCaptureFeasibility, allStarted, unwound, startCamera,
       queueRequestFails, stopCamera, flushBufferedFrames, stop, joinWorker,
       stopWriters, joinWriters, resetFramesSavedCounts, copyFrame,
       saveFrame_Ignored, saveFrame_Record, saveFrame_Trigger,
       saveFrame_Detect, push, ack, getDetectedFrame, takePending, workerExit,
       pushDetection, publishDetection, takeTask, writeTask, writerExit,
       ctlVars, queueVars, trigVars, detVars, slotVars, camVars, resetVars,
       threadVars, readVars, histVars, fileVars

LEMMA PrefixStep ==
  ASSUME TypeInv, CallbacksOn, InForce, WorkerLife, Filled, [Next]_vars
  PROVE  KeepsPrefix'
<1>1. CASE start BY <1>1 DEF start, KeepsPrefix
<1>2. CASE startNone BY <1>2 DEF startNone, KeepsPrefix
<1>3. ASSUME NEW c \in Cameras, reserve(c), session = "BUFFER"
      PROVE  KeepsPrefix'
  <2>1. phase \in Taking BY <1>3 DEF CallbacksOn, reserve, Idle, Taking
  <2>2. CASE hasRoom
    <3>1. refused = {} BY <1>3, <2>1, <2>2 DEF Filled, Full
    <3>2. refused' = refused BY <1>3, <2>2 DEF reserve, reserveBacklog
    <3>3. QED BY <3>1, <3>2 DEF KeepsPrefix
  <2>3. CASE ~hasRoom
    <3>1. accepted' = accepted /\ refused' = refused \cup {FrameOf(c)}
      BY <1>3, <2>3, ReservedPast DEF reserve, reserveBacklog
    <3>2. \A f \in accepted : f.cam = c => f.n < frame_counter[c]
      BY <1>3 DEF Filled, Past, Upcoming, reserve
    <3>3. FrameOf(c).cam = c /\ FrameOf(c).n = frame_counter[c]
      BY <1>3, ReservedPast
    <3>4. QED BY <1>3, <3>1, <3>2, <3>3 DEF Filled, KeepsPrefix
  <2>4. QED BY <2>2, <2>3
<1>4. ASSUME NEW c \in Cameras, reserve(c), session # "BUFFER"
      PROVE  KeepsPrefix'
  BY <1>4 DEF KeepsPrefix, reserve, reserveBacklog
<1>5. CASE processDetection
  <2>1. session = "DETECT" BY <1>5, DetectSession DEF processDetection
  <2>2. session' = session
    BY <1>5 DEF processDetection, reserveBacklog, histVars
  <2>3. QED BY <2>1, <2>2 DEF KeepsPrefix
<1>6. CASE UNCHANGED histVars BY <1>6 DEF histVars, Filled, KeepsPrefix
<1>7. QED BY <1>1, <1>2, <1>3, <1>4, <1>5, <1>6, HistActors

LEMMA FilledInit == Init => WorkerLife /\ WriterLife /\ Filled
<1> SUFFICES ASSUME Init PROVE WorkerLife /\ WriterLife /\ Filled
  OBVIOUS
<1>1. WorkerLife /\ WriterLife BY DEF Init, WorkerLife, WriterLife
<1>2. Filled BY DEF Init, Filled, Full, KeepsPrefix
<1>3. QED BY <1>1, <1>2

(* The invariant so far.                                                   *)
Base ==
  TypeInv /\ Order /\ CallbacksOn /\ ArmedWhileOpen /\ InForce /\ WorkerLife
  /\ WriterLife /\ Filled

LEMMA BaseInit == Init => Base
BY TypeInit, OrderInit, TriggerInit, WantedInit, FilledInit DEF Base

LEMMA BaseStep == ASSUME ~ModeWhileRunning, Base, [Next]_vars PROVE Base'
<1>1. TypeInv' /\ Order' BY TypeStep, OrderStep DEF Base
<1>2. CallbacksOn' /\ ArmedWhileOpen' BY CallbacksOnStep, ArmedStep DEF Base
<1>3. InForce' BY InForceStep DEF Base
<1>4. WorkerLife' /\ WriterLife' BY WorkerLifeStep, WriterLifeStep DEF Base
<1>5. Full' /\ KeepsPrefix' BY FullStep, PrefixStep DEF Base
<1>6. (\A f \in accepted : Past(f.cam, f.n))'
  BY AcceptedPast DEF Base, Filled
<1>7. Filled' BY <1>5, <1>6 DEF Filled
<1>8. QED BY <1>1, <1>2, <1>3, <1>4, <1>7 DEF Base

(* A session keeps the mode it was started in, its threads live as long as *)
(* it does, and what it accepts is in order.                               *)
THEOREM BaseInvariant == ASSUME ~ModeWhileRunning PROVE Spec => []Base
BY BaseInit, BaseStep, PTL DEF Spec

(* Once the cameras have stopped no processed frame is left for a streamer *)
(* that subscribes later, however the session ended.                       *)
THEOREM SlotsEmptied ==
  ASSUME ~ModeWhileRunning
  PROVE  Spec => []NoStaleDetection
<1>1. Base => NoStaleDetection
  BY DEF Base, WorkerLife, NoStaleDetection, Open
<1>2. QED BY <1>1, BaseInvariant, PTL

(* What BUFFER mode records of a camera is a prefix of what it delivered,  *)
(* for any budget, and also when a later camera fails to start.            *)
THEOREM BufferKeepsPrefix ==
  ASSUME ~ModeWhileRunning
  PROVE  Spec => []KeepsPrefix
<1>1. Base => KeepsPrefix BY DEF Base, Filled
<1>2. QED BY <1>1, BaseInvariant, PTL

(***************************************************************************)
(* Where the frames are.                                                   *)
(***************************************************************************)

(* Frames on their way to the backlog: in which mode, and to which queue.  *)
Routes ==
  /\ \A c \in Cameras : cap[c].pc \in {"reserve", "push"} =>
       /\ config.save_frames
       /\ IF cap[c].to = "BUFFER" THEN config.mode = "BUFFER"
                                  ELSE config.mode \in {"BATCH", "TRIGGER"}
  /\ wk.pc = "push" => config.save_frames
  /\ Open /\ config.mode \in {"BUFFER", "BATCH", "TRIGGER"} =>
       \A c \in Cameras : pending_detection[c] = {}

(* The queues are empty when nobody is left to empty them.                 *)
Drained ==
  /\ config.mode \in Modes \cup {"NONE"}
  /\ phase = "unwinding" => StartMayFail
  /\ Open /\ poolStarted /\ phase # "joinWriters" =>
       ~stop_threads /\ \A w \in Writers : wr[w] # Off
  /\ phase = "joinWriters" /\ poolStarted /\ (\E w \in Writers : wr[w] = Off) =>
       write_queue = <<>>
  /\ write_queue # <<>> => Open /\ poolStarted
  /\ pending_batch # <<>> => Open /\ poolStarted /\ phase # "joinWriters"
  /\ buffered_frames # <<>> =>
       /\ phase \in {"starting", "running", "resetRunning", "stopping"}
       /\ config.mode = "BUFFER" /\ config.save_frames

LEMMA RoutesStep ==
  ASSUME ~ModeWhileRunning, TypeInv, CallbacksOn, InForce, WorkerLife, Routes,
         [Next]_vars
  PROVE  Routes'
<1> USE DEF Routes, TypeInv, TypeOK, CapOK, ctlVars, queueVars, trigVars,
            detVars, slotVars, camVars, resetVars, threadVars, readVars,
            histVars, fileVars
<1>1. CASE configure
  <2>1. phase = "configured" BY <1>1 DEF configure
  <2>2. \A c \in Cameras : cap[c].pc = "idle"
    BY <2>1, IdleType DEF CallbacksOn
  <2>3. wk.pc = "off" BY <2>1 DEF WorkerLife, Open, Off
  <2>4. QED BY <1>1, <2>1, <2>2, <2>3 DEF configure, Open
<1>2. CASE start
  <2>1. \A c \in Cameras : cap[c].pc = "idle"
    BY <1>2, IdleType DEF CallbacksOn, start
  <2>2. wk'.pc # "push" BY <1>2 DEF WorkerLife, Open, Off, start
  <2>3. QED BY <1>2, <2>1, <2>2 DEF start
<1>3. CASE startNone
  BY <1>3 DEF startNone
<1>4. CASE stopCameras
  BY <1>4 DEF stopCameras, Open
<1>5. CASE resetFrameCounts
  BY <1>5 DEF resetFrameCounts, Open
<1>6. CASE checkCaptureFeasibility
  BY <1>6 DEF checkCaptureFeasibility, Open
<1>7. CASE allStarted
  BY <1>7 DEF allStarted, Open
<1>8. CASE unwound
  BY <1>8 DEF unwound, Open
<1>9. ASSUME NEW c \in Cameras, startCamera(c) PROVE Routes'
  BY <1>9 DEF startCamera, Open
<1>10. ASSUME NEW c \in Cameras, queueRequestFails(c) PROVE Routes'
  BY <1>10 DEF queueRequestFails, Open
<1>11. CASE flushBufferedFrames
  BY <1>11 DEF flushBufferedFrames, Open
<1>12. CASE stop
  BY <1>12 DEF stop, Open
<1>13. CASE joinWorker
  BY <1>13 DEF joinWorker, Open
<1>14. CASE stopWriters
  BY <1>14 DEF stopWriters, Open
<1>15. CASE joinWriters
  BY <1>15 DEF joinWriters, Open
<1>16. CASE resetFramesSavedCounts
  BY <1>16 DEF resetFramesSavedCounts, Open
<1>17. ASSUME NEW c \in Cameras, copyFrame(c) PROVE Routes'
  <2>1. UNCHANGED <<config, phase, pending_detection, wk>>
    BY <1>17 DEF copyFrame
  <2>2. \A d \in Cameras : d # c => cap'[d] = cap[d] BY <1>17 DEF copyFrame
  <2>3. cap'[c].pc = "copied" BY <1>17 DEF copyFrame, Idle
  <2>4. QED BY <2>1, <2>2, <2>3 DEF Open
<1>18. ASSUME NEW c \in Cameras, saveFrame_Ignored(c) PROVE Routes'
  <2>1. UNCHANGED <<config, phase, pending_detection, wk>>
    BY <1>18 DEF saveFrame_Ignored
  <2>2. \A d \in Cameras : d # c => cap'[d] = cap[d]
    BY <1>18 DEF saveFrame_Ignored
  <2>3. cap'[c].pc \notin {"reserve", "push"}
    BY <1>18, FinishType, IdleType DEF saveFrame_Ignored
  <2>4. QED BY <2>1, <2>2, <2>3 DEF Open
<1>19. ASSUME NEW c \in Cameras, saveFrame_Record(c) PROVE Routes'
  <2>1. UNCHANGED <<config, phase, pending_detection, wk>>
    BY <1>19 DEF saveFrame_Record
  <2>2. \A d \in Cameras : d # c => cap'[d] = cap[d]
    BY <1>19 DEF saveFrame_Record
  <2>3. /\ cap'[c].to = config.mode /\ config.save_frames
        /\ config.mode \in {"BUFFER", "BATCH"}
    BY <1>19 DEF saveFrame_Record, recording, CapStates
  <2>4. QED BY <2>1, <2>2, <2>3 DEF Open
<1>20. ASSUME NEW c \in Cameras, saveFrame_Trigger(c) PROVE Routes'
  <2>1. UNCHANGED <<config, phase, pending_detection, wk>>
    BY <1>20 DEF saveFrame_Trigger
  <2>2. \A d \in Cameras : d # c => cap'[d] = cap[d] BY <1>20, TriggerMoves
  <2>3. cap'[c].pc \in {"reserve", "push"} =>
          cap'[c].to = "QUEUE" /\ config.save_frames
    <3>1. CASE cap' = [cap EXCEPT ![c] = Idle] BY <3>1, IdleType
    <3>2. ASSUME NEW t \in pending_trigger, NEW f \in Frames, capture(t, c, f)
          PROVE  cap'[c].pc \in {"reserve", "push"} =>
                   cap'[c].to = "QUEUE" /\ config.save_frames
      <4>1. cap' = [cap EXCEPT ![c] = IF config.save_frames THEN Task(t, c, f)
                                      ELSE Finish(Task(t, c, f))]
        BY <3>2, CaptureIs DEF TrigOK
      <4>2. Taken(t, c, f) \in Triggers BY TakenType DEF TrigOK
      <4>3. Result(Taken(t, c, f), FALSE) \in Results BY <4>2, ResultType
      <4>4. Task(t, c, f) \in CapStates /\ Task(t, c, f).to = "QUEUE"
        BY <4>3 DEF Task, CapStates
      <4>5. cap'[c] = IF config.save_frames THEN Task(t, c, f)
                      ELSE Finish(Task(t, c, f))
        BY <4>1
      <4>6. QED BY <4>4, <4>5, FinishType
    <3>3. QED BY <1>20, <3>1, <3>2 DEF saveFrame_Trigger, handleTriggerFrame
  <2>4. QED BY <1>20, <2>1, <2>2, <2>3 DEF Open, saveFrame_Trigger
<1>21. ASSUME NEW c \in Cameras, saveFrame_Detect(c) PROVE Routes'
  <2>1. UNCHANGED <<config, phase, wk>> BY <1>21 DEF saveFrame_Detect
  <2>2. \A d \in Cameras : d # c => cap'[d] = cap[d]
    BY <1>21 DEF saveFrame_Detect
  <2>3. cap'[c].pc \notin {"reserve", "push"}
    BY <1>21, IdleType DEF saveFrame_Detect
  <2>4. QED BY <1>21, <2>1, <2>2, <2>3 DEF saveFrame_Detect
<1>22. ASSUME NEW c \in Cameras, reserve(c) PROVE Routes'
  <2>1. UNCHANGED <<config, phase, pending_detection, wk>> BY <1>22 DEF reserve
  <2>2. \A d \in Cameras : d # c => cap'[d] = cap[d] BY <1>22 DEF reserve
  <2>3. cap[c].pc = "reserve" /\ cap[c] \in CapStates BY <1>22 DEF reserve
  <2>4. cap'[c].pc \in {"reserve", "push"} => cap'[c].to = cap[c].to
    BY <1>22, <2>3, FinishType DEF reserve, CapStates
  <2>5. QED BY <2>1, <2>2, <2>3, <2>4, ZenonT(60) DEF Open
<1>23. ASSUME NEW c \in Cameras, push(c) PROVE Routes'
  <2>1. UNCHANGED <<config, phase, pending_detection, wk>> BY <1>23 DEF push
  <2>2. \A d \in Cameras : d # c => cap'[d] = cap[d] BY <1>23 DEF push
  <2>3. cap'[c].pc \notin {"reserve", "push"}
    BY <1>23, FinishType, IdleType DEF push
  <2>4. QED BY <2>1, <2>2, <2>3 DEF Open
<1>24. ASSUME NEW c \in Cameras, ack(c) PROVE Routes'
  <2>1. UNCHANGED <<config, phase, pending_detection, wk>> BY <1>24 DEF ack
  <2>2. \A d \in Cameras : d # c => cap'[d] = cap[d] BY <1>24 DEF ack
  <2>3. cap'[c].pc \notin {"reserve", "push"}
    BY <1>24, FinishType, IdleType DEF ack
  <2>4. QED BY <2>1, <2>2, <2>3 DEF Open
<1>25. CASE takePending
  <2>1. \A c \in Cameras : pending_detection'[c] \subseteq pending_detection[c]
    BY <1>25, NextCameraPending DEF takePending
  <2>2. UNCHANGED <<config, phase, cap>> /\ wk'.pc # "push"
    BY <1>25 DEF takePending
  <2>3. QED BY <2>1, <2>2 DEF Open
<1>26. CASE workerExit
  BY <1>26 DEF workerExit, Off, Open
<1>27. CASE processDetection
  <2>1. wk'.pc = "push" => config.save_frames
    BY <1>27 DEF processDetection, Hands
  <2>2. QED BY <1>27, <2>1 DEF processDetection, Open
<1>28. CASE pushDetection
  BY <1>28 DEF pushDetection, Hands, Open
<1>29. CASE publishDetection
  BY <1>29 DEF publishDetection, Hands, Open
<1>30. CASE UNCHANGED <<phase, config, cap, wk, pending_detection>>
  BY <1>30 DEF Open
<1>31. QED
  BY <1>1, <1>2, <1>3, <1>4, <1>5, <1>6, <1>7, <1>8, <1>9, <1>10, <1>11, <1>12,
     <1>13, <1>14, <1>15, <1>16, <1>17, <1>18, <1>19, <1>20, <1>21, <1>22,
     <1>23, <1>24, <1>25, <1>26, <1>27, <1>28, <1>29, <1>30
  DEF Next, vars, Command, Handler, Worker, Callback, Writer, saveFrame,
      handleTriggerCapture, armTrigger, stopCamera, getDetectedFrame, takeTask,
      writeTask, writerExit

LEMMA DrainedStep ==
  ASSUME Writers # {}, ~ModeWhileRunning,
         StartMayFail => "BUFFER" \notin Modes,
         TypeInv, CallbacksOn, InForce, WorkerLife, WriterLife, Routes,
         Drained, [Next]_vars
  PROVE  Drained'
<1> USE ProcessorAssumption
<1> USE DEF Drained, Open, ctlVars, queueVars, trigVars, detVars, slotVars,
            camVars, resetVars, threadVars, readVars, histVars, fileVars
<1>1. CASE configure
  BY <1>1 DEF configure, WriterLife, poolStarted
<1>2. CASE start
  <2>1. write_queue = <<>> /\ pending_batch = <<>> /\ buffered_frames = <<>>
    BY <1>2 DEF start
  <2>2. /\ write_queue' = <<>> /\ pending_batch' = <<>>
        /\ buffered_frames' = <<>>
    BY <1>2, <2>1 DEF start
  <2>3. \A w \in Writers : wr[w] = Off BY <1>2 DEF start, WriterLife
  <2>4. poolStarted => \A w \in Writers : wr'[w] # Off
    BY <1>2, <2>3 DEF start, Off
  <2>5. phase' = "started" /\ ~stop_threads' /\ UNCHANGED config
    BY <1>2 DEF start
  <2>6. QED BY <2>2, <2>4, <2>5 DEF poolStarted
<1>3. CASE startNone
  BY <1>3 DEF startNone, poolStarted, usesWriterPool
<1>4. CASE stopCameras
  BY <1>4 DEF stopCameras, poolStarted
<1>5. CASE resetFrameCounts
  BY <1>5 DEF resetFrameCounts, poolStarted
<1>6. CASE checkCaptureFeasibility
  BY <1>6 DEF checkCaptureFeasibility, poolStarted
<1>7. CASE allStarted
  BY <1>7 DEF allStarted, poolStarted
<1>8. CASE unwound
  BY <1>8 DEF unwound, poolStarted
<1>9. ASSUME NEW c \in Cameras, startCamera(c) PROVE Drained'
  BY <1>9 DEF startCamera, poolStarted
<1>10. ASSUME NEW c \in Cameras, queueRequestFails(c) PROVE Drained'
  BY <1>10 DEF queueRequestFails, poolStarted
<1>11. CASE flushBufferedFrames
  BY <1>11 DEF flushBufferedFrames, poolStarted
<1>12. CASE stop
  BY <1>12 DEF stop, poolStarted
<1>13. CASE joinWorker
  BY <1>13 DEF joinWorker, poolStarted
<1>14. CASE stopWriters
  <2>1. /\ phase = "stopWriters" /\ phase' = "joinWriters"
        /\ UNCHANGED <<config, wr, buffered_frames>>
    BY <1>14 DEF stopWriters
  <2>2. CASE poolStarted
    BY <1>14, <2>1, <2>2 DEF stopWriters, poolStarted
  <2>3. CASE ~poolStarted BY <1>14, <2>1, <2>3 DEF stopWriters, poolStarted
  <2>4. QED BY <2>2, <2>3
<1>15. CASE joinWriters
  <2>1. write_queue = <<>> BY <1>15 DEF joinWriters
  <2>2. QED BY <1>15, <2>1 DEF joinWriters
<1>16. CASE resetFramesSavedCounts
  BY <1>16 DEF resetFramesSavedCounts, poolStarted
<1>17. ASSUME NEW c \in Cameras, push(c) PROVE Drained'
  <2>1. phase \in {"starting", "running", "stopping", "unwinding",
                   "resetRunning"}
    BY <1>17 DEF push, CallbacksOn, Idle
  <2>2. UNCHANGED <<config, phase, stop_threads, wr>> BY <1>17 DEF push
  <2>3. CASE cap[c].to = "BUFFER"
    <3>1. UNCHANGED <<write_queue, pending_batch>> BY <1>17, <2>3 DEF push
    <3>2. config.mode = "BUFFER" /\ config.save_frames
      BY <1>17, <2>3 DEF push, Routes
    <3>3. phase # "unwinding" BY <3>2
    <3>4. QED BY <2>1, <2>2, <3>1, <3>2, <3>3 DEF poolStarted
  <2>4. CASE cap[c].to # "BUFFER"
    <3>1. UNCHANGED buffered_frames BY <1>17, <2>4 DEF push
    <3>2. poolStarted
      BY <1>17, <2>4 DEF push, Routes, poolStarted, usesWriterPool
    <3>3. QED BY <2>1, <2>2, <3>1, <3>2 DEF poolStarted
  <2>5. QED BY <2>3, <2>4
<1>18. CASE pushDetection
  <2>1. wk # Off /\ config.save_frames BY <1>18 DEF pushDetection, Off, Routes
  <2>2. phase # "joinWriters" /\ poolStarted
    BY <2>1 DEF WorkerLife, poolStarted, usesWriterPool
  <2>3. QED BY <1>18, <2>1, <2>2 DEF pushDetection, WorkerLife, poolStarted
<1>19. ASSUME NEW w \in Writers, takeTask(w) PROVE Drained'
  <2>1. wr[w] # Off /\ write_queue # <<>> BY <1>19 DEF takeTask, Off
  <2>2. /\ UNCHANGED <<config, phase, stop_threads, pending_batch,
                       buffered_frames>>
        /\ \A v \in Writers : wr'[v] = Off => wr[v] = Off
    BY <1>19 DEF takeTask, Off, TypeInv, TypeOK
  <2>3. QED BY <2>1, <2>2 DEF poolStarted
<1>20. ASSUME NEW w \in Writers, writeTask(w) PROVE Drained'
  <2>1. /\ UNCHANGED <<config, phase, stop_threads, pending_batch, write_queue,
                       buffered_frames>>
        /\ \A v \in Writers : wr'[v] = Off => wr[v] = Off
    BY <1>20 DEF writeTask, Off, TypeInv, TypeOK
  <2>2. QED BY <2>1 DEF poolStarted
<1>21. ASSUME NEW w \in Writers, writerExit(w) PROVE Drained'
  <2>1. wr[w] # Off /\ stop_threads /\ write_queue = <<>>
    BY <1>21 DEF writerExit, Off
  <2>2. UNCHANGED <<config, phase, stop_threads, pending_batch, write_queue,
                    buffered_frames>>
    BY <1>21 DEF writerExit
  <2>3. phase = "joinWriters" BY <2>1 DEF WriterLife
  <2>4. QED BY <2>1, <2>2, <2>3 DEF poolStarted
<1>22. CASE UNCHANGED <<phase, config, stop_threads, wr, write_queue, pending_batch,
                     buffered_frames>>
  BY <1>22 DEF poolStarted
<1>23. QED
  BY <1>1, <1>2, <1>3, <1>4, <1>5, <1>6, <1>7, <1>8, <1>9, <1>10, <1>11, <1>12,
     <1>13, <1>14, <1>15, <1>16, <1>17, <1>18, <1>19, <1>20, <1>21, <1>22
  DEF Next, vars, Command, Handler, Worker, Callback, Writer, saveFrame,
      handleTriggerCapture, armTrigger, stopCamera, copyFrame,
      saveFrame_Ignored, saveFrame_Record, saveFrame_Trigger, saveFrame_Detect,
      reserve, ack, getDetectedFrame, takePending, workerExit,
      processDetection, publishDetection

LEMMA DrainedInit == Init => Routes /\ Drained
<1> SUFFICES ASSUME Init PROVE Routes /\ Drained
  OBVIOUS
<1>1. Routes BY DEF Init, Routes, Open, Idle, Off
<1>2. Drained BY DEF Init, Drained, Open
<1>3. QED BY <1>1, <1>2

(* What stop leaves behind. *)
Recording == Base /\ Routes /\ Drained

LEMMA RecordingStep ==
  ASSUME Writers # {}, ~ModeWhileRunning,
         StartMayFail => "BUFFER" \notin Modes,
         Recording, [Next]_vars
  PROVE  Recording'
<1>1. Base' BY BaseStep DEF Recording
<1>2. Routes' BY RoutesStep DEF Recording, Base
<1>3. Drained' BY DrainedStep DEF Recording, Base
<1>4. QED BY <1>1, <1>2, <1>3 DEF Recording

(* With no session open nothing is held and no thread is left.             *)
LEMMA Flushed ==
  ASSUME Recording, ~Open
  PROVE  Held = {} /\ wk = Off /\ \A w \in Writers : wr[w] = Off
<1>1. wk = Off /\ \A w \in Writers : wr[w] = Off
  BY DEF Recording, Base, WorkerLife, WriterLife
<1>2. \A c \in Cameras : cap[c].pc # "push"
  BY DEF Recording, Base, CallbacksOn, Open, Idle
<1>3. buffered_frames = <<>> /\ pending_batch = <<>> /\ write_queue = <<>>
  BY DEF Recording, Drained, Open
<1>4. Elems(<<>>) = {} BY DEF Elems
<1>5. (UNION {wr[w].f : w \in Writers}) = {} BY <1>1 DEF Off
<1>6. (UNION {cap[c].f : c \in {d \in Cameras : cap[d].pc = "push"}}) = {}
  BY <1>2
<1>7. (IF wk.pc = "push" THEN wk.f ELSE {}) = {} BY <1>1 DEF Off
<1>8. Held = {} BY <1>3, <1>4, <1>5, <1>6, <1>7 DEF Held
<1>9. QED BY <1>1, <1>8

(* When stop_cameras or a failed start returns, every accepted frame has   *)
(* been written or its write has failed, and every thread has ended, for   *)
(* any number of cameras, writers and frames and any batch size.  There is *)
(* a writer, the mode is not changed while the cameras run, and a start    *)
(* that fails is not one in BUFFER mode, whose frames nobody flushes.      *)
THEOREM StopFlushes ==
  ASSUME Writers # {}, ~ModeWhileRunning,
         StartMayFail => "BUFFER" \notin Modes
  PROVE  Spec => []StoppedMeansFlushed
<1>1. Init => Recording
  BY BaseInit, DrainedInit DEF Recording
<1>2. Recording /\ [Next]_vars => Recording' BY RecordingStep
<1>3. Recording => StoppedMeansFlushed BY Flushed DEF StoppedMeansFlushed, Open
<1>4. QED BY <1>1, <1>2, <1>3, PTL DEF Spec
=============================================================================
