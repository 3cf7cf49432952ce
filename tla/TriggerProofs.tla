---------------------------- MODULE TriggerProofs ----------------------------
(***************************************************************************)
(* Proofs about trigger_capture: every trigger is answered, once, whatever *)
(* callbacks, stop and commands do at the same time.                       *)
(***************************************************************************)
EXTENDS FrameProcessorProofs

(* Callbacks run only while their camera is on, and cameras are on only    *)
(* while a handler has them started.                                       *)
CallbacksOn ==
  \A c \in Cameras :
    /\ cap[c] # Idle => camOn[c]
    /\ camOn[c] => phase \in {"starting", "running", "stopping",
                              "unwinding", "resetRunning"}

(* A trigger is armed in RUNNING and gone once stop has resolved it.       *)
ArmedWhileOpen ==
  pending_trigger # {} =>
    phase \in {"running", "resetRunning", "stopping", "cancel"}

(* Every identifier given out is in one place: pending, with the callback  *)
(* that took the last frame, or answered.                                  *)
Ids ==
  /\ \A i, j \in DOMAIN acks : acks[i].id = acks[j].id => i = j
  /\ Answered \subseteq 1 .. next_trigger_id - 1
  /\ \A t, u \in pending_trigger : t = u
  /\ \A t \in pending_trigger :
       t.id \in 1 .. next_trigger_id - 1 /\ t.id \notin Answered
  /\ \A c \in Cameras : \A r \in cap[c].done :
       /\ r.id \in 1 .. next_trigger_id - 1 /\ r.id \notin Answered
       /\ \A t \in pending_trigger : t.id # r.id
       /\ \A d \in Cameras : \A s \in cap[d].done :
            s.id = r.id => d = c /\ s = r
  /\ \A c \in Cameras : \A r, s \in cap[c].done : r = s
  /\ \A k \in 1 .. next_trigger_id - 1 :
       \/ k \in Answered
       \/ \E t \in pending_trigger : t.id = k
       \/ \E c \in Cameras : \E r \in cap[c].done : r.id = k

LEMMA CallbacksOnStep ==
  ASSUME TypeInv, CallbacksOn, [Next]_vars
  PROVE  CallbacksOn'
<1> USE ProcessorAssumption
<1> USE DEF CallbacksOn, TypeInv, TypeOK, CapOK, ctlVars, queueVars, trigVars,
            detVars, slotVars, camVars, resetVars, threadVars, readVars,
            histVars, fileVars
<1>1. CASE start BY <1>1 DEF start
<1>2. CASE startNone BY <1>2 DEF startNone
<1>3. CASE stopCameras BY <1>3 DEF stopCameras
<1>4. CASE resetFrameCounts BY <1>4 DEF resetFrameCounts
<1>5. CASE checkCaptureFeasibility BY <1>5 DEF checkCaptureFeasibility
<1>6. CASE allStarted BY <1>6 DEF allStarted
<1>7. CASE unwound BY <1>7 DEF unwound
<1>8. ASSUME NEW c \in Cameras, startCamera(c) PROVE CallbacksOn'
  BY <1>8 DEF startCamera
<1>9. ASSUME NEW c \in Cameras, queueRequestFails(c) PROVE CallbacksOn'
  BY <1>9 DEF queueRequestFails
<1>10. ASSUME NEW c \in Cameras, stopCamera(c) PROVE CallbacksOn'
  BY <1>10 DEF stopCamera
<1>11. CASE flushBufferedFrames BY <1>11 DEF flushBufferedFrames
<1>12. CASE stop BY <1>12 DEF stop
<1>13. CASE joinWorker BY <1>13 DEF joinWorker
<1>14. CASE stopWriters BY <1>14 DEF stopWriters
<1>15. CASE joinWriters BY <1>15 DEF joinWriters
<1>16. CASE resetFramesSavedCounts BY <1>16 DEF resetFramesSavedCounts
<1>17. ASSUME NEW c \in Cameras, copyFrame(c) PROVE CallbacksOn'
  BY <1>17 DEF copyFrame
<1>18. ASSUME NEW c \in Cameras, saveFrame_Ignored(c) PROVE CallbacksOn'
  <2>1. cap[c] # Idle BY <1>18 DEF saveFrame_Ignored, Captured, Idle
  <2>2. UNCHANGED <<phase, camOn>> BY <1>18 DEF saveFrame_Ignored
  <2>3. \A d \in Cameras : d # c => cap'[d] = cap[d]
    BY <1>18 DEF saveFrame_Ignored
  <2>4. QED BY <2>1, <2>2, <2>3
<1>19. ASSUME NEW c \in Cameras, saveFrame_Record(c) PROVE CallbacksOn'
  <2>1. cap[c] # Idle BY <1>19 DEF saveFrame_Record, Captured, Idle
  <2>2. UNCHANGED <<phase, camOn>> BY <1>19 DEF saveFrame_Record
  <2>3. \A d \in Cameras : d # c => cap'[d] = cap[d]
    BY <1>19 DEF saveFrame_Record
  <2>4. QED BY <2>1, <2>2, <2>3
<1>20. ASSUME NEW c \in Cameras, saveFrame_Trigger(c) PROVE CallbacksOn'
  <2>1. cap[c] # Idle BY <1>20 DEF saveFrame_Trigger, Captured, Idle
  <2>2. UNCHANGED <<phase, camOn>> BY <1>20 DEF saveFrame_Trigger
  <2>3. \A d \in Cameras : d # c => cap'[d] = cap[d]
    BY <1>20 DEF saveFrame_Trigger, handleTriggerFrame, capture
  <2>4. QED BY <2>1, <2>2, <2>3
<1>21. ASSUME NEW c \in Cameras, saveFrame_Detect(c) PROVE CallbacksOn'
  <2>1. cap[c] # Idle BY <1>21 DEF saveFrame_Detect, Captured, Idle
  <2>2. UNCHANGED <<phase, camOn>> BY <1>21 DEF saveFrame_Detect
  <2>3. \A d \in Cameras : d # c => cap'[d] = cap[d]
    BY <1>21 DEF saveFrame_Detect
  <2>4. QED BY <2>1, <2>2, <2>3
<1>22. ASSUME NEW c \in Cameras, reserve(c) PROVE CallbacksOn'
  <2>1. cap[c] # Idle BY <1>22 DEF reserve, Idle
  <2>2. UNCHANGED <<phase, camOn>> BY <1>22 DEF reserve
  <2>3. \A d \in Cameras : d # c => cap'[d] = cap[d]
    BY <1>22 DEF reserve
  <2>4. QED BY <2>1, <2>2, <2>3
<1>23. ASSUME NEW c \in Cameras, push(c) PROVE CallbacksOn'
  <2>1. cap[c] # Idle BY <1>23 DEF push, Idle
  <2>2. UNCHANGED <<phase, camOn>> BY <1>23 DEF push
  <2>3. \A d \in Cameras : d # c => cap'[d] = cap[d]
    BY <1>23 DEF push
  <2>4. QED BY <2>1, <2>2, <2>3
<1>24. ASSUME NEW c \in Cameras, ack(c) PROVE CallbacksOn'
  <2>1. cap[c] # Idle BY <1>24 DEF ack, Idle
  <2>2. UNCHANGED <<phase, camOn>> BY <1>24 DEF ack
  <2>3. \A d \in Cameras : d # c => cap'[d] = cap[d]
    BY <1>24 DEF ack
  <2>4. QED BY <2>1, <2>2, <2>3
<1>25. CASE UNCHANGED <<phase, camOn, cap>> BY <1>25
<1>26. QED
  BY <1>1, <1>2, <1>3, <1>4, <1>5, <1>6, <1>7, <1>8, <1>9, <1>10, <1>11, <1>12,
     <1>13, <1>14, <1>15, <1>16, <1>17, <1>18, <1>19, <1>20, <1>21, <1>22,
     <1>23, <1>24, <1>25
  DEF Next, vars, Command, Handler, Worker, Callback, Writer, saveFrame,
      configure, handleTriggerCapture, armTrigger, getDetectedFrame,
      takePending, workerExit, processDetection, pushDetection,
      publishDetection, takeTask, writeTask, writerExit

LEMMA ArmedStep == ASSUME ArmedWhileOpen, [Next]_vars PROVE ArmedWhileOpen'
<1> USE DEF ArmedWhileOpen, ctlVars, queueVars, trigVars, detVars, slotVars,
            camVars, resetVars, threadVars, readVars, histVars, fileVars
<1>1. CASE start BY <1>1 DEF start
<1>2. CASE startNone BY <1>2 DEF startNone
<1>3. CASE stopCameras BY <1>3 DEF stopCameras
<1>4. CASE resetFrameCounts BY <1>4 DEF resetFrameCounts
<1>5. CASE handleTriggerCapture BY <1>5 DEF handleTriggerCapture, armTrigger
<1>6. CASE checkCaptureFeasibility BY <1>6 DEF checkCaptureFeasibility
<1>7. CASE allStarted BY <1>7 DEF allStarted
<1>8. CASE unwound BY <1>8 DEF unwound
<1>9. ASSUME NEW c \in Cameras, startCamera(c) PROVE ArmedWhileOpen'
  BY <1>9 DEF startCamera
<1>10. ASSUME NEW c \in Cameras, queueRequestFails(c) PROVE ArmedWhileOpen'
  BY <1>10 DEF queueRequestFails
<1>11. CASE flushBufferedFrames BY <1>11 DEF flushBufferedFrames
<1>12. CASE stop BY <1>12 DEF stop
<1>13. CASE joinWorker BY <1>13 DEF joinWorker
<1>14. CASE stopWriters BY <1>14 DEF stopWriters
<1>15. CASE joinWriters BY <1>15 DEF joinWriters
<1>16. CASE resetFramesSavedCounts BY <1>16 DEF resetFramesSavedCounts
<1>17. ASSUME NEW c \in Cameras, saveFrame_Trigger(c) PROVE ArmedWhileOpen'
  BY <1>17 DEF saveFrame_Trigger, handleTriggerFrame, capture
<1>18. CASE UNCHANGED <<phase, pending_trigger>> BY <1>18
<1>19. QED
  BY <1>1, <1>2, <1>3, <1>4, <1>5, <1>6, <1>7, <1>8, <1>9, <1>10, <1>11, <1>12,
     <1>13, <1>14, <1>15, <1>16, <1>17, <1>18
  DEF Next, vars, Command, Handler, Worker, Callback, Writer, saveFrame,
      configure, stopCamera, copyFrame, saveFrame_Ignored, saveFrame_Record,
      saveFrame_Detect, reserve, push, ack, getDetectedFrame, takePending,
      workerExit, processDetection, pushDetection, publishDetection, takeTask,
      writeTask, writerExit

(* Finished triggers stay with their callbacks. *)
DonesKept == \A c \in Cameras : cap'[c].done = cap[c].done

LEMMA DonesKeptStep ==
  ASSUME TypeInv, [Next]_vars
  PROVE  DonesKept \/ \E c \in Cameras : saveFrame_Trigger(c) \/ ack(c)
<1> USE ProcessorAssumption
<1> USE DEF DonesKept, TypeInv, CapOK, ctlVars, queueVars, trigVars, detVars,
            slotVars, camVars, resetVars, threadVars, readVars, histVars,
            fileVars
<1>1. ASSUME NEW c \in Cameras, copyFrame(c) PROVE DonesKept
  <2>1. cap[c].done = {} /\ cap'[c].done = {} BY <1>1 DEF copyFrame, Idle
  <2>2. \A d \in Cameras : d # c => cap'[d] = cap[d] BY <1>1 DEF copyFrame
  <2>3. QED BY <2>1, <2>2
<1>2. ASSUME NEW c \in Cameras, saveFrame_Ignored(c) PROVE DonesKept
  BY <1>2, IdleType DEF saveFrame_Ignored, Captured
<1>3. ASSUME NEW c \in Cameras, saveFrame_Record(c) PROVE DonesKept
  BY <1>3 DEF saveFrame_Record, CapStates
<1>4. ASSUME NEW c \in Cameras, saveFrame_Detect(c) PROVE DonesKept
  BY <1>4, IdleType DEF saveFrame_Detect, Captured
<1>5. ASSUME NEW c \in Cameras, reserve(c) PROVE DonesKept
  <2>1. cap'[c].done = cap[c].done
    BY <1>5, FinishType DEF reserve, CapStates
  <2>2. \A d \in Cameras : d # c => cap'[d] = cap[d] BY <1>5 DEF reserve
  <2>3. QED BY <2>1, <2>2
<1>6. ASSUME NEW c \in Cameras, push(c) PROVE DonesKept
  <2>1. cap'[c].done = cap[c].done BY <1>6, FinishType DEF push
  <2>2. \A d \in Cameras : d # c => cap'[d] = cap[d] BY <1>6 DEF push
  <2>3. QED BY <2>1, <2>2
<1>7. CASE UNCHANGED cap BY <1>7
<1>8. QED
  BY <1>1, <1>2, <1>3, <1>4, <1>5, <1>6, <1>7
  DEF Next, vars, Command, Handler, Worker, Callback, Writer, saveFrame,
      configure, start, startNone, stopCameras, resetFrameCounts,
      handleTriggerCapture, armTrigger, checkCaptureFeasibility, allStarted,
      unwound, startCamera, queueRequestFails, stopCamera, flushBufferedFrames,
      stop, joinWorker, stopWriters, joinWriters, resetFramesSavedCounts,
      saveFrame_Trigger, ack, getDetectedFrame, takePending, workerExit,
      processDetection, pushDetection, publishDetection, takeTask, writeTask,
      writerExit

(* An answer to a trigger not answered before. *)
LEMMA OneMoreAnswer ==
  ASSUME acks \in Seq(Results), NEW r \in Results, acks' = Append(acks, r),
         r.id \notin Answered,
         \A i, j \in DOMAIN acks : acks[i].id = acks[j].id => i = j
  PROVE  /\ Answered' = Answered \cup {r.id}
         /\ \A i, j \in DOMAIN acks' : acks'[i].id = acks'[j].id => i = j
<1>1. /\ Len(acks) \in Nat /\ DOMAIN acks = 1 .. Len(acks)
      /\ DOMAIN acks' = 1 .. Len(acks) + 1
      /\ \A i \in 1 .. Len(acks) : acks'[i] = acks[i]
      /\ acks'[Len(acks) + 1] = r
  OBVIOUS
<1>2. \A x : x \in Answered <=> \E i \in 1 .. Len(acks) : acks[i].id = x
  BY <1>1 DEF Answered
<1>3. \A x : x \in Answered' <=> \E i \in 1 .. Len(acks) + 1 : acks'[i].id = x
  BY <1>1 DEF Answered
<1>4. Answered' = Answered \cup {r.id}
  <2>1. \A i \in 1 .. Len(acks) + 1 : i \in 1 .. Len(acks) \/ i = Len(acks) + 1
    BY <1>1
  <2>2. \A i \in 1 .. Len(acks) : i \in 1 .. Len(acks) + 1 BY <1>1
  <2>3. Len(acks) + 1 \in 1 .. Len(acks) + 1 BY <1>1
  <2>4. QED BY <1>1, <1>2, <1>3, <2>1, <2>2, <2>3
<1>5. \A i \in 1 .. Len(acks) : acks[i].id # r.id BY <1>2
<1>6. ASSUME NEW i \in 1 .. Len(acks) + 1, NEW j \in 1 .. Len(acks) + 1,
             acks'[i].id = acks'[j].id
      PROVE  i = j
  <2>1. i \in 1 .. Len(acks) \/ i = Len(acks) + 1 BY <1>1
  <2>2. j \in 1 .. Len(acks) \/ j = Len(acks) + 1 BY <1>1
  <2>3. QED BY <1>1, <1>5, <1>6, <2>1, <2>2
<1>7. QED BY <1>1, <1>4, <1>6

(* A trigger that advances, or passes to the callback of camera c. *)
LEMMA TriggerMoves ==
  ASSUME TypeInv, NEW c \in Cameras, saveFrame_Trigger(c)
  PROVE  /\ UNCHANGED <<acks, next_trigger_id>>
         /\ cap[c].done = {}
         /\ \A d \in Cameras \ {c} : cap'[d] = cap[d]
         /\ \/ pending_trigger' = pending_trigger /\ cap'[c].done = {}
            \/ /\ cap'[c].done = {}
               /\ \E t \in pending_trigger : \E u \in Triggers :
                    pending_trigger' = {u} /\ u.id = t.id
            \/ /\ pending_trigger' = {}
               /\ \E t \in pending_trigger : \E r \in Results :
                    /\ cap'[c].done = {r} /\ r.id = t.id
                    /\ \E f \in Frames : r = Result(Taken(t, c, f), FALSE)
<1> USE DEF TypeInv, CapOK, TrigOK
<1>1. PICK f \in Frames : Captured(c, f) /\ handleTriggerFrame(c, f)
  BY DEF saveFrame_Trigger
<1>2. UNCHANGED <<acks, next_trigger_id>> /\ cap[c].done = {}
  BY <1>1 DEF saveFrame_Trigger, Captured
<1>3. CASE cap' = [cap EXCEPT ![c] = Idle] /\ UNCHANGED pending_trigger
  BY <1>2, <1>3, IdleType
<1>4. ASSUME NEW t \in pending_trigger, cap' = [cap EXCEPT ![c] = Idle],
             pending_trigger' = {[t EXCEPT !.waiting[c] = @ - 1]}
      PROVE  /\ \A d \in Cameras \ {c} : cap'[d] = cap[d]
             /\ cap'[c].done = {}
             /\ \E u \in Triggers : pending_trigger' = {u} /\ u.id = t.id
  BY <1>4, SkippedType, IdleType DEF Skipped
<1>5. ASSUME NEW t \in pending_trigger, capture(t, c, f)
      PROVE  /\ \A d \in Cameras \ {c} : cap'[d] = cap[d]
             /\ \/ /\ cap'[c].done = {}
                   /\ \E u \in Triggers : pending_trigger' = {u} /\ u.id = t.id
                \/ /\ pending_trigger' = {}
                   /\ \E r \in Results :
                        /\ cap'[c].done = {r} /\ r.id = t.id
                        /\ r = Result(Taken(t, c, f), FALSE)
  <2> DEFINE task == Task(t, c, f)
             r == Result(Taken(t, c, f), FALSE)
  <2>1. /\ cap' = [cap EXCEPT ![c] =
                     IF config.save_frames THEN task ELSE Finish(task)]
        /\ pending_trigger' = IF LastOf(t, c, f) THEN {} ELSE {Taken(t, c, f)}
    BY <1>5, CaptureIs
  <2>2. Taken(t, c, f) \in Triggers /\ Taken(t, c, f).id = t.id BY TakenType
  <2>3. r \in Results BY <2>2, ResultType
  <2>4. r.id = t.id BY <2>2 DEF Result
  <2> HIDE DEF r
  <2>5. task \in CapStates /\ task.done = IF LastOf(t, c, f) THEN {r} ELSE {}
    BY <2>3 DEF Task, CapStates, r
  <2> HIDE DEF task
  <2>6. cap'[c].done = task.done BY <2>1, <2>5, FinishType
  <2>7. \A d \in Cameras \ {c} : cap'[d] = cap[d] BY <2>1
  <2>8. CASE LastOf(t, c, f)
    <3>1. pending_trigger' = {} /\ cap'[c].done = {r} BY <2>1, <2>5, <2>6, <2>8
    <3>2. QED BY <2>3, <2>4, <2>7, <3>1 DEF r
  <2>9. CASE ~LastOf(t, c, f) BY <2>1, <2>2, <2>5, <2>6, <2>7, <2>9
  <2>10. QED BY <2>8, <2>9
<1> HIDE DEF TypeInv, CapOK, TrigOK
<1>6. CASE \E t \in pending_trigger :
             /\ pending_trigger' = {[t EXCEPT !.waiting[c] = @ - 1]}
             /\ cap' = [cap EXCEPT ![c] = Idle]
  BY <1>2, <1>4, <1>6
<1>7. CASE \E t \in pending_trigger : capture(t, c, f) BY <1>2, <1>5, <1>7
<1>8. QED BY <1>1, <1>3, <1>6, <1>7 DEF handleTriggerFrame

(* The steps that have to do with triggers. *)
LEMMA TriggerActors ==
  ASSUME [Next]_vars
  PROVE  \/ UNCHANGED trigVars \/ start \/ handleTriggerCapture \/ stop
         \/ \E c \in Cameras : saveFrame_Trigger(c) \/ ack(c)
BY ZenonT(60)
DEF Next, vars, Command, Handler, Worker, Callback, Writer, saveFrame,
      configure, startNone, stopCameras, resetFrameCounts,
      checkCaptureFeasibility, allStarted, unwound, startCamera,
      queueRequestFails, stopCamera, flushBufferedFrames, joinWorker,
      stopWriters, joinWriters, resetFramesSavedCounts, copyFrame,
      saveFrame_Ignored, saveFrame_Record, saveFrame_Detect, reserve, push,
      getDetectedFrame, takePending, workerExit, processDetection,
      pushDetection, publishDetection, takeTask, writeTask, writerExit,
      ctlVars, queueVars, trigVars, detVars, slotVars, camVars, resetVars,
      threadVars, readVars, histVars, fileVars

LEMMA IdsStep ==
  ASSUME TypeInv, TypeInv', ArmedWhileOpen, Ids, [Next]_vars PROVE Ids'
<1>1. CASE start
  <2>1. pending_trigger = {} BY <1>1 DEF start, ArmedWhileOpen
  <2>2. UNCHANGED <<acks, next_trigger_id, cap>> /\ pending_trigger' = {}
    BY <1>1 DEF start
  <2>3. QED BY <2>1, <2>2 DEF Ids, Answered
<1>2. CASE handleTriggerCapture
  <2>1. PICK skip \in Skips, ids \in SUBSET Cameras : armTrigger(ids, skip)
    BY <1>2 DEF handleTriggerCapture
  <2>2. PICK t \in Triggers :
          pending_trigger' = {t} /\ t.id = next_trigger_id
    <3> DEFINE t == [id |-> next_trigger_id,
                     waiting |-> [c \in Cameras |->
                                    IF c \in ids THEN skip ELSE Served],
                     captures |-> {},
                     want |-> {[cam |-> c, n |-> nextOver(c) + skip] : c \in ids}]
    <3>1. pending_trigger' = {t} BY <2>1 DEF armTrigger
    <3>2. t \in Triggers BY <3>1 DEF TypeInv, TrigOK
    <3>3. QED BY <3>1, <3>2
  <2>3. /\ pending_trigger = {} /\ next_trigger_id' = next_trigger_id + 1
        /\ UNCHANGED <<acks, cap>>
    BY <2>1 DEF armTrigger, threadVars
  <2>4. next_trigger_id \in Nat /\ next_trigger_id >= 1
    BY ProcessorAssumption DEF TypeInv, TypeOK
  <2>5. /\ \A k \in 1 .. next_trigger_id - 1 : k \in 1 .. next_trigger_id
        /\ \A k \in 1 .. next_trigger_id :
             k \in 1 .. next_trigger_id - 1 \/ k = next_trigger_id
        /\ next_trigger_id \in 1 .. next_trigger_id
        /\ next_trigger_id \notin 1 .. next_trigger_id - 1
        /\ next_trigger_id + 1 - 1 = next_trigger_id
    BY <2>4
  <2>6. Answered' = Answered BY <2>3 DEF Answered
  <2>7. QED BY <2>2, <2>3, <2>5, <2>6 DEF Ids
<1>3. CASE stop
  <2>1. /\ pending_trigger' = {} /\ UNCHANGED <<cap, next_trigger_id>>
        /\ \/ pending_trigger = {} /\ UNCHANGED acks
           \/ \E t \in pending_trigger : acks' = Append(acks, Result(t, TRUE))
    BY <1>3 DEF stop, threadVars
  <2>2. CASE pending_trigger = {} /\ UNCHANGED acks
    BY <2>1, <2>2 DEF Ids, Answered
  <2>3. ASSUME NEW t \in pending_trigger, acks' = Append(acks, Result(t, TRUE))
        PROVE  Ids'
    <3>1. Result(t, TRUE) \in Results /\ Result(t, TRUE).id = t.id
      <4>1. Result(t, TRUE) \in Results BY ResultType DEF TypeInv, TrigOK
      <4>2. QED BY <4>1 DEF Result
    <3>2. /\ Answered' = Answered \cup {t.id}
          /\ \A i, j \in DOMAIN acks' : acks'[i].id = acks'[j].id => i = j
      BY <2>3, <3>1, OneMoreAnswer DEF Ids, TypeInv, TrigOK
    <3>3. /\ Answered' \subseteq 1 .. next_trigger_id' - 1
          /\ \A c \in Cameras : \A r \in cap'[c].done : r.id \notin Answered'
      <4> DEFINE issued == 1 .. next_trigger_id - 1
      <4>1. Answered \subseteq issued /\ t.id \in issued BY DEF Ids
      <4>2. \A c \in Cameras : \A r \in cap[c].done :
              r.id \notin Answered /\ r.id # t.id
        BY DEF Ids
      <4>3. issued' = issued BY <2>1
      <4> HIDE DEF issued
      <4>4. Answered' \subseteq issued' BY <3>2, <4>1, <4>3
      <4>5. \A c \in Cameras : \A r \in cap'[c].done : r.id \notin Answered'
        BY <2>1, <3>2, <4>2
      <4>6. QED BY <4>4, <4>5 DEF issued
    <3>4. \A k \in 1 .. next_trigger_id - 1 :
            k \in Answered' \/ \E c \in Cameras : \E r \in cap'[c].done : r.id = k
      <4> SUFFICES ASSUME NEW k \in 1 .. next_trigger_id - 1, k \notin Answered'
                   PROVE  \E c \in Cameras : \E r \in cap'[c].done : r.id = k
        OBVIOUS
      <4>1. k \notin Answered /\ \A u \in pending_trigger : u.id # k
        BY <3>2 DEF Ids
      <4>2. \E c \in Cameras : \E r \in cap[c].done : r.id = k
        BY <4>1 DEF Ids
      <4>3. QED BY <2>1, <4>2
    <3>5. QED BY <2>1, <3>2, <3>3, <3>4 DEF Ids
  <2>4. QED BY <2>1, <2>2, <2>3
<1>4. ASSUME NEW c \in Cameras, saveFrame_Trigger(c) PROVE Ids'
  <2>1. /\ UNCHANGED <<acks, next_trigger_id>> /\ cap[c].done = {}
        /\ \A d \in Cameras \ {c} : cap'[d] = cap[d]
    BY <1>4, TriggerMoves
  <2>2. Answered' = Answered BY <2>1 DEF Answered
  <2>3. CASE pending_trigger' = pending_trigger /\ cap'[c].done = {}
    BY <2>1, <2>2, <2>3 DEF Ids
  <2>4. ASSUME NEW t \in pending_trigger, NEW u \in Triggers,
               pending_trigger' = {u}, u.id = t.id, cap'[c].done = {}
        PROVE  Ids'
    BY <2>1, <2>2, <2>4 DEF Ids
  <2>5. ASSUME NEW t \in pending_trigger, NEW r \in Results,
               pending_trigger' = {}, cap'[c].done = {r}, r.id = t.id
        PROVE  Ids'
    BY <2>1, <2>2, <2>5 DEF Ids
  <2>6. QED BY <1>4, <2>3, <2>4, <2>5, TriggerMoves
<1>5. ASSUME NEW c \in Cameras, ack(c) PROVE Ids'
  <2>1. PICK r \in cap[c].done : acks' = Append(acks, r) BY <1>5 DEF ack
  <2>2. /\ UNCHANGED <<pending_trigger, next_trigger_id>>
        /\ cap' = [cap EXCEPT ![c] = Idle]
    BY <1>5 DEF ack
  <2>3. r \in Results BY DEF CapStates, CapOK, TypeInv
  <2>4. /\ Answered' = Answered \cup {r.id}
        /\ \A i, j \in DOMAIN acks' : acks'[i].id = acks'[j].id => i = j
    BY <2>1, <2>3, OneMoreAnswer DEF Ids, TypeInv, TrigOK
  <2>5. cap'[c].done = {} /\ \A d \in Cameras \ {c} : cap'[d] = cap[d]
    BY <2>2, IdleType DEF CapOK, TypeInv
  <2>6. /\ Answered' \subseteq 1 .. next_trigger_id' - 1
        /\ \A t \in pending_trigger' : t.id \notin Answered'
        /\ \A d \in Cameras : \A s \in cap'[d].done : s.id \notin Answered'
    <3> DEFINE issued == 1 .. next_trigger_id - 1
    <3>1. Answered \subseteq issued /\ r.id \in issued BY DEF Ids
    <3>2. \A t \in pending_trigger : t.id \notin Answered /\ t.id # r.id
      BY DEF Ids
    <3>3. \A d \in Cameras \ {c} : \A s \in cap[d].done :
            s.id \notin Answered /\ s.id # r.id
      BY DEF Ids
    <3>4. issued' = issued BY <2>2
    <3> HIDE DEF issued
    <3>5. Answered' \subseteq issued' BY <2>4, <3>1, <3>4
    <3>6. \A t \in pending_trigger' : t.id \notin Answered'
      BY <2>2, <2>4, <3>2
    <3>7. \A d \in Cameras : \A s \in cap'[d].done : s.id \notin Answered'
      BY <2>4, <2>5, <3>3
    <3>8. QED BY <3>5, <3>6, <3>7 DEF issued
  <2>7. \A k \in 1 .. next_trigger_id - 1 :
          \/ k \in Answered'
          \/ \E t \in pending_trigger' : t.id = k
          \/ \E d \in Cameras : \E s \in cap'[d].done : s.id = k
    <3> SUFFICES ASSUME NEW k \in 1 .. next_trigger_id - 1,
                        k \notin Answered',
                        \A t \in pending_trigger : t.id # k
                 PROVE  \E d \in Cameras : \E s \in cap'[d].done : s.id = k
      BY <2>2
    <3>1. k \notin Answered /\ k # r.id BY <2>4
    <3>2. PICK d \in Cameras : \E s \in cap[d].done : s.id = k
      BY <3>1 DEF Ids
    <3>3. d # c BY <3>1, <3>2 DEF Ids
    <3>4. QED BY <2>5, <3>2, <3>3
  <2>8. /\ \A d \in Cameras : cap'[d].done \subseteq cap[d].done
        /\ UNCHANGED <<pending_trigger, next_trigger_id>>
    BY <2>2, <2>5
  <2>9. QED BY <2>4, <2>6, <2>7, <2>8 DEF Ids
<1>6. CASE UNCHANGED trigVars /\ DonesKept
  <2>1. /\ UNCHANGED <<acks, next_trigger_id, pending_trigger>>
        /\ \A c \in Cameras : cap'[c].done = cap[c].done
    BY <1>6 DEF trigVars, DonesKept
  <2>2. Answered' = Answered BY <2>1 DEF Answered
  <2>3. QED BY <2>1, <2>2 DEF Ids
<1>7. \/ UNCHANGED trigVars \/ start \/ handleTriggerCapture \/ stop
      \/ \E c \in Cameras : saveFrame_Trigger(c) \/ ack(c)
  BY TriggerActors
<1>8. QED BY <1>1, <1>2, <1>3, <1>4, <1>5, <1>6, <1>7, DonesKeptStep

LEMMA TriggerInit == Init => CallbacksOn /\ ArmedWhileOpen /\ Ids
<1> SUFFICES ASSUME Init PROVE CallbacksOn /\ ArmedWhileOpen /\ Ids
  OBVIOUS
<1>1. CallbacksOn /\ ArmedWhileOpen
  BY DEF Init, CallbacksOn, ArmedWhileOpen
<1>2. Answered = {} BY DEF Init, Answered
<1>3. Ids BY <1>2, IdleType DEF Init, Ids
<1>4. QED BY <1>1, <1>3

(* Every trigger identifier given out by armTrigger is in one place, and   *)
(* only cameras that are on have a callback to take it there.              *)
THEOREM TriggerInvariant ==
  Spec => [](TypeInv /\ CallbacksOn /\ ArmedWhileOpen /\ Ids)
<1> DEFINE I == TypeInv /\ CallbacksOn /\ ArmedWhileOpen /\ Ids
<1>1. Init => I BY TypeInit, TriggerInit
<1>2. I /\ [Next]_vars => I'
  BY TypeStep, CallbacksOnStep, ArmedStep, IdsStep
<1>3. QED BY <1>1, <1>2, PTL DEF Spec

(* Every trigger that was armed is answered exactly once, completed or     *)
(* cancelled, and none is left when the cameras have stopped, in every     *)
(* interleaving of callbacks, stop and changes of mode.                    *)
THEOREM TriggersAnswered == Spec => []TriggerAnsweredOnce
<1>1. TypeInv /\ CallbacksOn /\ ArmedWhileOpen /\ Ids => TriggerAnsweredOnce
  <2> SUFFICES ASSUME TypeInv, CallbacksOn, ArmedWhileOpen, Ids
               PROVE  TriggerAnsweredOnce
    OBVIOUS
  <2>1. phase = "configured" =>
          pending_trigger = {} /\ \A c \in Cameras : cap[c].done = {}
    BY IdleType DEF CallbacksOn, ArmedWhileOpen
  <2>2. phase = "configured" =>
          \A k \in 1 .. next_trigger_id - 1 : k \in Answered
    BY <2>1 DEF Ids
  <2>3. Answered \subseteq 1 .. next_trigger_id - 1 BY DEF Ids
  <2>4. phase = "configured" => Answered = 1 .. next_trigger_id - 1
    BY <2>2, <2>3, Zenon
  <2>5. QED BY <2>4 DEF Ids, TriggerAnsweredOnce
<1>2. QED BY <1>1, TriggerInvariant, PTL

(***************************************************************************)
(* What a trigger captures.  The commander sets no mode while the cameras  *)
(* run: a trigger armed in TRIGGER mode would miss the frames that another *)
(* mode takes.                                                             *)
(***************************************************************************)

(* The mode in force is the one that was started. *)
InForce ==
  /\ phase \notin {"configured", "resetConfigured"} => session = config.mode
  /\ phase \in {"starting", "running", "resetRunning", "stopping",
                "unwinding"} /\ config.mode # "NONE" => callback /\ enabled
  /\ phase = "started" /\ config.mode # "NONE" => enabled
  /\ pending_trigger # {} => config.mode = "TRIGGER"

(* The frame camera c still owes to trigger t, and all such frames. *)
Due(t, c) == [cam |-> c, n |-> nextOver(c) + t.waiting[c]]
Left(t) == {Due(t, c) : c \in {d \in Cameras : t.waiting[d] # Served}}

(* What an armed trigger wants is what it has and what it waits for; what  *)
(* a finished one wants is what it has.                                    *)
Wanted ==
  /\ \A t \in pending_trigger :
       /\ \A c \in Cameras : t.waiting[c] \in Nat \cup {Served}
       /\ t.want = t.captures \cup Left(t)
  /\ \A c \in Cameras : \A r \in cap[c].done : r.captures = r.want
  /\ TriggerCapturesWanted

LEMMA InForceStep ==
  ASSUME ~ModeWhileRunning, TypeInv, ArmedWhileOpen, InForce, [Next]_vars
  PROVE  InForce'
<1> USE DEF InForce, ArmedWhileOpen, ctlVars, queueVars, trigVars, detVars,
            slotVars, camVars, resetVars, threadVars, readVars, histVars,
            fileVars
<1>1. CASE configure BY <1>1 DEF configure
<1>2. CASE start BY <1>2 DEF start
<1>3. CASE startNone BY <1>3 DEF startNone
<1>4. CASE stopCameras BY <1>4 DEF stopCameras
<1>5. CASE resetFrameCounts BY <1>5 DEF resetFrameCounts
<1>6. CASE handleTriggerCapture BY <1>6 DEF handleTriggerCapture, armTrigger
<1>7. CASE checkCaptureFeasibility
  <2>1. config.mode # "NONE" => enabled BY <1>7 DEF checkCaptureFeasibility
  <2>2. CASE phase' = "cancel" BY <1>7, <2>2 DEF checkCaptureFeasibility
  <2>3. CASE phase' = "starting" /\ callback' = (config.mode # "NONE")
    <3>1. config.mode # "NONE" => callback' BY <2>3
    <3>2. UNCHANGED <<config, enabled, pending_trigger, session>>
      BY <1>7 DEF checkCaptureFeasibility
    <3>3. QED BY <1>7, <2>1, <2>3, <3>1, <3>2 DEF checkCaptureFeasibility
  <2>4. QED BY <1>7, <2>2, <2>3 DEF checkCaptureFeasibility
<1>8. CASE allStarted BY <1>8 DEF allStarted
<1>9. CASE unwound BY <1>9 DEF unwound
<1>10. ASSUME NEW c \in Cameras, startCamera(c) PROVE InForce'
  BY <1>10 DEF startCamera
<1>11. ASSUME NEW c \in Cameras, queueRequestFails(c) PROVE InForce'
  BY <1>11 DEF queueRequestFails
<1>12. ASSUME NEW c \in Cameras, stopCamera(c) PROVE InForce'
  BY <1>12 DEF stopCamera
<1>13. CASE flushBufferedFrames BY <1>13 DEF flushBufferedFrames
<1>14. CASE stop BY <1>14 DEF stop
<1>15. CASE joinWorker BY <1>15 DEF joinWorker
<1>16. CASE stopWriters BY <1>16 DEF stopWriters
<1>17. CASE joinWriters BY <1>17 DEF joinWriters
<1>18. CASE resetFramesSavedCounts BY <1>18 DEF resetFramesSavedCounts
<1>19. ASSUME NEW c \in Cameras, saveFrame_Trigger(c) PROVE InForce'
  BY <1>19 DEF saveFrame_Trigger
<1>20. ASSUME NEW c \in Cameras, reserve(c) PROVE InForce'
  BY <1>20 DEF reserve, reserveBacklog
<1>21. CASE processDetection BY <1>21 DEF processDetection, reserveBacklog
<1>22. CASE UNCHANGED <<phase, config, enabled, callback, pending_trigger, session>>
  BY <1>22
<1>23. QED
  BY <1>1, <1>2, <1>3, <1>4, <1>5, <1>6, <1>7, <1>8, <1>9, <1>10, <1>11, <1>12,
     <1>13, <1>14, <1>15, <1>16, <1>17, <1>18, <1>19, <1>20, <1>21, <1>22
  DEF Next, vars, Command, Handler, Worker, Callback, Writer, saveFrame,
      copyFrame, saveFrame_Ignored, saveFrame_Record, saveFrame_Detect, push,
      ack, getDetectedFrame, takePending, workerExit, pushDetection,
      publishDetection, takeTask, writeTask, writerExit

(* Only a callback that hands a frame over changes which frame is next.   *)
OverKept == \A c \in Cameras : nextOver(c)' = nextOver(c)

LEMMA OverKeptStep ==
  ASSUME TypeInv, [Next]_vars
  PROVE  OverKept \/ \E c \in Cameras : saveFrame(c)
<1> USE ProcessorAssumption
<1> USE DEF OverKept, TypeInv, TypeOK, CapOK, ctlVars, queueVars, trigVars,
            detVars, slotVars, camVars, resetVars, threadVars, readVars,
            histVars, fileVars
<1>1. ASSUME NEW c \in Cameras, copyFrame(c) PROVE OverKept
  <2>1. cap[c].pc = "idle" /\ cap'[c].pc = "copied"
    BY <1>1 DEF copyFrame, Idle
  <2>2. frame_counter' = [frame_counter EXCEPT ![c] = @ + 1]
    BY <1>1 DEF copyFrame
  <2>3. \A d \in Cameras : d # c => cap'[d] = cap[d] BY <1>1 DEF copyFrame
  <2>4. QED BY <2>1, <2>2, <2>3 DEF nextOver
<1>2. ASSUME NEW c \in Cameras, reserve(c) PROVE OverKept
  <2>1. cap[c].pc # "copied" /\ cap'[c].pc # "copied"
    BY <1>2, FinishType DEF reserve, CapStates
  <2>2. \A d \in Cameras : d # c => cap'[d] = cap[d] BY <1>2 DEF reserve
  <2>3. QED BY <1>2, <2>1, <2>2 DEF nextOver, reserve
<1>3. ASSUME NEW c \in Cameras, push(c) PROVE OverKept
  <2>1. cap[c].pc # "copied" /\ cap'[c].pc # "copied"
    BY <1>3, FinishType DEF push
  <2>2. \A d \in Cameras : d # c => cap'[d] = cap[d] BY <1>3 DEF push
  <2>3. QED BY <1>3, <2>1, <2>2 DEF nextOver, push
<1>4. ASSUME NEW c \in Cameras, ack(c) PROVE OverKept
  <2>1. cap[c].pc # "copied" /\ cap'[c].pc # "copied"
    BY <1>4, IdleType DEF ack
  <2>2. \A d \in Cameras : d # c => cap'[d] = cap[d] BY <1>4 DEF ack
  <2>3. QED BY <1>4, <2>1, <2>2 DEF nextOver, ack
<1>5. CASE UNCHANGED <<cap, frame_counter>> BY <1>5 DEF nextOver
<1>6. QED
  BY <1>1, <1>2, <1>3, <1>4, <1>5
  DEF Next, vars, Command, Handler, Worker, Callback, Writer,
      configure, start, startNone, stopCameras, resetFrameCounts,
      handleTriggerCapture, armTrigger, checkCaptureFeasibility, allStarted,
      unwound, startCamera, queueRequestFails, stopCamera, flushBufferedFrames,
      stop, joinWorker, stopWriters, joinWriters, resetFramesSavedCounts,
      saveFrame_Ignored, saveFrame_Record, saveFrame_Trigger, saveFrame_Detect,
      getDetectedFrame, takePending, workerExit, processDetection,
      pushDetection, publishDetection, takeTask, writeTask, writerExit

(* One more answer, whose captures are as they should be. *)
LEMMA AnswerAsWanted ==
  ASSUME acks \in Seq(Results), NEW r \in Results, acks' = Append(acks, r),
         TriggerCapturesWanted, r.captures \subseteq r.want,
         ~r.cancelled => r.captures = r.want
  PROVE  TriggerCapturesWanted'
<1>1. /\ Len(acks) \in Nat /\ DOMAIN acks = 1 .. Len(acks)
      /\ DOMAIN acks' = 1 .. Len(acks) + 1
      /\ \A i \in 1 .. Len(acks) : acks'[i] = acks[i]
      /\ acks'[Len(acks) + 1] = r
  OBVIOUS
<1>2. \A i \in 1 .. Len(acks) + 1 : i \in 1 .. Len(acks) \/ i = Len(acks) + 1
  BY <1>1
<1>3. QED BY <1>1, <1>2 DEF TriggerCapturesWanted

LEMMA WantedTrigger ==
  ASSUME TypeInv, Ids, Wanted, NEW c \in Cameras, saveFrame_Trigger(c)
  PROVE  Wanted'
<1>1. PICK f \in Frames : Captured(c, f) /\ handleTriggerFrame(c, f)
  BY DEF saveFrame_Trigger
<1>2. /\ UNCHANGED <<acks, frame_counter>> /\ cap[c].pc = "copied"
      /\ cap[c].done = {} /\ f = FrameOf(c)
  BY <1>1 DEF saveFrame_Trigger, Captured, camVars, TypeInv, CapOK, Active
<1>3. TriggerCapturesWanted' BY <1>2 DEF Wanted, TriggerCapturesWanted
<1>4. \A d \in Cameras \ {c} : cap'[d] = cap[d] BY TriggerMoves
<1>5. \A d \in Cameras \ {c} : nextOver(d)' = nextOver(d)
  BY <1>2, <1>4 DEF nextOver
<1>6. nextOver(c) = frame_counter[c] /\ nextOver(c) \in Nat
  BY <1>2 DEF nextOver, TypeInv, TypeOK
<1>7. cap'[c].pc # "copied" /\ cap'[c].pc \in {"idle", "ack", "reserve"}
  <2>1. CASE cap' = [cap EXCEPT ![c] = Idle]
    BY <2>1, IdleType DEF TypeInv, CapOK
  <2>2. ASSUME NEW t \in pending_trigger, capture(t, c, f)
        PROVE  cap'[c].pc \in {"idle", "ack", "reserve"}
    <3>1. cap' = [cap EXCEPT ![c] = IF config.save_frames THEN Task(t, c, f)
                                    ELSE Finish(Task(t, c, f))]
      BY <2>2, CaptureIs DEF TypeInv, TrigOK
    <3>2. Taken(t, c, f) \in Triggers BY TakenType DEF TypeInv, TrigOK
    <3>3. Result(Taken(t, c, f), FALSE) \in Results
      BY <3>2, ResultType DEF TypeInv
    <3>4. Task(t, c, f) \in CapStates /\ Task(t, c, f).pc = "reserve"
      BY <3>3 DEF Task, CapStates
    <3>5. cap'[c] \in {Task(t, c, f), Finish(Task(t, c, f))}
      BY <3>1 DEF TypeInv, CapOK
    <3>6. QED BY <3>4, <3>5, FinishType
  <2>3. QED BY <1>1, <2>1, <2>2 DEF handleTriggerFrame
<1>8. nextOver(c)' = nextOver(c) + 1
  BY <1>2, <1>6, <1>7 DEF nextOver
<1>9. CASE /\ \A t \in pending_trigger : t.waiting[c] = Served
           /\ cap' = [cap EXCEPT ![c] = Idle] /\ UNCHANGED pending_trigger
  <2>1. \A t \in pending_trigger : Left(t)' = Left(t)
    BY <1>5, <1>9 DEF Left, Due
  <2>2. cap'[c].done = {} BY <1>9, IdleType DEF TypeInv, CapOK
  <2>3. QED BY <1>3, <1>4, <1>9, <2>1, <2>2 DEF Wanted
<1>10. ASSUME NEW t \in pending_trigger, t.waiting[c] > 0,
              pending_trigger' = {[t EXCEPT !.waiting[c] = @ - 1]},
              cap' = [cap EXCEPT ![c] = Idle]
       PROVE  Wanted'
  <2> DEFINE u == [t EXCEPT !.waiting[c] = @ - 1]
  <2>1. t \in Triggers /\ t.waiting[c] \in Nat
    BY <1>10 DEF TypeInv, TrigOK, Wanted, Served
  <2>2. /\ u.want = t.want /\ u.captures = t.captures
        /\ u.waiting = [t.waiting EXCEPT ![c] = @ - 1]
    BY <2>1, SkippedType DEF Skipped
  <2> HIDE DEF u
  <2>3. /\ u.waiting[c] = t.waiting[c] - 1
        /\ \A d \in Cameras \ {c} : u.waiting[d] = t.waiting[d]
    BY <2>1, <2>2 DEF Triggers
  <2>4. \A d \in Cameras : /\ u.waiting[d] \in Nat \cup {Served}
                           /\ u.waiting[d] = Served <=> t.waiting[d] = Served
    BY <1>10, <2>1, <2>3 DEF Wanted, Served
  <2>5. \A d \in Cameras : Due(u, d)' = Due(t, d)
    BY <1>5, <1>6, <1>8, <2>1, <2>3 DEF Due
  <2>6. Left(u)' = Left(t) BY <2>4, <2>5 DEF Left
  <2>7. u.want = u.captures \cup Left(u)' BY <2>2, <2>6 DEF Wanted
  <2>8. cap'[c].done = {} BY <1>10, IdleType DEF TypeInv, CapOK
  <2>9. pending_trigger' = {u} BY <1>10 DEF u
  <2>10. QED BY <1>3, <1>4, <2>4, <2>7, <2>8, <2>9 DEF Wanted
<1>11. ASSUME NEW t \in pending_trigger, t.waiting[c] = 0, capture(t, c, f)
       PROVE  Wanted'
  <2> DEFINE u == Taken(t, c, f)
  <2>1. t \in Triggers BY DEF TypeInv, TrigOK
  <2>2. /\ u \in Triggers /\ u.want = t.want
        /\ u.captures = t.captures \cup {f}
        /\ u.waiting = [t.waiting EXCEPT ![c] = Served]
    BY <2>1, TakenType
  <2>3. pending_trigger' = IF LastOf(t, c, f) THEN {} ELSE {u}
    BY <1>11, <2>1, CaptureIs
  <2>4. LastOf(t, c, f) <=> \A d \in Cameras : u.waiting[d] = Served
    BY DEF LastOf
  <2> HIDE DEF u
  <2>5. /\ u.waiting[c] = Served
        /\ \A d \in Cameras \ {c} : u.waiting[d] = t.waiting[d]
    BY <2>1, <2>2 DEF Triggers
  <2>6. Due(t, c) = f /\ t.waiting[c] # Served
    BY <1>2, <1>6, <1>11 DEF Due, FrameOf, Served
  <2>7. Left(t) = Left(u)' \cup {f}
    <3>1. \A d \in Cameras \ {c} : Due(u, d)' = Due(t, d)
      BY <1>5, <2>5 DEF Due
    <3>2. QED BY <2>5, <2>6, <3>1 DEF Left
  <2>8. u.want = u.captures \cup Left(u)' BY <2>2, <2>7 DEF Wanted
  <2>9. \A d \in Cameras : u.waiting[d] \in Nat \cup {Served}
    BY <2>5 DEF Wanted
  <2>10. \A r \in cap'[c].done : r.captures = r.want
    <3>1. cap' = [cap EXCEPT ![c] = IF config.save_frames THEN Task(t, c, f)
                                    ELSE Finish(Task(t, c, f))]
      BY <1>11, <2>1, CaptureIs
    <3>2. Result(u, FALSE) \in Results BY <2>2, ResultType DEF TypeInv
    <3>3. /\ Task(t, c, f) \in CapStates
          /\ Task(t, c, f).done =
               IF LastOf(t, c, f) THEN {Result(u, FALSE)} ELSE {}
      BY <3>2 DEF Task, CapStates, u
    <3>4. cap'[c].done = Task(t, c, f).done
      BY <3>1, <3>3, FinishType DEF TypeInv, CapOK
    <3>5. LastOf(t, c, f) => Left(u)' = {} BY <2>4 DEF Left
    <3>6. /\ Result(u, FALSE).captures = u.captures
          /\ Result(u, FALSE).want = u.want
      BY DEF Result
    <3>7. QED BY <2>8, <3>3, <3>4, <3>5, <3>6
  <2>11. QED BY <1>3, <1>4, <2>3, <2>8, <2>9, <2>10 DEF Wanted
<1>12. QED BY <1>1, <1>9, <1>10, <1>11 DEF handleTriggerFrame

LEMMA WantedStep ==
  ASSUME TypeInv, CallbacksOn, ArmedWhileOpen, Ids, InForce, Wanted,
         [Next]_vars
  PROVE  Wanted'
<1>1. CASE start
  BY <1>1 DEF start, Wanted, TriggerCapturesWanted
<1>2. CASE handleTriggerCapture
  <2>1. PICK skip \in Skips, ids \in SUBSET Cameras : armTrigger(ids, skip)
    BY <1>2 DEF handleTriggerCapture
  <2> DEFINE w == [c \in Cameras |-> IF c \in ids THEN skip ELSE Served]
             goal == {[cam |-> c, n |-> nextOver(c) + skip] : c \in ids}
  <2>2. PICK t : /\ pending_trigger' = {t} /\ t.waiting = w
                 /\ t.captures = {} /\ t.want = goal
    <3> DEFINE r == [id |-> next_trigger_id, waiting |-> w, captures |-> {},
                     want |-> goal]
    <3>1. pending_trigger' = {r} BY <2>1 DEF armTrigger
    <3>2. r.waiting = w /\ r.captures = {} /\ r.want = goal OBVIOUS
    <3> HIDE DEF r
    <3>3. QED BY <3>1, <3>2, Zenon
  <2>3. UNCHANGED <<acks, cap, frame_counter>>
    BY <2>1 DEF armTrigger, threadVars, camVars
  <2>4. skip \in Nat /\ skip # Served BY ProcessorAssumption DEF Served
  <2>5. {d \in Cameras : w[d] # Served} = ids BY <2>4
  <2>6. \A c \in ids : Due(t, c)' = [cam |-> c, n |-> nextOver(c) + skip]
    BY <2>2, <2>3 DEF Due, nextOver
  <2>7. Left(t)' = goal
    <3>1. Left(t)' = {Due(t, c)' : c \in ids} BY <2>2, <2>5 DEF Left
    <3>2. QED BY <2>6, <3>1
  <2>8. \A c \in Cameras : t.waiting[c] \in Nat \cup {Served}
    BY <2>2, <2>4
  <2>9. QED
    BY <2>2, <2>3, <2>7, <2>8 DEF Wanted, TriggerCapturesWanted
<1>3. CASE stop
  <2>1. /\ pending_trigger' = {} /\ UNCHANGED cap
        /\ \/ UNCHANGED acks
           \/ \E t \in pending_trigger : acks' = Append(acks, Result(t, TRUE))
    BY <1>3 DEF stop, threadVars
  <2>2. CASE UNCHANGED acks
    BY <2>1, <2>2 DEF Wanted, TriggerCapturesWanted
  <2>3. ASSUME NEW t \in pending_trigger, acks' = Append(acks, Result(t, TRUE))
        PROVE  Wanted'
    <3> DEFINE r == Result(t, TRUE)
    <3>1. r \in Results BY ResultType DEF TypeInv, TrigOK
    <3>2. r.captures \subseteq r.want /\ r.cancelled = TRUE
      BY DEF Wanted, Result
    <3> HIDE DEF r
    <3>3. TriggerCapturesWanted'
      BY <2>3, <3>1, <3>2, AnswerAsWanted DEF Wanted, TypeInv, TrigOK, r
    <3>4. QED BY <2>1, <3>3 DEF Wanted
  <2>4. QED BY <2>1, <2>2, <2>3
<1>4. ASSUME NEW c \in Cameras, saveFrame_Trigger(c) PROVE Wanted'
  BY <1>4, WantedTrigger
<1>5. ASSUME NEW c \in Cameras, ack(c) PROVE Wanted'
  <2>1. PICK r \in cap[c].done : acks' = Append(acks, r) BY <1>5 DEF ack
  <2>2. /\ UNCHANGED <<pending_trigger, frame_counter>>
        /\ cap' = [cap EXCEPT ![c] = Idle] /\ cap[c].pc = "ack"
    BY <1>5 DEF ack, camVars
  <2>3. r \in Results BY DEF CapStates, CapOK, TypeInv
  <2>4. TriggerCapturesWanted'
    BY <2>1, <2>3, AnswerAsWanted DEF Wanted, TypeInv, TrigOK
  <2>5. \A d \in Cameras : cap'[d].done \subseteq cap[d].done
    BY <2>2, IdleType DEF CapOK, TypeInv
  <2>6. \A d \in Cameras : nextOver(d)' = nextOver(d)
    BY <2>2, IdleType DEF nextOver, CapOK, TypeInv
  <2>7. \A t \in pending_trigger : Left(t)' = Left(t) BY <2>6 DEF Left, Due
  <2>8. QED BY <2>2, <2>4, <2>5, <2>7 DEF Wanted
<1>6. CASE UNCHANGED trigVars /\ DonesKept
  <2>1. UNCHANGED <<pending_trigger, acks>> BY <1>6 DEF trigVars
  <2>2. TriggerCapturesWanted' BY <2>1 DEF Wanted, TriggerCapturesWanted
  <2>3. \A c \in Cameras : \A r \in cap'[c].done : r.captures = r.want
    BY <1>6 DEF DonesKept, Wanted
  <2>4. CASE pending_trigger = {} BY <2>1, <2>2, <2>3, <2>4 DEF Wanted
  <2>5. CASE OverKept
    <3>1. \A t \in pending_trigger : Left(t)' = Left(t)
      BY <2>5 DEF OverKept, Left, Due
    <3>2. QED BY <2>1, <2>2, <2>3, <3>1 DEF Wanted
  <2>6. ASSUME NEW c \in Cameras, saveFrame(c), pending_trigger # {}
        PROVE  Wanted'
    <3>1. config.mode = "TRIGGER" BY <2>6 DEF InForce
    <3>2. cap[c] # Idle
      BY <2>6
      DEF saveFrame, saveFrame_Ignored, saveFrame_Record, saveFrame_Trigger,
          saveFrame_Detect, Captured, Idle
    <3>3. callback /\ enabled BY <3>1, <3>2 DEF CallbacksOn, InForce
    <3>4. saveFrame_Trigger(c)
      BY <2>6, <3>1, <3>3
      DEF saveFrame, saveFrame_Ignored, saveFrame_Record, saveFrame_Detect,
          processing, recording
    <3>5. QED BY <3>4, WantedTrigger
  <2>7. QED BY <2>4, <2>5, <2>6, OverKeptStep
<1>7. \/ UNCHANGED trigVars \/ start \/ handleTriggerCapture \/ stop
      \/ \E c \in Cameras : saveFrame_Trigger(c) \/ ack(c)
  BY TriggerActors
<1>8. QED BY <1>1, <1>2, <1>3, <1>4, <1>5, <1>6, <1>7, DonesKeptStep

LEMMA WantedInit == Init => InForce /\ Wanted
<1> SUFFICES ASSUME Init PROVE InForce /\ Wanted
  OBVIOUS
<1>1. InForce BY DEF Init, InForce
<1>2. Wanted BY IdleType DEF Init, Wanted, TriggerCapturesWanted
<1>3. QED BY <1>1, <1>2

(* A completed trigger captured from each camera exactly the frame it was  *)
(* asked for, a cancelled one only such frames: with any skip_frames, any  *)
(* number of cameras, and whatever was in flight when it was armed.        *)
THEOREM TriggersGetWhatTheyWant ==
  ASSUME ~ModeWhileRunning
  PROVE  Spec => []TriggerCapturesWanted
<1> DEFINE I == InForce /\ Wanted
           J == TypeInv /\ CallbacksOn /\ ArmedWhileOpen /\ Ids
<1>1. Init => I BY WantedInit
<1>2. I /\ J /\ [Next]_vars => I' BY InForceStep, WantedStep
<1>3. I => TriggerCapturesWanted BY DEF Wanted
<1> HIDE DEF I
<1>4. Spec => []J BY TriggerInvariant
<1>5. QED BY <1>1, <1>2, <1>3, <1>4, PTL DEF Spec
=============================================================================
