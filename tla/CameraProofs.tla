---------------------------- MODULE CameraProofs ----------------------------
(***************************************************************************)
(* Proofs about one Camera, for any set of settings, any number of         *)
(* buffers, streaming threads, setter calls and frames.                    *)
(***************************************************************************)
EXTENDS Camera, TLAPS

(***************************************************************************)
(* The inductive invariant, in four parts that build on each other.        *)
(***************************************************************************)

(* Where the loop thread may be in each state of the camera, and who may   *)
(* be active then: libcamera runs from start to the end of stop, callbacks *)
(* only while it runs, the watchdog only between startDone and stop.       *)
Lifecycle ==
  /\ mapped <=> state # "IDLE"
  /\ loop \in {"queueing", "failing"} => state = "CONFIGURED" /\ ~should_stop
  /\ loop = "stopping" => state = "RUNNING" /\ should_stop
  /\ state = "RUNNING" /\ loop # "stopping" => ~should_stop
  /\ started <=> state = "RUNNING" \/ loop \in {"queueing", "failing"}
  /\ cb # "idle" => started
  /\ wd # "off" => state = "RUNNING" /\ loop # "stopping"
  /\ loop \in {"flag", "bump"} => generation < MaxSets

InHand == IF cb = "idle" THEN 0 ELSE 1

(* Every request is with libcamera, with the callback or still to be       *)
(* queued; only a camera that is stopping loses some.                      *)
Requests ==
  /\ left # 0 => loop \in {"queueing", "failing"}
  /\ started => queued + InHand + left <= Buffers
  /\ started /\ ~should_stop => queued + InHand + left = Buffers

(* The slot lags behind the frames delivered, by the one the callback is   *)
(* about to publish at least; a cursor behind the slot's number means that *)
(* the streamer had an older frame.                                        *)
Slot ==
  /\ latest_seq + (IF cb \in {"clear", "publish"} THEN 1 ELSE 0) <= frames
  /\ \A m, n \in latest : m = n
  /\ \A n \in latest : n <= frames
  /\ cb \in {"clear", "publish"} => \A n \in latest : n < frames
  /\ \A s \in Consumers :
       /\ cursor[s] <= latest_seq
       /\ got[s] <= frames
       /\ cb \in {"clear", "publish"} => got[s] < frames
       /\ \A n \in latest : cursor[s] < latest_seq => got[s] < n

(* A value the callback can load has been asked for.                       *)
Asked ==
  /\ Automatic \in asked /\ device \in asked /\ cbSet \subseteq asked
  /\ value # 0 => value \in asked
  /\ ~auto \/ loop = "flag" \/ cb = "value" => value # 0

(* The setter is between its first store and the new generation. *)
Setting == loop \in {"flag", "bump"}

(* What the callback has loaded is what the generation it loaded stands    *)
(* for, as long as no setter has begun since; only a release that the      *)
(* client has not taken back is counted as applied without a control.      *)
Loads ==
  /\ cb # "queue" => cbSet = {}
  /\ cb \in {"flag", "value"} => applied < cbGen
  /\ cb = "value" /\ cbGen = generation /\ ~Setting
       => ~auto /\ control # "duration"
  /\ cbSet # {} /\ applied = generation /\ ~Setting => cbSet = {Effective}
  /\ cbSet # {} => ~unsent /\ \E v \in cbSet : cbSet = {v}
  /\ generation = applied /\ ~Setting /\ unsent => Released
  /\ /\ started \/ Released
     /\ generation = applied /\ ~Setting /\ ~unsent /\ cbSet = {}
     => device = Effective

Inv == TypeOK /\ Lifecycle /\ Requests /\ Slot /\ Asked /\ Loads

(***************************************************************************)
(* The initial state and the steps, one lemma for each part.               *)
(***************************************************************************)
LEMMA InvInit == Init => Inv
<1> SUFFICES ASSUME Init PROVE Inv
  OBVIOUS
<1> USE CameraAssumption DEF Init
<1>1. /\ mapped \in BOOLEAN /\ started \in BOOLEAN
      /\ should_stop \in BOOLEAN /\ dead \in BOOLEAN
      /\ auto \in BOOLEAN /\ quiet \in BOOLEAN
      /\ capture_failed \in BOOLEAN /\ told \in BOOLEAN
      /\ unsent \in BOOLEAN
  BY Zenon
<1>2. TypeOK BY <1>1 DEF TypeOK, Automatic
<1>3. Lifecycle /\ Requests BY DEF Lifecycle, Requests
<1>4. Slot BY DEF Slot
<1>5. Asked /\ Loads BY DEF Asked, Loads, Setting, Effective
<1>6. QED BY <1>2, <1>3, <1>4, <1>5 DEF Inv

(* Types need the counts of Requests and the order of Slot: the bounds of  *)
(* queued and latest_seq follow from them.                                 *)

LEMMA TypeStep == Inv /\ [Next]_vars => TypeOK'
<1> SUFFICES ASSUME Inv, [Next]_vars PROVE TypeOK'
  OBVIOUS
<1> USE CameraAssumption
<1> USE DEF Inv, TypeOK, lcamVars, loopVars, setVars, ctlVars, cbVars,
            slotVars, readVars, wdVars
<1>1. CASE configure BY <1>1 DEF configure
<1>2. CASE unconfigure
  <2>1. mapped' \in BOOLEAN
    BY <1>2, Zenon DEF unconfigure
  <2>2. QED BY <1>2, <2>1 DEF unconfigure
<1>3. CASE start
  <2>1. /\ started' \in BOOLEAN /\ dead' \in BOOLEAN
        /\ should_stop' \in BOOLEAN /\ quiet' \in BOOLEAN
        /\ capture_failed' \in BOOLEAN /\ told' \in BOOLEAN
        /\ unsent' \in BOOLEAN
    BY <1>3, Zenon DEF start
  <2>2. device' \in Values \cup {0, Automatic}
    BY <1>3 DEF start, Effective
  <2>3. left' \in 0 .. Buffers /\ queued' \in 0 .. Buffers
    BY <1>3 DEF start
  <2>4. QED BY <1>3, <2>1, <2>2, <2>3 DEF start
<1>4. CASE queueInitial
  BY <1>4 DEF queueInitial, Lifecycle, Requests, InHand
<1>5. CASE startDone BY <1>5 DEF startDone
<1>6. CASE startFailed
  <2>1. started' \in BOOLEAN /\ dead' \in BOOLEAN
    BY <1>6, Zenon DEF startFailed, lcamStop
  <2>2. QED BY <1>6, <2>1 DEF startFailed, lcamStop
<1>7. CASE stop BY <1>7 DEF stop
<1>8. CASE stopDone
  <2>1. started' \in BOOLEAN /\ dead' \in BOOLEAN
    BY <1>8, Zenon DEF stopDone, lcamStop
  <2>2. QED BY <1>8, <2>1 DEF stopDone, lcamStop
<1>9. ASSUME NEW v \in Values \cup {Automatic}, setControl(v) PROVE TypeOK'
  <2>1. auto' \in BOOLEAN BY <1>9, Zenon DEF setControl
  <2>2. value' \in Values \cup {0} /\ asked' \subseteq Values \cup {Automatic}
    BY <1>9 DEF setControl
  <2>3. loop' \in {"bump", "flag"} BY <1>9 DEF setControl
  <2>4. UNCHANGED <<state, should_stop, mapped, lcamVars, left, control,
                    hw_max, generation, ctlVars, cbVars, slotVars, readVars, wdVars>>
    BY <1>9 DEF setControl
  <2>5. QED BY <2>1, <2>2, <2>3, <2>4
<1>10. CASE setFlag
  <2>1. auto' \in BOOLEAN
    BY <1>10, Zenon DEF setFlag
  <2>2. QED BY <1>10, <2>1 DEF setFlag
<1>11. CASE bumpGeneration
  BY <1>11 DEF bumpGeneration, Lifecycle
<1>12. CASE onRequestComplete
  <2>1. quiet' \in BOOLEAN /\ told' \in BOOLEAN
    BY <1>12, Zenon DEF onRequestComplete
  <2>2. QED BY <1>12, <2>1 DEF onRequestComplete
<1>13. CASE clearLatch
  <2>1. capture_failed' \in BOOLEAN
    BY <1>13, Zenon DEF clearLatch
  <2>2. QED BY <1>13, <2>1 DEF clearLatch
<1>14. CASE publish
  BY <1>14 DEF publish, Slot
<1>15. CASE loadGeneration BY <1>15 DEF loadGeneration
<1>16. CASE loadFlag
  <2>1. Effective \in Values \cup {0, Automatic} BY DEF Effective
  <2>2. cbSet' \subseteq Values \cup {0, Automatic} BY <1>16, <2>1 DEF loadFlag
  <2>3. applied' \in 0 .. generation BY <1>16 DEF loadFlag
  <2>4. cb' \in {"queue", "value"} BY <1>16 DEF loadFlag
  <2>5. unsent' \in BOOLEAN BY <1>16, Zenon DEF loadFlag
  <2>6. QED BY <1>16, <2>2, <2>3, <2>4, <2>5 DEF loadFlag
<1>17. CASE loadValue
  <2>1. unsent' \in BOOLEAN BY <1>17, Zenon DEF loadValue
  <2>2. QED BY <1>17, <2>1 DEF loadValue
<1>18. CASE queueRequest
  <2>1. queued + 1 <= Buffers
    BY <1>18 DEF queueRequest, Lifecycle, Requests, InHand
  <2>2. device' \in Values \cup {0, Automatic}
    BY <1>18 DEF queueRequest
  <2>3. QED BY <1>18, <2>1, <2>2 DEF queueRequest
<1>19. CASE captureStalledForUs BY <1>19 DEF captureStalledForUs
<1>20. CASE markCaptureFailed
  <2>1. told' \in BOOLEAN
    BY <1>20, Zenon DEF markCaptureFailed
  <2>2. QED BY <1>20, <2>1 DEF markCaptureFailed
<1>21. ASSUME NEW s \in Consumers, getFrameForStreaming(s) PROVE TypeOK'
  <2>1. PICK m \in latest : got' = [got EXCEPT ![s] = m]
    BY <1>21 DEF getFrameForStreaming
  <2>2. m \in 0 .. MaxFrames OBVIOUS
  <2>3. /\ cursor' \in [Consumers -> 0 .. MaxFrames]
        /\ got' \in [Consumers -> 0 .. MaxFrames]
    BY <1>21, <2>1, <2>2 DEF getFrameForStreaming
  <2>4. QED BY <1>21, <2>3 DEF getFrameForStreaming
<1>22. CASE limitPasses BY <1>22 DEF limitPasses
<1>23. CASE frontendTimesOut BY <1>23 DEF frontendTimesOut
<1>24. CASE UNCHANGED vars BY <1>24 DEF vars
<1>25. QED
  BY <1>1, <1>2, <1>3, <1>4, <1>5, <1>6, <1>7, <1>8, <1>9, <1>10, <1>11,
     <1>12, <1>13, <1>14, <1>15, <1>16, <1>17, <1>18, <1>19, <1>20,
     <1>21, <1>22, <1>23, <1>24
  DEF Next, LoopThread, CompletionThread, Watchdog

LEMMA LifecycleStep == Inv /\ [Next]_vars => Lifecycle'
<1> SUFFICES ASSUME Inv, [Next]_vars PROVE Lifecycle'
  OBVIOUS
<1> USE CameraAssumption
<1> USE DEF Inv, TypeOK, Lifecycle, lcamVars, loopVars, setVars, ctlVars,
            cbVars, slotVars, readVars, wdVars
<1>1. CASE configure BY <1>1 DEF configure
<1>2. CASE unconfigure BY <1>2 DEF unconfigure
<1>3. CASE start BY <1>3 DEF start
<1>4. CASE queueInitial BY <1>4 DEF queueInitial
<1>5. CASE startDone BY <1>5 DEF startDone
<1>6. CASE startFailed BY <1>6 DEF startFailed, lcamStop
<1>7. CASE stop BY <1>7 DEF stop
<1>8. CASE stopDone BY <1>8 DEF stopDone, lcamStop
<1>9. ASSUME NEW v \in Values \cup {Automatic}, setControl(v) PROVE Lifecycle'
  BY <1>9 DEF setControl
<1>10. CASE setFlag BY <1>10 DEF setFlag
<1>11. CASE bumpGeneration BY <1>11 DEF bumpGeneration
<1>12. CASE onRequestComplete BY <1>12 DEF onRequestComplete
<1>13. CASE clearLatch BY <1>13 DEF clearLatch
<1>14. CASE publish BY <1>14 DEF publish
<1>15. CASE loadGeneration BY <1>15 DEF loadGeneration
<1>16. CASE loadFlag BY <1>16 DEF loadFlag
<1>17. CASE loadValue BY <1>17 DEF loadValue
<1>18. CASE queueRequest BY <1>18 DEF queueRequest
<1>19. CASE captureStalledForUs BY <1>19 DEF captureStalledForUs
<1>20. CASE markCaptureFailed BY <1>20 DEF markCaptureFailed
<1>21. ASSUME NEW s \in Consumers, getFrameForStreaming(s) PROVE Lifecycle'
  BY <1>21 DEF getFrameForStreaming
<1>22. CASE limitPasses BY <1>22 DEF limitPasses
<1>23. CASE frontendTimesOut BY <1>23 DEF frontendTimesOut
<1>24. CASE UNCHANGED vars BY <1>24 DEF vars
<1>25. QED
  BY <1>1, <1>2, <1>3, <1>4, <1>5, <1>6, <1>7, <1>8, <1>9, <1>10, <1>11,
     <1>12, <1>13, <1>14, <1>15, <1>16, <1>17, <1>18, <1>19, <1>20,
     <1>21, <1>22, <1>23, <1>24
  DEF Next, LoopThread, CompletionThread, Watchdog

LEMMA RequestsStep == Inv /\ [Next]_vars => Requests'
<1> SUFFICES ASSUME Inv, [Next]_vars PROVE Requests'
  OBVIOUS
<1> USE CameraAssumption
<1> USE DEF Inv, TypeOK, Lifecycle, Requests, InHand, lcamVars, loopVars,
            setVars, ctlVars, cbVars, slotVars, readVars, wdVars
<1>1. CASE configure BY <1>1 DEF configure
<1>2. CASE unconfigure BY <1>2 DEF unconfigure
<1>3. CASE start BY <1>3 DEF start
<1>4. CASE queueInitial BY <1>4 DEF queueInitial
<1>5. CASE startDone BY <1>5 DEF startDone
<1>6. CASE startFailed BY <1>6 DEF startFailed, lcamStop
<1>7. CASE stop BY <1>7 DEF stop
<1>8. CASE stopDone BY <1>8 DEF stopDone, lcamStop
<1>9. ASSUME NEW v \in Values \cup {Automatic}, setControl(v) PROVE Requests'
  BY <1>9 DEF setControl
<1>10. CASE setFlag BY <1>10 DEF setFlag
<1>11. CASE bumpGeneration BY <1>11 DEF bumpGeneration
<1>12. CASE onRequestComplete BY <1>12 DEF onRequestComplete
<1>13. CASE clearLatch BY <1>13 DEF clearLatch
<1>14. CASE publish BY <1>14 DEF publish
<1>15. CASE loadGeneration BY <1>15 DEF loadGeneration
<1>16. CASE loadFlag BY <1>16 DEF loadFlag
<1>17. CASE loadValue BY <1>17 DEF loadValue
<1>18. CASE queueRequest BY <1>18 DEF queueRequest
<1>19. CASE captureStalledForUs BY <1>19 DEF captureStalledForUs
<1>20. CASE markCaptureFailed BY <1>20 DEF markCaptureFailed
<1>21. ASSUME NEW s \in Consumers, getFrameForStreaming(s) PROVE Requests'
  BY <1>21 DEF getFrameForStreaming
<1>22. CASE limitPasses BY <1>22 DEF limitPasses
<1>23. CASE frontendTimesOut BY <1>23 DEF frontendTimesOut
<1>24. CASE UNCHANGED vars BY <1>24 DEF vars
<1>25. QED
  BY <1>1, <1>2, <1>3, <1>4, <1>5, <1>6, <1>7, <1>8, <1>9, <1>10, <1>11,
     <1>12, <1>13, <1>14, <1>15, <1>16, <1>17, <1>18, <1>19, <1>20,
     <1>21, <1>22, <1>23, <1>24
  DEF Next, LoopThread, CompletionThread, Watchdog

LEMMA SlotStep == Inv /\ [Next]_vars => Slot'
<1> SUFFICES ASSUME Inv, [Next]_vars PROVE Slot'
  OBVIOUS
<1> USE CameraAssumption
<1> USE DEF Inv, TypeOK, Slot, lcamVars, loopVars, setVars, ctlVars, cbVars,
            slotVars, readVars, wdVars
<1>1. CASE configure BY <1>1 DEF configure
<1>2. CASE unconfigure BY <1>2 DEF unconfigure
<1>3. CASE start BY <1>3 DEF start
<1>4. CASE queueInitial BY <1>4 DEF queueInitial
<1>5. CASE startDone BY <1>5 DEF startDone
<1>6. CASE startFailed BY <1>6 DEF startFailed, lcamStop
<1>7. CASE stop BY <1>7 DEF stop
<1>8. CASE stopDone BY <1>8 DEF stopDone, lcamStop
<1>9. ASSUME NEW v \in Values \cup {Automatic}, setControl(v) PROVE Slot'
  BY <1>9 DEF setControl
<1>10. CASE setFlag BY <1>10 DEF setFlag
<1>11. CASE bumpGeneration BY <1>11 DEF bumpGeneration
<1>12. CASE onRequestComplete BY <1>12 DEF onRequestComplete
<1>13. CASE clearLatch BY <1>13 DEF clearLatch
<1>14. CASE publish BY <1>14 DEF publish
<1>15. CASE loadGeneration BY <1>15 DEF loadGeneration
<1>16. CASE loadFlag BY <1>16 DEF loadFlag
<1>17. CASE loadValue BY <1>17 DEF loadValue
<1>18. CASE queueRequest BY <1>18 DEF queueRequest
<1>19. CASE captureStalledForUs BY <1>19 DEF captureStalledForUs
<1>20. CASE markCaptureFailed BY <1>20 DEF markCaptureFailed
<1>21. ASSUME NEW s \in Consumers, getFrameForStreaming(s) PROVE Slot'
  <2>1. PICK m \in latest : got' = [got EXCEPT ![s] = m]
    BY <1>21 DEF getFrameForStreaming
  <2>2. \A n \in latest : n = m BY <2>1
  <2>3. cursor' = [cursor EXCEPT ![s] = latest_seq]
    BY <1>21 DEF getFrameForStreaming
  <2>4. UNCHANGED <<latest, latest_seq, frames, cb>>
    BY <1>21 DEF getFrameForStreaming
  <2>5. QED BY <2>1, <2>2, <2>3, <2>4
<1>22. CASE limitPasses BY <1>22 DEF limitPasses
<1>23. CASE frontendTimesOut BY <1>23 DEF frontendTimesOut
<1>24. CASE UNCHANGED vars BY <1>24 DEF vars
<1>25. QED
  BY <1>1, <1>2, <1>3, <1>4, <1>5, <1>6, <1>7, <1>8, <1>9, <1>10, <1>11,
     <1>12, <1>13, <1>14, <1>15, <1>16, <1>17, <1>18, <1>19, <1>20,
     <1>21, <1>22, <1>23, <1>24
  DEF Next, LoopThread, CompletionThread, Watchdog

LEMMA AskedStep == Inv /\ [Next]_vars => Asked'
<1> SUFFICES ASSUME Inv, [Next]_vars PROVE Asked'
  OBVIOUS
<1> USE CameraAssumption
<1> USE DEF Inv, TypeOK, Asked, Effective, lcamVars, loopVars, setVars,
            ctlVars, cbVars, slotVars, readVars, wdVars
<1>1. CASE configure BY <1>1 DEF configure
<1>2. CASE unconfigure BY <1>2 DEF unconfigure
<1>3. CASE start BY <1>3 DEF start
<1>4. CASE queueInitial BY <1>4 DEF queueInitial
<1>5. CASE startDone BY <1>5 DEF startDone
<1>6. CASE startFailed BY <1>6 DEF startFailed, lcamStop
<1>7. CASE stop BY <1>7 DEF stop
<1>8. CASE stopDone BY <1>8 DEF stopDone, lcamStop
<1>9. ASSUME NEW v \in Values \cup {Automatic}, setControl(v) PROVE Asked'
  BY <1>9 DEF setControl
<1>10. CASE setFlag BY <1>10 DEF setFlag
<1>11. CASE bumpGeneration BY <1>11 DEF bumpGeneration
<1>12. CASE onRequestComplete BY <1>12 DEF onRequestComplete
<1>13. CASE clearLatch BY <1>13 DEF clearLatch
<1>14. CASE publish BY <1>14 DEF publish
<1>15. CASE loadGeneration BY <1>15 DEF loadGeneration
<1>16. CASE loadFlag BY <1>16 DEF loadFlag
<1>17. CASE loadValue BY <1>17 DEF loadValue
<1>18. CASE queueRequest BY <1>18 DEF queueRequest
<1>19. CASE captureStalledForUs BY <1>19 DEF captureStalledForUs
<1>20. CASE markCaptureFailed BY <1>20 DEF markCaptureFailed
<1>21. ASSUME NEW s \in Consumers, getFrameForStreaming(s) PROVE Asked'
  BY <1>21 DEF getFrameForStreaming
<1>22. CASE limitPasses BY <1>22 DEF limitPasses
<1>23. CASE frontendTimesOut BY <1>23 DEF frontendTimesOut
<1>24. CASE UNCHANGED vars BY <1>24 DEF vars
<1>25. QED
  BY <1>1, <1>2, <1>3, <1>4, <1>5, <1>6, <1>7, <1>8, <1>9, <1>10, <1>11,
     <1>12, <1>13, <1>14, <1>15, <1>16, <1>17, <1>18, <1>19, <1>20,
     <1>21, <1>22, <1>23, <1>24
  DEF Next, LoopThread, CompletionThread, Watchdog

LEMMA LoadsStep == Inv /\ [Next]_vars => Loads'
<1> SUFFICES ASSUME Inv, [Next]_vars PROVE Loads'
  OBVIOUS
<1> USE CameraAssumption
<1> USE DEF Inv, TypeOK, Lifecycle, Loads, Setting, Effective, Released,
            lcamVars, loopVars, setVars, ctlVars, cbVars, slotVars,
            readVars, wdVars
<1>1. CASE configure BY <1>1 DEF configure
<1>2. CASE unconfigure BY <1>2 DEF unconfigure
<1>3. CASE start
  <2>1. UNCHANGED <<control, auto, value, generation, cb, cbGen, cbSet>>
    BY <1>3 DEF start
  <2>2. cb = "idle" /\ cbSet = {} BY <1>3 DEF start
  <2>3. applied' = generation /\ loop = "idle" BY <1>3 DEF start
  <2>4. unsent' => Released BY <1>3 DEF start
  <2>5. started' /\ ~Released => device' = Effective
    BY <1>3 DEF start
  <2>6. Released /\ ~unsent' => device' = Effective
    BY <1>3 DEF start
  <2>7. QED BY <2>1, <2>2, <2>3, <2>4, <2>5, <2>6
<1>4. CASE queueInitial BY <1>4 DEF queueInitial
<1>5. CASE startDone BY <1>5 DEF startDone
<1>6. CASE startFailed BY <1>6 DEF startFailed, lcamStop
<1>7. CASE stop BY <1>7 DEF stop
<1>8. CASE stopDone BY <1>8 DEF stopDone, lcamStop
<1>9. ASSUME NEW v \in Values \cup {Automatic}, setControl(v) PROVE Loads'
  BY <1>9 DEF setControl
<1>10. CASE setFlag BY <1>10 DEF setFlag
<1>11. CASE bumpGeneration BY <1>11 DEF bumpGeneration
<1>12. CASE onRequestComplete BY <1>12 DEF onRequestComplete
<1>13. CASE clearLatch BY <1>13 DEF clearLatch
<1>14. CASE publish BY <1>14 DEF publish
<1>15. CASE loadGeneration BY <1>15 DEF loadGeneration
<1>16. CASE loadFlag BY <1>16 DEF loadFlag
<1>17. CASE loadValue BY <1>17 DEF loadValue
<1>18. CASE queueRequest BY <1>18 DEF queueRequest
<1>19. CASE captureStalledForUs BY <1>19 DEF captureStalledForUs
<1>20. CASE markCaptureFailed BY <1>20 DEF markCaptureFailed
<1>21. ASSUME NEW s \in Consumers, getFrameForStreaming(s) PROVE Loads'
  BY <1>21 DEF getFrameForStreaming
<1>22. CASE limitPasses BY <1>22 DEF limitPasses
<1>23. CASE frontendTimesOut BY <1>23 DEF frontendTimesOut
<1>24. CASE UNCHANGED vars BY <1>24 DEF vars
<1>25. QED
  BY <1>1, <1>2, <1>3, <1>4, <1>5, <1>6, <1>7, <1>8, <1>9, <1>10, <1>11,
     <1>12, <1>13, <1>14, <1>15, <1>16, <1>17, <1>18, <1>19, <1>20,
     <1>21, <1>22, <1>23, <1>24
  DEF Next, LoopThread, CompletionThread, Watchdog

(* The whole invariant holds throughout. *)
THEOREM CameraInvariant == Spec => []Inv
<1>1. Inv /\ [Next]_vars => Inv'
  BY TypeStep, LifecycleStep, RequestsStep, SlotStep, AskedStep, LoadsStep
  DEF Inv
<1>2. QED BY InvInit, <1>1, PTL DEF Spec

(***************************************************************************)
(* What the invariant means for the camera.                                *)
(***************************************************************************)

(* Every variable of the camera holds a value the code can give it.        *)
THEOREM CameraTypes == Spec => []TypeOK
<1>1. Inv => TypeOK BY DEF Inv
<1>2. QED BY CameraInvariant, <1>1, PTL

(* onRequestComplete copies out of mapped memory only: libcamera runs, and *)
(* with it the callback, only in states in which unconfigure is refused.   *)
THEOREM CallbackMemory == Spec => []BuffersMapped
<1>1. Inv => BuffersMapped BY DEF Inv, Lifecycle, BuffersMapped
<1>2. QED BY CameraInvariant, <1>1, PTL

(* The buffer pool never drains: while the camera runs, every request is   *)
(* queued or in the callback's hands, however starts and stops went.       *)
THEOREM NoRequestLeaks == Spec => []RequestsConserved
<1>1. Inv => RequestsConserved
  BY CameraAssumption
  DEF Inv, TypeOK, Lifecycle, Requests, InHand, RequestsConserved
<1>2. QED BY CameraInvariant, <1>1, PTL

(* libcamera is never given a value that no client asked for, in whichever *)
(* order the setter's stores and the callback's loads fall.                *)
THEOREM NoTornSetting == Spec => []OnlyAsked
<1>1. Inv => OnlyAsked BY DEF Inv, Asked, OnlyAsked
<1>2. QED BY CameraInvariant, <1>1, PTL

(* A callback that is up to date with the generation has handed libcamera  *)
(* the setting in force: loading the generation first loses no update, the *)
(* release of a frame duration while the camera runs included.  The one    *)
(* exception is recorded in unsent: a release that was pending when start  *)
(* came, or of a camera of unknown range, as long as nothing else is set.  *)
THEOREM NoLostSetting == Spec => []ControlsConverge
<1>1. Inv => ControlsConverge
  BY DEF Inv, TypeOK, Loads, Setting, ControlsConverge
<1>2. QED BY CameraInvariant, <1>1, PTL

(* Only getFrameForStreaming moves a cursor. *)
LEMMA ReadersAlone ==
  [Next]_vars /\ ~(\E s \in Consumers : getFrameForStreaming(s))
    => UNCHANGED readVars
BY DEF Next, LoopThread, CompletionThread, Watchdog, vars,
       lcamVars, loopVars, setVars, ctlVars, cbVars, slotVars, wdVars,
       configure, unconfigure, start, queueInitial, startDone, startFailed,
       stop, stopDone, setControl, setFlag, bumpGeneration,
       onRequestComplete, clearLatch, publish, loadGeneration, loadFlag,
       loadValue, queueRequest, captureStalledForUs, markCaptureFailed,
       limitPasses, frontendTimesOut

(* A streaming thread that gets a frame gets a newer one than it had, also *)
(* across a stop that empties the slot.                                    *)
THEOREM StreamersMoveForward == Spec => ConsumersMoveForward
<1>1. Inv /\ [Next]_vars =>
        [\A s \in Consumers : cursor'[s] # cursor[s] => got'[s] > got[s]]_vars
  <2> SUFFICES ASSUME Inv, [Next]_vars,
                      NEW s \in Consumers, cursor'[s] # cursor[s]
               PROVE  got'[s] > got[s]
    OBVIOUS
  <2>1. PICK t \in Consumers : getFrameForStreaming(t)
    BY ReadersAlone DEF readVars
  <2>2. PICK n \in latest : got' = [got EXCEPT ![t] = n]
    BY <2>1 DEF getFrameForStreaming
  <2>3. cursor' = [cursor EXCEPT ![t] = latest_seq] /\ latest_seq > cursor[t]
    BY <2>1 DEF getFrameForStreaming
  <2>4. s = t BY <2>3 DEF Inv, TypeOK
  <2>5. QED
    BY <2>2, <2>3, <2>4, CameraAssumption DEF Inv, TypeOK, Slot
<1>2. QED BY CameraInvariant, <1>1, PTL DEF Spec, ConsumersMoveForward
=============================================================================
