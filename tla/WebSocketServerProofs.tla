----------------------- MODULE WebSocketServerProofs -----------------------
(***************************************************************************)
(* Proofs about the control plane, for any number of cameras and sockets.  *)
(***************************************************************************)
EXTENDS WebSocketServer, SequenceTheorems, TLAPS

(***************************************************************************)
(* Types.  The watchdog defers only through a sink it has been given.      *)
(***************************************************************************)
TypeInv == TypeOK /\ (wdPc = "defer" => wdSink \in Conns)

(* What deferring a send does to the queue: nothing, or one more element. *)
LEMMA DeferType ==
  ASSUME TypeOK, NEW q \in Seq(Deferred), NEW id, NEW r \in Roles,
         NEW body \in SUBSET StateMessages
  PROVE  Defer(q, id, r, body) \in Seq(Deferred)
<1>1. CASE id \in valid
  <2>1. id \in Conns BY <1>1 DEF TypeOK
  <2>2. [sink |-> id, role |-> r, body |-> body] \in Deferred
    BY <2>1 DEF Deferred
  <2>3. QED BY <1>1, <2>2 DEF Defer
<1>2. CASE id \notin valid BY <1>2 DEF Defer
<1>3. QED BY <1>1, <1>2

LEMMA StateMessageType ==
  ASSUME NEW st \in CameraState, NEW con \in [Roles -> BOOLEAN]
  PROVE  stateMessage(st, con) \in StateMessages
BY DEF stateMessage, StateMessages, Roles

LEMMA BroadcastType ==
  ASSUME TypeOK, NEW m \in StateMessages, broadcastState(m)
  PROVE  deferQ' \in Seq(Deferred)
<1>1. pushStateTo(deferQ, "COMMANDER", m) \in Seq(Deferred)
  BY DeferType DEF pushStateTo, TypeOK, Roles
<1>2. QED
  BY <1>1, DeferType DEF pushStateTo, broadcastState, Roles

LEMMA TypeInit == Init => TypeInv
BY ServerAssumption, SMTT(30)
DEF Init, TypeInv, TypeOK, CameraState, LoopOps, Roles, Cameras

LEMMA TypeStep == TypeInv /\ [Next]_vars => TypeInv'
<1> SUFFICES ASSUME TypeInv, [Next]_vars PROVE TypeInv'
  OBVIOUS
<1> USE ServerAssumption
<1> USE DEF TypeInv, TypeOK, camVars, procVars, loopVars, connVars, streamVars,
            outVars, wdVars, Goto, GotoCamera, Return, Cameras
<1>1. ASSUME NEW r \in Roles, open(r) PROVE TypeInv'
  <2>1. otherRole(r) \in Roles BY DEF otherRole, Roles
  <2>2. PICK id \in Conns \ InUse :
          /\ connected' = [connected EXCEPT ![r] = TRUE]
          /\ alive' = alive \cup {id} /\ valid' = valid \cup {id}
          /\ sink' = [sink EXCEPT ![r] = id]
          /\ streamSink' = [streamSink EXCEPT ![r] = id]
          /\ deferQ' = pushStateTo(deferQ, otherRole(r),
                stateMessage(system_state, [connected EXCEPT ![r] = TRUE]))
    BY <1>1 DEF open
  <2>3. deferQ' \in Seq(Deferred)
    <3> DEFINE con == [connected EXCEPT ![r] = TRUE]
    <3>1. con \in [Roles -> BOOLEAN] OBVIOUS
    <3> HIDE DEF con
    <3>2. {stateMessage(system_state, con)} \in SUBSET StateMessages
      BY <3>1, StateMessageType
    <3>3. Defer(deferQ, sink[otherRole(r)], otherRole(r),
                {stateMessage(system_state, con)}) \in Seq(Deferred)
      BY <2>1, <3>2, DeferType
    <3>4. QED BY <2>2, <3>3 DEF pushStateTo, con
  <2>4. QED BY <1>1, <2>2, <2>3 DEF open, LoopOps
<1>2. ASSUME NEW r \in Roles, close(r) PROVE TypeInv'
  BY <1>2 DEF close, LoopOps
<1>3. CASE clearSink BY <1>3 DEF clearSink, LoopOps
<1>4. CASE cleanupConnection BY <1>4 DEF cleanupConnection, LoopOps
<1>5. CASE closeSlot
  <2>1. otherRole(loopRole) \in Roles BY DEF otherRole, Roles
  <2>2. deferQ' \in Seq(Deferred)
    <3> DEFINE con == [connected EXCEPT ![loopRole] = FALSE]
    <3>1. con \in [Roles -> BOOLEAN] OBVIOUS
    <3>2. deferQ' = pushStateTo(deferQ, otherRole(loopRole),
                                stateMessage(system_state, con))
      BY <1>5 DEF closeSlot
    <3> HIDE DEF con
    <3>3. {stateMessage(system_state, con)} \in SUBSET StateMessages
      BY <3>1, StateMessageType
    <3>4. Defer(deferQ, sink[otherRole(loopRole)], otherRole(loopRole),
                {stateMessage(system_state, con)}) \in Seq(Deferred)
      BY <2>1, <3>3, DeferType
    <3>5. QED BY <3>2, <3>4 DEF pushStateTo
  <2>3. QED BY <1>5, <2>2 DEF closeSlot, LoopOps, Roles
<1>6. ASSUME NEW r \in Roles, handleDiscover(r) PROVE TypeInv'
  BY <1>6 DEF handleDiscover
<1>7. ASSUME NEW r \in Roles, handleGetState(r) PROVE TypeInv'
  BY <1>7, StateMessageType DEF handleGetState
<1>8. ASSUME NEW r \in Roles, handleConfigure(r) PROVE TypeInv'
  <2>1. deferQ' \in Seq(Deferred)
    BY <1>8, StateMessageType, BroadcastType DEF handleConfigure, CameraState
  <2>2. QED BY <1>8, <2>1 DEF handleConfigure, configureAll, CameraState
<1>9. ASSUME NEW r \in Roles, handleUnconfigure(r) PROVE TypeInv'
  <2>1. deferQ' \in Seq(Deferred)
    BY <1>9, StateMessageType, BroadcastType DEF handleUnconfigure, CameraState
  <2>2. QED BY <1>9, <2>1 DEF handleUnconfigure, CameraState
<1>10. ASSUME NEW r \in Roles, handleSetProcessMode(r) PROVE TypeInv'
  BY <1>10 DEF handleSetProcessMode
<1>11. ASSUME NEW r \in Roles, handleStartCameras(r) PROVE TypeInv'
  <2>1. enabled' \in BOOLEAN /\ callback' \in BOOLEAN
    BY <1>11, Zenon DEF handleStartCameras
  <2>2. QED BY <1>11, <2>1 DEF handleStartCameras, LoopOps, Roles
<1>12. ASSUME NEW r \in Roles, handleStopCameras(r) PROVE TypeInv'
  BY <1>12 DEF handleStopCameras, LoopOps, Roles
<1>13. CASE startCamera BY <1>13 DEF startCamera, LoopOps, Roles, CameraState
<1>14. CASE startDone
  <2>1. deferQ' \in Seq(Deferred)
    BY <1>14, StateMessageType, BroadcastType DEF startDone, CameraState
  <2>2. watchdog_stop' \in BOOLEAN BY <1>14, Zenon DEF startDone
  <2>3. QED BY <1>14, <2>1, <2>2 DEF startDone, LoopOps, Roles, CameraState
<1>15. CASE startFailed
  <2>1. enabled' \in BOOLEAN BY <1>15, Zenon DEF startFailed
  <2>2. QED BY <1>15, <2>1 DEF startFailed, LoopOps, Roles
<1>16. CASE joinWatchdog BY <1>16 DEF joinWatchdog, LoopOps, Roles
<1>17. CASE stopCamera BY <1>17 DEF stopCamera, LoopOps, Roles, CameraState
<1>18. CASE stopDone
  <2>1. deferQ' \in Seq(Deferred)
    BY <1>18, StateMessageType, BroadcastType DEF stopDone, CameraState
  <2>2. enabled' \in BOOLEAN BY <1>18, Zenon DEF stopDone
  <2>3. QED BY <1>18, <2>1, <2>2 DEF stopDone, LoopOps, Roles, CameraState
<1>19. ASSUME NEW r \in Roles, NEW c \in Cameras, handleStartStream(r, c)
       PROVE TypeInv'
  BY <1>19 DEF handleStartStream
<1>20. ASSUME NEW r \in Roles, NEW c \in Cameras, handleStopStream(r, c)
       PROVE TypeInv'
  BY <1>20 DEF handleStopStream
<1>21. ASSUME NEW r \in Roles, streamSend(r) PROVE TypeInv'
  BY <1>21, DeferType DEF streamSend
<1>22. CASE runDeferred
  <2>1. Head(deferQ) \in Deferred /\ Tail(deferQ) \in Seq(Deferred)
    BY <1>22 DEF runDeferred
  <2>2. QED BY <1>22, <2>1 DEF runDeferred, wsSend, Deferred
<1>23. CASE captureWatchdogLoop BY <1>23 DEF captureWatchdogLoop, Roles
<1>24. CASE reportSink BY <1>24 DEF reportSink, WdNext, otherRole, Roles
<1>25. CASE reportDefer
  BY <1>25 DEF reportDefer, WdNext, otherRole, Roles, Deferred
<1>26. CASE UNCHANGED vars BY <1>26 DEF vars
<1>27. QED
  BY <1>1, <1>2, <1>3, <1>4, <1>5, <1>6, <1>7, <1>8, <1>9, <1>10, <1>11, <1>12,
     <1>13, <1>14, <1>15, <1>16, <1>17, <1>18, <1>19, <1>20, <1>21, <1>22,
     <1>23, <1>24, <1>25, <1>26
  DEF Next, Connection, Command, Continue, Watchdog

(* Every variable keeps its type, whatever the clients, the cameras and    *)
(* the threads do.                                                         *)
THEOREM TypeCorrect == Spec => []TypeOK
<1>1. Spec => []TypeInv BY TypeInit, TypeStep, PTL DEF Spec
<1>2. QED BY <1>1, PTL DEF TypeInv
-----------------------------------------------------------------------------
(***************************************************************************)
(* The pipeline.  StateAgreement speaks of the loop thread at rest; what   *)
(* makes it inductive is what each walk over the cameras has already done: *)
(* the cameras below loopCam are in their new state, the others still in   *)
(* the old one, and no watchdog looks on.                                  *)
(***************************************************************************)
Walking == loopOp \in {"starting", "unwinding", "stopping"}

Agrees(c) ==
  /\ system_state = "RUNNING" => camState[c] = "RUNNING"
  /\ system_state = "CONFIGURED" => camState[c] = "CONFIGURED"
  /\ system_state = "IDLE" => camState[c] # "RUNNING"

StartWalk ==
  loopOp = "starting" =>
    /\ system_state = "CONFIGURED"
    /\ \A c \in 0 .. cams - 1 :
         camState[c] = IF c < loopCam THEN "RUNNING" ELSE "CONFIGURED"

UnwindWalk ==
  loopOp = "unwinding" =>
    /\ system_state = "CONFIGURED"
    /\ \A c \in 0 .. cams - 1 :
         \/ camState[c] = "CONFIGURED"
         \/ c >= loopCam /\ camState[c] = "RUNNING"

StopWalk ==
  loopOp = "stopping" =>
    /\ system_state = "RUNNING"
    /\ \A c \in 0 .. cams - 1 :
         camState[c] = IF c < loopCam THEN "CONFIGURED" ELSE "RUNNING"

PipelineInv ==
  /\ \A c \in Cameras : c >= cams => camState[c] = "IDLE"
  /\ cams = 0 => system_state = "IDLE"
  /\ ~Walking => \A c \in 0 .. cams - 1 : Agrees(c)
  /\ Walking => loopCam <= cams
  /\ StartWalk /\ UnwindWalk /\ StopWalk
  /\ loopOp = "joining" => system_state = "RUNNING"
  /\ wdPc # "off" => system_state = "RUNNING" /\ ~Walking
  /\ enabled /\ system_state # "RUNNING" => loopOp \in {"starting", "unwinding"}

LEMMA PipelineInit == Init => PipelineInv
BY ServerAssumption DEF Init, PipelineInv, Walking, Agrees, StartWalk,
   UnwindWalk, StopWalk, Cameras

(* Steps that leave the cameras, the handler's walk and the watchdog be.   *)
LEMMA PipelineFrame ==
  ASSUME TypeInv, PipelineInv,
         UNCHANGED <<system_state, cams, camState, enabled, loopOp, loopCam>>,
         wdPc' = "off" \/ wdPc # "off"
  PROVE  PipelineInv'
BY DEF PipelineInv, Walking, Agrees, StartWalk, UnwindWalk, StopWalk, Cameras

LEMMA PipelineStep == TypeInv /\ TypeInv' /\ PipelineInv /\ [Next]_vars => PipelineInv'
<1> SUFFICES ASSUME TypeInv, TypeInv', PipelineInv, [Next]_vars PROVE PipelineInv'
  OBVIOUS
<1> USE ServerAssumption
<1> USE DEF camVars, procVars, loopVars, connVars, streamVars, outVars, wdVars
<1> DEFINE Steady == /\ UNCHANGED <<system_state, cams, camState, enabled>>
                     /\ UNCHANGED <<wdPc>>
<1>0. ASSUME Steady, ~Walking, ~Walking', loopOp' # "joining"
      PROVE PipelineInv'
  BY <1>0 DEF PipelineInv, Walking, Agrees, StartWalk, UnwindWalk, StopWalk, Cameras
<1>1. ASSUME NEW r \in Roles, open(r) PROVE PipelineInv'
  BY <1>1, PipelineFrame DEF open
<1>2. ASSUME NEW r \in Roles, close(r) PROVE PipelineInv'
  BY <1>2, <1>0 DEF close, Goto, Walking
<1>3. CASE clearSink BY <1>3, <1>0 DEF clearSink, Goto, Walking
<1>4. CASE cleanupConnection BY <1>4, <1>0 DEF cleanupConnection, Goto, Walking
<1>5. CASE closeSlot
  BY <1>5, <1>0 DEF closeSlot, Return, GotoCamera, Goto, Walking
<1>6. ASSUME NEW r \in Roles, handleDiscover(r) PROVE PipelineInv'
  <2>1. /\ system_state = "IDLE" /\ cams = 0 /\ loopOp = "poll"
        /\ UNCHANGED <<system_state, camState, enabled, loopOp, wdPc>>
    BY <1>6 DEF handleDiscover, Dispatch, PipelineInv
  <2>2. \A c \in Cameras : camState'[c] = "IDLE"
    BY <2>1 DEF PipelineInv, Cameras
  <2>3. cams' \in 0 .. NumCameras BY DEF TypeInv, TypeOK
  <2>4. \A c \in 0 .. cams' - 1 : camState'[c] = "IDLE"
    <3>1. \A k \in 0 .. NumCameras : 0 .. k - 1 \subseteq Cameras BY DEF Cameras
    <3>2. QED BY <2>2, <2>3, <3>1
  <2>5. QED
    BY <2>1, <2>2, <2>4 DEF PipelineInv, Walking, Agrees, StartWalk, UnwindWalk,
       StopWalk
<1>7. ASSUME NEW r \in Roles, handleGetState(r) PROVE PipelineInv'
  BY <1>7, PipelineFrame DEF handleGetState
<1>8. ASSUME NEW r \in Roles, handleConfigure(r) PROVE PipelineInv'
  BY <1>8 DEF handleConfigure, configureAll, Dispatch, isCommandAllowed,
     PipelineInv, Walking, Agrees, StartWalk, UnwindWalk, StopWalk, Cameras,
     TypeInv, TypeOK
<1>9. ASSUME NEW r \in Roles, handleUnconfigure(r) PROVE PipelineInv'
  BY <1>9 DEF handleUnconfigure, Dispatch, isCommandAllowed, PipelineInv,
     Walking, Agrees, StartWalk, UnwindWalk, StopWalk, Cameras, TypeInv, TypeOK
<1>10. ASSUME NEW r \in Roles, handleSetProcessMode(r) PROVE PipelineInv'
  BY <1>10, PipelineFrame DEF handleSetProcessMode
<1>11. ASSUME NEW r \in Roles, handleStartCameras(r) PROVE PipelineInv'
  BY <1>11 DEF handleStartCameras, Dispatch, isCommandAllowed, GotoCamera, Goto,
     PipelineInv, Walking, Agrees, StartWalk, UnwindWalk, StopWalk, Cameras,
     TypeInv, TypeOK
<1>12. ASSUME NEW r \in Roles, handleStopCameras(r) PROVE PipelineInv'
  BY <1>12 DEF handleStopCameras, Dispatch, isCommandAllowed, GotoCamera, Goto,
     PipelineInv, Walking, Agrees, StartWalk, UnwindWalk, StopWalk, Cameras
<1>13. CASE startCamera
  BY <1>13 DEF startCamera, GotoCamera, Goto, PipelineInv, Walking, Agrees,
     StartWalk, UnwindWalk, StopWalk, Cameras, TypeInv, TypeOK
<1>14. CASE startDone
  BY <1>14 DEF startDone, Return, GotoCamera, Goto, PipelineInv, Walking, Agrees,
     StartWalk, UnwindWalk, StopWalk, Cameras, TypeInv, TypeOK
<1>15. CASE startFailed
  BY <1>15 DEF startFailed, Return, GotoCamera, Goto, PipelineInv, Walking,
     Agrees, StartWalk, UnwindWalk, StopWalk, Cameras, TypeInv, TypeOK
<1>16. CASE joinWatchdog
  BY <1>16 DEF joinWatchdog, GotoCamera, Goto, PipelineInv, Walking, Agrees,
     StartWalk, UnwindWalk, StopWalk, Cameras, TypeInv, TypeOK
<1>17. CASE stopCamera
  BY <1>17 DEF stopCamera, GotoCamera, Goto, PipelineInv, Walking, Agrees,
     StartWalk, UnwindWalk, StopWalk, Cameras, TypeInv, TypeOK
<1>18. CASE stopDone
  BY <1>18 DEF stopDone, Return, GotoCamera, Goto, PipelineInv, Walking, Agrees,
     StartWalk, UnwindWalk, StopWalk, Cameras, TypeInv, TypeOK
<1>19. ASSUME NEW r \in Roles, NEW c \in Cameras, handleStartStream(r, c)
       PROVE PipelineInv'
  BY <1>19, PipelineFrame DEF handleStartStream
<1>20. ASSUME NEW r \in Roles, NEW c \in Cameras, handleStopStream(r, c)
       PROVE PipelineInv'
  BY <1>20, PipelineFrame DEF handleStopStream
<1>21. ASSUME NEW r \in Roles, streamSend(r) PROVE PipelineInv'
  BY <1>21, PipelineFrame DEF streamSend
<1>22. CASE runDeferred BY <1>22, PipelineFrame DEF runDeferred
<1>23. CASE captureWatchdogLoop
  BY <1>23, PipelineFrame DEF captureWatchdogLoop
<1>24. CASE reportSink BY <1>24, PipelineFrame DEF reportSink, WdNext
<1>25. CASE reportDefer BY <1>25, PipelineFrame DEF reportDefer, WdNext
<1>26. CASE UNCHANGED vars BY <1>26, PipelineFrame DEF vars
<1>27. QED
  BY <1>1, <1>2, <1>3, <1>4, <1>5, <1>6, <1>7, <1>8, <1>9, <1>10, <1>11, <1>12,
     <1>13, <1>14, <1>15, <1>16, <1>17, <1>18, <1>19, <1>20, <1>21, <1>22,
     <1>23, <1>24, <1>25, <1>26
  DEF Next, Connection, Command, Continue, Watchdog

LEMMA PipelineInvariant == Spec => [](TypeInv /\ PipelineInv)
<1>1. TypeInv /\ PipelineInv /\ [Next]_vars => (TypeInv /\ PipelineInv)'
  BY TypeStep, PipelineStep
<1>2. QED BY TypeInit, PipelineInit, <1>1, PTL DEF Spec

(* Whenever the loop thread is at rest, the system state says what every   *)
(* discovered camera is doing, failed starts and configures included.      *)
THEOREM StateAgrees == Spec => []StateAgreement
<1>1. PipelineInv => StateAgreement
  BY DEF PipelineInv, Walking, Agrees, StateAgreement
<1>2. QED BY PipelineInvariant, <1>1, PTL

(* The capture watchdog thread is never alive while a camera is being      *)
(* started or stopped, so an orderly stop is never reported as a stall.    *)
THEOREM WatchdogSeesOnlyRunning == Spec => []WatchdogOnlyWhileRunning
<1>1. PipelineInv => WatchdogOnlyWhileRunning
  BY DEF PipelineInv, Walking, Agrees, WatchdogOnlyWhileRunning
<1>2. QED BY PipelineInvariant, <1>1, PTL

(* An infeasible or failed start never leaves the frame processor enabled. *)
THEOREM SessionsEnd == Spec => []NoLeakedSession
<1>1. PipelineInv => NoLeakedSession
  BY DEF PipelineInv, NoLeakedSession
<1>2. QED BY PipelineInvariant, <1>1, PTL
-----------------------------------------------------------------------------
(***************************************************************************)
(* The sockets.  valid \subseteq alive is preserved by the freeing of a    *)
(* socket only because close has invalidated its sink by then, and no sink *)
(* is shared by the two roles; the raw pointer of a stream goes before the *)
(* sink it points to.                                                      *)
(***************************************************************************)
Closing(r) == loopOp \in {"closeSink", "closeSlot"} /\ loopRole = r

SinkInv ==
  /\ valid \subseteq alive /\ sentFreed = {}
  /\ \A r \in Roles :
       /\ sink[r] # NoConn => sink[r] \in valid
       /\ sink[r] # NoConn => sink[otherRole(r)] # sink[r]
       /\ ~connected[r] => sink[r] = NoConn
       /\ streamSink[r] # NoConn => streamSink[r] = sink[r]
  /\ loopOp \in {"closing", "closeSink", "closeSlot"} => connected[loopRole]
  /\ loopOp = "closeSink" => streamSink[loopRole] = NoConn
  /\ loopOp = "closeSlot" => sink[loopRole] = NoConn /\ loopConn \notin valid

StreamInv ==
  /\ \A r \in Roles :
       /\ connected[r] /\ ~Closing(r) => streamSink[r] # NoConn
       /\ Closing(r) => subs[r] = {}
       /\ subs[r] # {} => /\ streaming_active[r] /\ connected[r]
                          /\ \A c \in subs[r] : c < cams
  /\ subs["COMMANDER"] # {} => system_state = "RUNNING" /\ loopOp # "stopping"

LEMMA SocketInit == Init => SinkInv /\ StreamInv
BY DEF Init, SinkInv, StreamInv, Closing, Roles

LEMMA SinkStep == TypeInv /\ SinkInv /\ [Next]_vars => SinkInv'
<1> SUFFICES ASSUME TypeInv, SinkInv, [Next]_vars PROVE SinkInv'
  OBVIOUS
<1> USE ServerAssumption
<1> USE DEF camVars, procVars, loopVars, connVars, streamVars, outVars, wdVars
<1> DEFINE Shut == {"closing", "closeSink", "closeSlot"}
<1>0. ASSUME UNCHANGED <<connected, sink, alive, valid, sentFreed, streamSink>>,
             UNCHANGED loopVars \/ loopOp' \notin Shut
      PROVE  SinkInv'
  BY <1>0 DEF SinkInv
<1>1. ASSUME NEW r \in Roles, open(r) PROVE SinkInv'
  <2>1. PICK id \in Conns \ InUse :
          /\ connected' = [connected EXCEPT ![r] = TRUE]
          /\ alive' = alive \cup {id} /\ valid' = valid \cup {id}
          /\ sink' = [sink EXCEPT ![r] = id]
          /\ streamSink' = [streamSink EXCEPT ![r] = id]
    BY <1>1 DEF open
  <2>2. id \notin valid /\ id # NoConn BY DEF InUse
  <2>3. loopOp = "poll" /\ UNCHANGED <<loopVars, sentFreed>>
    BY <1>1 DEF open
  <2>4. QED
    BY <2>1, <2>2, <2>3 DEF SinkInv, TypeInv, TypeOK, Roles, otherRole
<1>2. ASSUME NEW r \in Roles, close(r) PROVE SinkInv'
  BY <1>2 DEF close, Goto, SinkInv
<1>3. CASE clearSink
  BY <1>3 DEF clearSink, Goto, SinkInv, TypeInv, TypeOK, Roles, otherRole
<1>4. CASE cleanupConnection
  BY <1>4 DEF cleanupConnection, Goto, SinkInv, TypeInv, TypeOK, Roles, otherRole
<1>5. CASE closeSlot
  BY <1>5 DEF closeSlot, Return, GotoCamera, Goto, SinkInv, TypeInv, TypeOK,
     Roles, otherRole
<1>6. ASSUME NEW r \in Roles, handleDiscover(r) PROVE SinkInv'
  BY <1>6, <1>0 DEF handleDiscover
<1>7. ASSUME NEW r \in Roles, handleGetState(r) PROVE SinkInv'
  BY <1>7, <1>0 DEF handleGetState
<1>8. ASSUME NEW r \in Roles, handleConfigure(r) PROVE SinkInv'
  BY <1>8, <1>0 DEF handleConfigure
<1>9. ASSUME NEW r \in Roles, handleUnconfigure(r) PROVE SinkInv'
  BY <1>9, <1>0 DEF handleUnconfigure
<1>10. ASSUME NEW r \in Roles, handleSetProcessMode(r) PROVE SinkInv'
  BY <1>10, <1>0 DEF handleSetProcessMode
<1>11. ASSUME NEW r \in Roles, handleStartCameras(r) PROVE SinkInv'
  BY <1>11, <1>0 DEF handleStartCameras, GotoCamera, Goto
<1>12. ASSUME NEW r \in Roles, handleStopCameras(r) PROVE SinkInv'
  BY <1>12, <1>0 DEF handleStopCameras, GotoCamera, Goto
<1>13. CASE startCamera BY <1>13, <1>0 DEF startCamera, GotoCamera, Goto
<1>14. CASE startDone BY <1>14, <1>0 DEF startDone, Return, GotoCamera, Goto
<1>15. CASE startFailed BY <1>15, <1>0 DEF startFailed, Return, GotoCamera, Goto
<1>16. CASE joinWatchdog BY <1>16, <1>0 DEF joinWatchdog, GotoCamera, Goto
<1>17. CASE stopCamera BY <1>17, <1>0 DEF stopCamera, GotoCamera, Goto
<1>18. CASE stopDone BY <1>18, <1>0 DEF stopDone, Return, GotoCamera, Goto
<1>19. ASSUME NEW r \in Roles, NEW c \in Cameras, handleStartStream(r, c)
       PROVE SinkInv'
  BY <1>19, <1>0 DEF handleStartStream
<1>20. ASSUME NEW r \in Roles, NEW c \in Cameras, handleStopStream(r, c)
       PROVE SinkInv'
  BY <1>20, <1>0 DEF handleStopStream
<1>21. ASSUME NEW r \in Roles, streamSend(r) PROVE SinkInv'
  BY <1>21, <1>0 DEF streamSend
<1>22. CASE runDeferred
  <2>1. sentFreed' = sentFreed
    BY <1>22 DEF runDeferred, wsSend, SinkInv
  <2>2. QED BY <1>22, <2>1, <1>0 DEF runDeferred
<1>23. CASE captureWatchdogLoop BY <1>23, <1>0 DEF captureWatchdogLoop
<1>24. CASE reportSink BY <1>24, <1>0 DEF reportSink
<1>25. CASE reportDefer BY <1>25, <1>0 DEF reportDefer
<1>26. CASE UNCHANGED vars BY <1>26, <1>0 DEF vars
<1>27. QED
  BY <1>1, <1>2, <1>3, <1>4, <1>5, <1>6, <1>7, <1>8, <1>9, <1>10, <1>11, <1>12,
     <1>13, <1>14, <1>15, <1>16, <1>17, <1>18, <1>19, <1>20, <1>21, <1>22,
     <1>23, <1>24, <1>25, <1>26
  DEF Next, Connection, Command, Continue, Watchdog

LEMMA StreamStep ==
  TypeInv /\ PipelineInv /\ SinkInv /\ StreamInv /\ [Next]_vars => StreamInv'
<1> SUFFICES ASSUME TypeInv, PipelineInv, SinkInv, StreamInv, [Next]_vars
             PROVE  StreamInv'
  OBVIOUS
<1> USE ServerAssumption
<1> USE DEF camVars, procVars, loopVars, connVars, streamVars, outVars, wdVars
<1> DEFINE Shut == {"closeSink", "closeSlot"}
<1>0. ASSUME UNCHANGED <<connected, streamVars, system_state, cams>>,
             UNCHANGED loopVars \/ (loopOp \notin Shut /\ loopOp' \notin Shut),
             loopOp' = "stopping" => loopOp = "stopping"
      PROVE  StreamInv'
  BY <1>0 DEF StreamInv, Closing
<1>1. ASSUME NEW r \in Roles, open(r) PROVE StreamInv'
  <2>1. PICK id \in Conns \ InUse :
          /\ connected' = [connected EXCEPT ![r] = TRUE]
          /\ streamSink' = [streamSink EXCEPT ![r] = id]
          /\ streaming_active' =
               [streaming_active EXCEPT ![r] = @ \/ subs[r] # {}]
    BY <1>1 DEF open
  <2>2. /\ loopOp = "poll" /\ ~connected[r]
        /\ UNCHANGED <<loopVars, subs, system_state, cams>>
    BY <1>1 DEF open
  <2>3. subs[r] = {} BY <2>2 DEF StreamInv
  <2>4. QED BY <2>1, <2>2, <2>3 DEF StreamInv, Closing, TypeInv, TypeOK
<1>2. ASSUME NEW r \in Roles, close(r) PROVE StreamInv'
  BY <1>2, <1>0 DEF close, Goto
<1>3. CASE clearSink
  BY <1>3 DEF clearSink, Goto, StreamInv, Closing, TypeInv, TypeOK, Roles
<1>4. CASE cleanupConnection
  BY <1>4 DEF cleanupConnection, Goto, StreamInv, Closing
<1>5. CASE closeSlot
  BY <1>5 DEF closeSlot, Return, GotoCamera, Goto, StreamInv, Closing, TypeInv,
     TypeOK, Roles
<1>6. ASSUME NEW r \in Roles, handleDiscover(r) PROVE StreamInv'
  BY <1>6 DEF handleDiscover, StreamInv, Closing, TypeInv, TypeOK, Cameras
<1>7. ASSUME NEW r \in Roles, handleGetState(r) PROVE StreamInv'
  BY <1>7, <1>0 DEF handleGetState
<1>8. ASSUME NEW r \in Roles, handleConfigure(r) PROVE StreamInv'
  BY <1>8 DEF handleConfigure, Dispatch, isCommandAllowed, StreamInv, Closing
<1>9. ASSUME NEW r \in Roles, handleUnconfigure(r) PROVE StreamInv'
  BY <1>9 DEF handleUnconfigure, Dispatch, isCommandAllowed, StreamInv, Closing
<1>10. ASSUME NEW r \in Roles, handleSetProcessMode(r) PROVE StreamInv'
  BY <1>10, <1>0 DEF handleSetProcessMode
<1>11. ASSUME NEW r \in Roles, handleStartCameras(r) PROVE StreamInv'
  BY <1>11, <1>0 DEF handleStartCameras, Dispatch, GotoCamera, Goto
<1>12. ASSUME NEW r \in Roles, handleStopCameras(r) PROVE StreamInv'
  BY <1>12, <1>0 DEF handleStopCameras, Dispatch, GotoCamera, Goto
<1>13. CASE startCamera BY <1>13, <1>0 DEF startCamera, GotoCamera, Goto
<1>14. CASE startDone
  BY <1>14 DEF startDone, Return, GotoCamera, Goto, StreamInv, Closing
<1>15. CASE startFailed BY <1>15, <1>0 DEF startFailed, Return, GotoCamera, Goto
<1>16. CASE joinWatchdog
  BY <1>16 DEF joinWatchdog, GotoCamera, Goto, StreamInv, Closing, TypeInv,
     TypeOK, Roles
<1>17. CASE stopCamera BY <1>17, <1>0 DEF stopCamera, GotoCamera, Goto
<1>18. CASE stopDone
  BY <1>18 DEF stopDone, Return, GotoCamera, Goto, StreamInv, Closing
<1>19. ASSUME NEW r \in Roles, NEW c \in Cameras, handleStartStream(r, c)
       PROVE StreamInv'
  <2>1. loopOp = "poll" /\ connected[r] /\ c < cams
    BY <1>19 DEF handleStartStream, Dispatch
  <2>2. r = "COMMANDER" => system_state = "RUNNING"
    BY <1>19 DEF handleStartStream, Dispatch, isCommandAllowed
  <2>3. streamSink[r] # NoConn BY <2>1 DEF StreamInv, Closing
  <2>4. /\ subs' = [subs EXCEPT ![r] = @ \cup {c}]
        /\ streaming_active' =
             [streaming_active EXCEPT ![r] = @ \/ streamSink[r] # NoConn]
        /\ UNCHANGED <<loopVars, connected, streamSink, system_state, cams>>
    BY <1>19 DEF handleStartStream
  <2>5. QED
    BY <2>1, <2>2, <2>3, <2>4 DEF StreamInv, Closing, TypeInv, TypeOK
<1>20. ASSUME NEW r \in Roles, NEW c \in Cameras, handleStopStream(r, c)
       PROVE StreamInv'
  BY <1>20 DEF handleStopStream, StreamInv, Closing, TypeInv, TypeOK
<1>21. ASSUME NEW r \in Roles, streamSend(r) PROVE StreamInv'
  BY <1>21, <1>0 DEF streamSend
<1>22. CASE runDeferred BY <1>22, <1>0 DEF runDeferred
<1>23. CASE captureWatchdogLoop BY <1>23, <1>0 DEF captureWatchdogLoop
<1>24. CASE reportSink BY <1>24, <1>0 DEF reportSink
<1>25. CASE reportDefer BY <1>25, <1>0 DEF reportDefer
<1>26. CASE UNCHANGED vars BY <1>26, <1>0 DEF vars
<1>27. QED
  BY <1>1, <1>2, <1>3, <1>4, <1>5, <1>6, <1>7, <1>8, <1>9, <1>10, <1>11, <1>12,
     <1>13, <1>14, <1>15, <1>16, <1>17, <1>18, <1>19, <1>20, <1>21, <1>22,
     <1>23, <1>24, <1>25, <1>26
  DEF Next, Connection, Command, Continue, Watchdog

LEMMA SocketInvariant == Spec => [](SinkInv /\ StreamInv)
<1> DEFINE Inv == TypeInv /\ PipelineInv /\ SinkInv /\ StreamInv
<1>1. Inv /\ [Next]_vars => Inv'
  BY TypeStep, PipelineStep, SinkStep, StreamStep
<1>2. QED BY TypeInit, PipelineInit, SocketInit, <1>1, PTL DEF Spec

(* No deferred send, whoever queued it and however late it runs, touches a *)
(* socket that uWS has freed.                                              *)
THEOREM NoUseAfterFree == Spec => []NoSendAfterFree
<1>1. SinkInv => NoSendAfterFree BY DEF SinkInv, NoSendAfterFree
<1>2. QED BY SocketInvariant, <1>1, PTL

(* The raw pointer a StreamManager sends through is the sink its session   *)
(* owns: clearSink has always taken it away before the sink is dropped.    *)
THEOREM RawSinkIsOwned == Spec => []RawSinkOwned
<1>1. SinkInv => RawSinkOwned BY DEF SinkInv, RawSinkOwned
<1>2. QED BY SocketInvariant, <1>1, PTL

(* Every subscription has a streaming thread, a client and a camera, and a *)
(* commander's has running cameras.                                        *)
THEOREM SubscriptionsAreServed == Spec => []SubscriptionsServed
<1>1. StreamInv => SubscriptionsServed
  BY DEF StreamInv, SubscriptionsServed
<1>2. QED BY SocketInvariant, <1>1, PTL
-----------------------------------------------------------------------------
(***************************************************************************)
(* Who may act.  A handler that moves the pipeline belongs to a commander, *)
(* who cannot leave before it returns.                                     *)
(***************************************************************************)
CommanderInv ==
  loopOp \in {"starting", "unwinding", "joining", "stopping"} =>
    connected["COMMANDER"]

LEMMA CommanderInit == Init => CommanderInv
BY DEF Init, CommanderInv

LEMMA CommanderStep == TypeInv /\ CommanderInv /\ [Next]_vars => CommanderInv'
<1> SUFFICES ASSUME TypeInv, CommanderInv, [Next]_vars PROVE CommanderInv'
  OBVIOUS
<1> USE DEF loopVars, connVars, CommanderInv
<1>1. ASSUME NEW r \in Roles, open(r) PROVE CommanderInv'
  BY <1>1 DEF open
<1>2. ASSUME NEW r \in Roles, close(r) PROVE CommanderInv'
  BY <1>2 DEF close, Goto
<1>3. CASE clearSink BY <1>3 DEF clearSink, Goto
<1>4. CASE cleanupConnection BY <1>4 DEF cleanupConnection, Goto
<1>5. CASE closeSlot BY <1>5 DEF closeSlot, Return, GotoCamera, Goto
<1>6. CASE Command
  <2>1. ASSUME NEW q \in Roles, handleStartCameras(q) PROVE CommanderInv'
    BY <2>1 DEF handleStartCameras, Dispatch, isCommandPermitted,
       ObserverCommands, GotoCamera, Goto
  <2>2. ASSUME NEW q \in Roles, handleStopCameras(q) PROVE CommanderInv'
    BY <2>2 DEF handleStopCameras, Dispatch, isCommandPermitted,
       ObserverCommands, GotoCamera, Goto
  <2>3. QED
    BY <1>6, <2>1, <2>2 DEF Command, handleDiscover, handleGetState,
       handleConfigure, handleUnconfigure, handleSetProcessMode,
       handleStartStream, handleStopStream
<1>7. CASE startCamera \/ startDone \/ startFailed \/ joinWatchdog \/ stopCamera
           \/ stopDone
  BY <1>7 DEF startCamera, startDone, startFailed, joinWatchdog, stopCamera,
     stopDone, Return, GotoCamera, Goto
<1>8. CASE runDeferred \/ Watchdog \/ \E r \in Roles : streamSend(r)
  BY <1>8 DEF runDeferred, Watchdog, captureWatchdogLoop, reportSink,
     reportDefer, streamSend
<1>9. CASE UNCHANGED vars BY <1>9 DEF vars
<1>10. QED
  BY <1>1, <1>2, <1>3, <1>4, <1>5, <1>6, <1>7, <1>8, <1>9
  DEF Next, Connection, Continue, Roles

LEMMA CommanderActs ==
  TypeInv /\ CommanderInv /\ [Next]_vars =>
    [ \/ connected["COMMANDER"]
      \/ UNCHANGED <<system_state, camState, procMode, enabled>> ]_vars
<1> SUFFICES ASSUME TypeInv, CommanderInv, Next, ~connected["COMMANDER"]
             PROVE  UNCHANGED <<system_state, camState, procMode, enabled>>
  OBVIOUS
<1> USE DEF camVars, procVars
<1>1. CASE Connection BY <1>1 DEF Connection, open, close
<1>2. CASE Command
  <2>1. PICK r \in Roles :
          \/ handleDiscover(r) \/ handleGetState(r)
          \/ handleConfigure(r) \/ handleUnconfigure(r) \/ handleSetProcessMode(r)
          \/ handleStartCameras(r) \/ handleStopCameras(r)
          \/ \E c \in Cameras : handleStartStream(r, c) \/ handleStopStream(r, c)
    BY <1>2 DEF Command
  <2>2. \A k \in CommanderCommands : ~Dispatch(r, k)
    BY DEF Dispatch, isCommandPermitted, CommanderCommands, ObserverCommands
  <2>3. QED
    BY <2>1, <2>2 DEF CommanderCommands, handleDiscover, handleGetState,
       handleConfigure, handleUnconfigure, handleSetProcessMode,
       handleStartCameras, handleStopCameras, handleStartStream, handleStopStream
<1>3. CASE clearSink \/ cleanupConnection \/ closeSlot
  BY <1>3 DEF clearSink, cleanupConnection, closeSlot
<1>4. CASE startCamera \/ startDone \/ startFailed \/ joinWatchdog \/ stopCamera
           \/ stopDone
  BY <1>4 DEF CommanderInv, startCamera, startDone, startFailed, joinWatchdog,
     stopCamera, stopDone
<1>5. CASE runDeferred \/ Watchdog \/ \E r \in Roles : streamSend(r)
  BY <1>5 DEF runDeferred, Watchdog, captureWatchdogLoop, reportSink,
     reportDefer, streamSend
<1>6. QED BY <1>1, <1>2, <1>3, <1>4, <1>5 DEF Next, Continue

(* The observer can never move the pipeline, and neither can anything the  *)
(* server does by itself: without a commander connected no step changes    *)
(* the system state, a camera, the process mode or the session.            *)
THEOREM ObserverCannotAct == Spec => OnlyCommanderActs
<1>1. TypeInv /\ CommanderInv /\ [Next]_vars => (TypeInv /\ CommanderInv)'
  BY TypeStep, CommanderStep
<1>2. QED
  BY TypeInit, CommanderInit, <1>1, CommanderActs, PTL DEF Spec, OnlyCommanderActs
-----------------------------------------------------------------------------
(***************************************************************************)
(* What the clients have been told.  The newest state message on its way   *)
(* to a sink, or the last one received when none is, is the current one.   *)
(* It stays so through the middle of a handler too, as the state and the   *)
(* connections change only where the change is pushed.                     *)
(***************************************************************************)
Mine(q, s) == {i \in DOMAIN q : q[i].sink = s /\ q[i].body # {}}

Newest(q, s, seen, m) ==
  IF Mine(q, s) = {}
  THEN \A x \in seen : x = m
  ELSE \E i \in Mine(q, s) : /\ q[i].body = {m}
                             /\ \A j \in Mine(q, s) : j <= i

Current == stateMessage(system_state, connected)

(* Every state message still to be received by the owner of its sink is    *)
(* addressed to the role of that owner.                                    *)
Owned(q) ==
  \A i \in DOMAIN q, r \in Roles : i \in Mine(q, sink[r]) => q[i].role = r

Addressed ==
  /\ \A s \in valid : \E r \in Roles : sink[r] = s
  /\ Owned(deferQ)

Told ==
  \A r \in Roles :
    sink[r] # NoConn => Newest(deferQ, sink[r], view[r], Current)

(* A send that is appended becomes the newest of its sink. *)
LEMMA NewestPushed ==
  ASSUME NEW q \in Seq(Deferred), NEW e \in Deferred, NEW m, e.body = {m},
         NEW seen
  PROVE  Newest(Append(q, e), e.sink, seen, m)
<1> DEFINE p == Append(q, e)
           n == Len(q) + 1
<1>1. DOMAIN p = 1 .. n /\ p[n] = e /\ n \in Nat \ {0} OBVIOUS
<1> HIDE DEF p, n
<1>2. n \in Mine(p, e.sink)
  <2>1. e.body # {} OBVIOUS
  <2>2. QED BY <1>1, <2>1 DEF Mine
<1>3. \A j \in Mine(p, e.sink) : j <= n BY <1>1 DEF Mine
<1>4. Newest(p, e.sink, seen, m) BY <1>1, <1>2, <1>3 DEF Newest
<1>5. QED BY <1>4 DEF p

(* It changes nothing for another sink, or when it carries no state. *)
LEMMA MineAppended ==
  ASSUME NEW q \in Seq(Deferred), NEW e \in Deferred, NEW s,
         e.sink # s \/ e.body = {}
  PROVE  /\ Mine(Append(q, e), s) = Mine(q, s)
         /\ \A i \in DOMAIN q : Append(q, e)[i] = q[i]
<1> DEFINE p == Append(q, e)
           n == Len(q) + 1
<1>1. /\ DOMAIN p = 1 .. n /\ p[n] = e /\ n \in Nat
      /\ DOMAIN q = 1 .. n - 1
      /\ \A i \in DOMAIN q : p[i] = q[i]
  OBVIOUS
<1> HIDE DEF p, n
<1>2. n \notin Mine(p, s) BY <1>1 DEF Mine
<1>3. ASSUME NEW i PROVE i \in Mine(p, s) <=> i \in Mine(q, s)
  BY <1>1, <1>2 DEF Mine
<1>4. QED BY <1>1, <1>3 DEF p

LEMMA NewestKept ==
  ASSUME NEW q \in Seq(Deferred), NEW e \in Deferred, NEW s, NEW seen, NEW m,
         e.sink # s \/ e.body = {}, Newest(q, s, seen, m)
  PROVE  Newest(Append(q, e), s, seen, m)
<1>1. \A i \in Mine(q, s) : i \in DOMAIN q BY DEF Mine
<1>2. QED BY <1>1, MineAppended DEF Newest

(* When the oldest send has run, what remains has moved up by one. *)
LEMMA MineTail ==
  ASSUME NEW q \in Seq(Deferred), q # <<>>, NEW s, NEW i \in Nat
  PROVE  /\ i \in Mine(Tail(q), s) <=> i > 0 /\ i + 1 \in Mine(q, s)
         /\ i \in DOMAIN Tail(q) => Tail(q)[i] = q[i + 1]
<1>1. /\ Len(q) \in Nat \ {0} /\ DOMAIN q = 1 .. Len(q)
      /\ DOMAIN Tail(q) = 1 .. Len(q) - 1
      /\ \A k \in 1 .. Len(q) - 1 : Tail(q)[k] = q[k + 1]
  BY EmptySeq
<1>2. QED BY <1>1 DEF Mine

LEMMA NewestTail ==
  ASSUME NEW q \in Seq(Deferred), q # <<>>, NEW s, NEW seen, NEW m,
         Newest(q, s, seen, m), NEW seen2,
         seen2 = IF 1 \in Mine(q, s) THEN q[1].body ELSE seen
  PROVE  Newest(Tail(q), s, seen2, m)
<1>1. \A i \in Mine(q, s) : i \in Nat \ {0} BY DEF Mine
<1>2. \A i \in Mine(Tail(q), s) : i \in Nat \ {0} BY DEF Mine
<1>3. CASE Mine(q, s) = {}
  <2>1. Mine(Tail(q), s) = {} BY <1>2, <1>3, MineTail
  <2>2. QED BY <1>3, <2>1 DEF Newest
<1>4. CASE Mine(q, s) # {}
  <2>1. PICK i \in Mine(q, s) : /\ q[i].body = {m}
                                /\ \A j \in Mine(q, s) : j <= i
    BY <1>4 DEF Newest
  <2>2. CASE i = 1
    <3>1. Mine(Tail(q), s) = {}
      <4>1. SUFFICES ASSUME NEW j \in Mine(Tail(q), s) PROVE FALSE
        OBVIOUS
      <4>2. j \in Nat \ {0} BY <1>2
      <4>3. j + 1 \in Mine(q, s) BY <4>1, <4>2, MineTail
      <4>4. QED BY <2>1, <2>2, <4>2, <4>3
    <3>2. seen2 = {m} BY <2>1, <2>2
    <3>3. QED BY <3>1, <3>2 DEF Newest
  <2>3. CASE i > 1
    <3>1. i - 1 \in Nat /\ i - 1 > 0 /\ (i - 1) + 1 = i BY <1>1, <2>3
    <3>2. i - 1 \in Mine(Tail(q), s) BY <3>1, <2>1, MineTail
    <3>3. i - 1 \in DOMAIN Tail(q) BY <3>2 DEF Mine
    <3>4. Tail(q)[i - 1].body = {m} BY <2>1, <3>1, <3>3, MineTail
    <3>5. \A j \in Mine(Tail(q), s) : j <= i - 1
      BY <1>1, <1>2, <2>1, MineTail
    <3>6. QED BY <3>2, <3>4, <3>5 DEF Newest
  <2>4. QED BY <1>1, <2>1, <2>2, <2>3
<1>5. QED BY <1>3, <1>4

(* A push to role r: r has been told m, the other role what it had been. *)
LEMMA Pushed ==
  ASSUME TypeInv, SinkInv, NEW q \in Seq(Deferred), NEW r \in Roles,
         NEW m \in StateMessages, NEW o \in Roles, sink[o] # NoConn, NEW seen,
         o # r => Newest(q, sink[o], seen, m)
  PROVE  Newest(pushStateTo(q, r, m), sink[o], seen, m)
<1> DEFINE e == [sink |-> sink[r], role |-> r, body |-> {m}]
<1>1. CASE sink[r] \in valid
  <2>1. e \in Deferred BY <1>1 DEF Deferred, TypeInv, TypeOK
  <2>2. pushStateTo(q, r, m) = Append(q, e) BY <1>1 DEF pushStateTo, Defer
  <2>3. CASE o = r BY <2>1, <2>2, <2>3, NewestPushed
  <2>4. CASE o # r
    <3>1. sink[r] # sink[o] BY <2>4 DEF SinkInv, otherRole, Roles
    <3>2. QED BY <2>1, <2>2, <2>4, <3>1, NewestKept
  <2>5. QED BY <2>3, <2>4
<1>2. CASE sink[r] \notin valid
  <2>1. o # r BY <1>2 DEF SinkInv
  <2>2. QED BY <1>2, <2>1 DEF pushStateTo, Defer
<1>3. QED BY <1>1, <1>2

(* A send keeps the messages of every sink addressed to its owner. *)
LEMMA DeferOwned ==
  ASSUME TypeInv, SinkInv, NEW q \in Seq(Deferred), Owned(q),
         NEW r \in Roles, NEW body \in SUBSET StateMessages
  PROVE  Owned(Defer(q, sink[r], r, body))
<1> DEFINE e == [sink |-> sink[r], role |-> r, body |-> body]
<1>1. CASE sink[r] \in valid
  <2>1. e \in Deferred BY <1>1 DEF Deferred, TypeInv, TypeOK
  <2>2. Defer(q, sink[r], r, body) = Append(q, e) BY <1>1 DEF Defer
  <2>3. \A o \in Roles : sink[o] = sink[r] => o = r
    BY <1>1, ServerAssumption DEF SinkInv, otherRole, Roles, TypeInv, TypeOK
  <2>4. SUFFICES ASSUME NEW i \in DOMAIN Append(q, e), NEW o \in Roles,
                        i \in Mine(Append(q, e), sink[o])
                 PROVE  Append(q, e)[i].role = o
    BY <2>2 DEF Owned
  <2>5. CASE i \in DOMAIN q
    <3>1. Append(q, e)[i] = q[i] BY <2>5, <2>1
    <3>2. i \in Mine(q, sink[o]) BY <2>4, <2>5, <3>1 DEF Mine
    <3>3. QED BY <2>5, <3>1, <3>2 DEF Owned
  <2>6. CASE i \notin DOMAIN q
    <3>1. Append(q, e)[i] = e BY <2>6, <2>1
    <3>2. sink[o] = sink[r] BY <2>4, <3>1 DEF Mine
    <3>3. QED BY <2>3, <3>1, <3>2
  <2>7. QED BY <2>5, <2>6
<1>2. CASE sink[r] \notin valid BY <1>2 DEF Defer
<1>3. QED BY <1>1, <1>2

(* broadcastState tells both clients the state that is current from then. *)
LEMMA Broadcast ==
  ASSUME TypeInv, SinkInv, Addressed, NEW m \in StateMessages,
         broadcastState(m), m = Current',
         UNCHANGED <<connected, sink, valid, view>>
  PROVE  Addressed' /\ Told'
<1> DEFINE q1 == pushStateTo(deferQ, "COMMANDER", m)
           q2 == pushStateTo(q1, "OBSERVER", m)
<1>1. /\ "COMMANDER" \in Roles /\ "OBSERVER" \in Roles
      /\ {m} \in SUBSET StateMessages /\ deferQ \in Seq(Deferred)
  BY DEF Roles, TypeInv, TypeOK
<1>2. q1 \in Seq(Deferred) BY <1>1, DeferType DEF pushStateTo, TypeInv
<1>3. deferQ' = q2 BY DEF broadcastState
<1>4. Owned(q2)
  <2>1. Owned(q1) BY <1>1, DeferOwned DEF Addressed, pushStateTo
  <2>2. QED BY <1>1, <1>2, <2>1, DeferOwned DEF pushStateTo
<1>5. Addressed' BY <1>3, <1>4 DEF Addressed, Owned
<1>6. ASSUME NEW r \in Roles, sink[r] # NoConn
      PROVE  Newest(q2, sink[r], view[r], m)
  <2>1. r # "OBSERVER" => Newest(q1, sink[r], view[r], m)
    BY <1>1, <1>6, Pushed DEF Roles
  <2>2. QED BY <1>1, <1>2, <1>6, <2>1, Pushed
<1>7. Told' BY <1>3, <1>6 DEF Told
<1>8. QED BY <1>5, <1>7

(* A send without a state tells nobody anything. *)
LEMMA Silent ==
  ASSUME TypeInv, Addressed, Told, NEW e \in Deferred, e.body = {},
         deferQ' = Append(deferQ, e),
         UNCHANGED <<system_state, connected, sink, valid, view>>
  PROVE  Addressed' /\ Told'
<1>1. deferQ \in Seq(Deferred) BY DEF TypeInv, TypeOK
<1>2. Owned(deferQ)'
  <2>1. SUFFICES ASSUME NEW i, NEW r \in Roles, i \in Mine(deferQ', sink[r])
                 PROVE  deferQ'[i].role = r
    BY DEF Owned
  <2>2. i \in Mine(deferQ, sink[r]) BY <1>1, <2>1, MineAppended
  <2>3. i \in DOMAIN deferQ BY <2>2 DEF Mine
  <2>4. deferQ'[i] = deferQ[i] BY <1>1, <2>3, MineAppended
  <2>5. QED BY <2>2, <2>3, <2>4 DEF Addressed, Owned
<1>3. Current' = Current BY DEF Current, stateMessage
<1>4. Told' BY <1>1, <1>3, NewestKept DEF Told
<1>5. QED BY <1>2, <1>4 DEF Addressed

LEMMA ViewInit == Init => Addressed /\ Told
BY DEF Init, Addressed, Owned, Told

LEMMA ViewStep ==
  TypeInv /\ SinkInv /\ Addressed /\ Told /\ [Next]_vars
    => Addressed' /\ Told'
<1> SUFFICES ASSUME TypeInv, SinkInv, Addressed, Told, [Next]_vars
             PROVE  Addressed' /\ Told'
  OBVIOUS
<1> USE ServerAssumption
<1> USE DEF camVars, procVars, loopVars, connVars, streamVars, outVars, wdVars
<1> DEFINE Kept == UNCHANGED <<system_state, connected, sink, valid, outVars>>
<1>a. deferQ \in Seq(Deferred) BY DEF TypeInv, TypeOK
<1>b. /\ system_state \in CameraState /\ connected \in [Roles -> BOOLEAN]
      /\ {"IDLE", "CONFIGURED", "RUNNING"} \subseteq CameraState
  BY DEF TypeInv, TypeOK, CameraState
<1>0. ASSUME Kept PROVE Addressed' /\ Told'
  BY <1>0 DEF Addressed, Owned, Told, Current, stateMessage
<1>1. ASSUME NEW r \in Roles, open(r) PROVE Addressed' /\ Told'
  <2> DEFINE o == otherRole(r)
             m == stateMessage(system_state, [connected EXCEPT ![r] = TRUE])
  <2>1. PICK id \in Conns \ InUse :
          /\ connected' = [connected EXCEPT ![r] = TRUE]
          /\ valid' = valid \cup {id}
          /\ sink' = [sink EXCEPT ![r] = id]
          /\ view' = [view EXCEPT ![r] = {}]
          /\ deferQ' = pushStateTo(deferQ, o, m)
    BY <1>1 DEF open
  <2>2. o \in Roles /\ o # r /\ Roles = {o, r} BY DEF otherRole, Roles
  <2>3. ~connected[r] /\ system_state' = system_state BY <1>1 DEF open
  <2>4. m \in StateMessages /\ Current' = m
    BY <1>b, <2>1, <2>3, StateMessageType DEF Current
  <2>5. /\ sink'[r] = id /\ sink'[o] = sink[o]
        /\ view'[r] = {} /\ view'[o] = view[o]
    BY <2>1, <2>2 DEF TypeInv, TypeOK
  <2>6. id \notin valid /\ \A i \in DOMAIN deferQ : deferQ[i].sink # id
    BY DEF InUse
  <2>7. \A i \in DOMAIN deferQ' : deferQ'[i].sink # id
    <3> DEFINE e == [sink |-> sink[o], role |-> o, body |-> {m}]
    <3>1. CASE sink[o] \in valid
      <4>1. deferQ' = Append(deferQ, e)
        BY <2>1, <3>1 DEF pushStateTo, Defer
      <4>2. e.sink # id BY <2>6, <3>1
      <4>3. QED BY <1>a, <2>6, <4>1, <4>2
    <3>2. CASE sink[o] \notin valid
      BY <2>1, <2>6, <3>2 DEF pushStateTo, Defer
    <3>3. QED BY <3>1, <3>2
  <2>8. Mine(deferQ', id) = {} BY <2>7 DEF Mine
  <2>9. Owned(deferQ)'
    <3>1. Owned(deferQ')
      BY <1>a, <2>1, <2>2, <2>4, DeferOwned DEF Addressed, pushStateTo
    <3>2. QED BY <2>2, <2>5, <2>8, <3>1 DEF Owned
  <2>10. \A s \in valid' : \E x \in Roles : sink'[x] = s
    BY <2>1, <2>2, <2>3, <2>5 DEF Addressed, SinkInv, TypeInv, TypeOK
  <2>11. sink'[o] # NoConn => Newest(deferQ', sink'[o], view'[o], m)
    BY <1>a, <2>1, <2>2, <2>4, <2>5, Pushed
  <2>12. Newest(deferQ', sink'[r], view'[r], m)
    BY <2>5, <2>8 DEF Newest
  <2>13. QED
    BY <2>2, <2>4, <2>9, <2>10, <2>11, <2>12 DEF Addressed, Told
<1>2. ASSUME NEW r \in Roles, close(r) PROVE Addressed' /\ Told'
  BY <1>2, <1>0 DEF close
<1>3. CASE clearSink BY <1>3, <1>0 DEF clearSink
<1>4. CASE cleanupConnection
  <2>1. /\ valid' = valid \ {sink[loopRole]}
        /\ sink' = [sink EXCEPT ![loopRole] = NoConn]
        /\ UNCHANGED <<system_state, connected, deferQ, view>>
    BY <1>4 DEF cleanupConnection
  <2>2. /\ loopRole \in Roles /\ sink'[loopRole] = NoConn
        /\ \A r \in Roles : r # loopRole => sink'[r] = sink[r]
    BY <2>1 DEF TypeInv, TypeOK
  <2>3. Mine(deferQ, NoConn) = {}
    <3>1. \A i \in DOMAIN deferQ : deferQ[i] \in Deferred BY <1>a
    <3>2. \A d \in Deferred : d.sink # NoConn BY DEF Deferred
    <3>3. QED BY <3>1, <3>2 DEF Mine
  <2>4. Owned(deferQ)' BY <2>1, <2>2, <2>3 DEF Addressed, Owned
  <2>5. \A s \in valid' : \E x \in Roles : sink'[x] = s
    BY <2>1, <2>2 DEF Addressed
  <2>6. Told' BY <2>1, <2>2 DEF Told, Current, stateMessage
  <2>7. QED BY <2>4, <2>5, <2>6 DEF Addressed
<1>5. CASE closeSlot
  <2> DEFINE o == otherRole(loopRole)
             m == stateMessage(system_state,
                               [connected EXCEPT ![loopRole] = FALSE])
  <2>1. /\ connected' = [connected EXCEPT ![loopRole] = FALSE]
        /\ view' = [view EXCEPT ![loopRole] = {}]
        /\ deferQ' = pushStateTo(deferQ, o, m)
        /\ UNCHANGED <<system_state, sink, valid>>
    BY <1>5 DEF closeSlot
  <2>2. /\ loopRole \in Roles /\ o \in Roles /\ o # loopRole
        /\ Roles = {o, loopRole}
    BY DEF otherRole, Roles, TypeInv, TypeOK
  <2>3. m \in StateMessages /\ Current' = m
    BY <1>b, <2>1, <2>2, StateMessageType DEF Current
  <2>4. sink[loopRole] = NoConn BY <1>5 DEF closeSlot, SinkInv
  <2>5. view'[o] = view[o] BY <2>1, <2>2 DEF TypeInv, TypeOK
  <2>6. Owned(deferQ')
    BY <1>a, <2>1, <2>2, <2>3, DeferOwned DEF Addressed, pushStateTo
  <2>7. Addressed' BY <2>1, <2>6 DEF Addressed, Owned
  <2>8. sink[o] # NoConn => Newest(deferQ', sink[o], view'[o], m)
    BY <1>a, <2>1, <2>2, <2>3, <2>5, Pushed
  <2>9. Told' BY <2>1, <2>2, <2>3, <2>4, <2>8 DEF Told
  <2>10. QED BY <2>7, <2>9
<1>6. ASSUME NEW r \in Roles, handleDiscover(r) PROVE Addressed' /\ Told'
  BY <1>6, <1>0 DEF handleDiscover
<1>7. ASSUME NEW r \in Roles, handleGetState(r) PROVE Addressed' /\ Told'
  <2>1. /\ view' = [view EXCEPT ![r] = {Current}]
        /\ UNCHANGED <<system_state, connected, sink, valid, deferQ>>
    BY <1>7 DEF handleGetState, Current
  <2>2. Current' = Current BY <2>1 DEF Current, stateMessage
  <2>3. \A o \in Roles : view'[o] = IF o = r THEN {Current} ELSE view[o]
    BY <2>1 DEF TypeInv, TypeOK
  <2>4. ASSUME NEW o \in Roles, sink[o] # NoConn
        PROVE  Newest(deferQ, sink[o], view'[o], Current)
    <3>1. Newest(deferQ, sink[o], view[o], Current) BY <2>4 DEF Told
    <3>2. QED BY <2>3, <3>1 DEF Newest
  <2>5. QED BY <2>1, <2>2, <2>4 DEF Addressed, Owned, Told
<1>8. ASSUME NEW r \in Roles, handleConfigure(r) PROVE Addressed' /\ Told'
  <2>1. UNCHANGED <<connected, sink, valid, view>>
    BY <1>8 DEF handleConfigure
  <2>2. \/ /\ system_state' = "CONFIGURED"
           /\ broadcastState(stateMessage("CONFIGURED", connected))
        \/ UNCHANGED <<system_state, deferQ>>
    BY <1>8 DEF handleConfigure
  <2>3. QED
    BY <1>0, <1>b, <2>1, <2>2, StateMessageType, Broadcast DEF Current
<1>9. ASSUME NEW r \in Roles, handleUnconfigure(r) PROVE Addressed' /\ Told'
  <2>1. UNCHANGED <<connected, sink, valid, view>>
    BY <1>9 DEF handleUnconfigure
  <2>2. \/ /\ system_state' = "IDLE"
           /\ broadcastState(stateMessage("IDLE", connected))
        \/ UNCHANGED <<system_state, deferQ>>
    BY <1>9 DEF handleUnconfigure
  <2>3. QED
    BY <1>0, <1>b, <2>1, <2>2, StateMessageType, Broadcast DEF Current
<1>10. ASSUME NEW r \in Roles, handleSetProcessMode(r)
       PROVE  Addressed' /\ Told'
  BY <1>10, <1>0 DEF handleSetProcessMode
<1>11. ASSUME NEW r \in Roles, handleStartCameras(r) PROVE Addressed' /\ Told'
  BY <1>11, <1>0 DEF handleStartCameras
<1>12. ASSUME NEW r \in Roles, handleStopCameras(r) PROVE Addressed' /\ Told'
  BY <1>12, <1>0 DEF handleStopCameras
<1>13. CASE startCamera BY <1>13, <1>0 DEF startCamera
<1>14. CASE startDone
  <2>1. /\ system_state' = "RUNNING"
        /\ broadcastState(stateMessage("RUNNING", connected))
        /\ UNCHANGED <<connected, sink, valid, view>>
    BY <1>14 DEF startDone
  <2>2. QED BY <1>b, <2>1, StateMessageType, Broadcast DEF Current
<1>15. CASE startFailed BY <1>15, <1>0 DEF startFailed
<1>16. CASE joinWatchdog BY <1>16, <1>0 DEF joinWatchdog
<1>17. CASE stopCamera BY <1>17, <1>0 DEF stopCamera
<1>18. CASE stopDone
  <2>1. /\ system_state' = "CONFIGURED"
        /\ broadcastState(stateMessage("CONFIGURED", connected))
        /\ UNCHANGED <<connected, sink, valid, view>>
    BY <1>18 DEF stopDone
  <2>2. QED BY <1>b, <2>1, StateMessageType, Broadcast DEF Current
<1>19. ASSUME NEW r \in Roles, NEW c \in Cameras, handleStartStream(r, c)
       PROVE  Addressed' /\ Told'
  BY <1>19, <1>0 DEF handleStartStream
<1>20. ASSUME NEW r \in Roles, NEW c \in Cameras, handleStopStream(r, c)
       PROVE  Addressed' /\ Told'
  BY <1>20, <1>0 DEF handleStopStream
<1>21. ASSUME NEW r \in Roles, streamSend(r) PROVE Addressed' /\ Told'
  <2> DEFINE e == [sink |-> sink[r], role |-> r, body |-> {}]
  <2>1. /\ deferQ' = Defer(deferQ, sink[r], r, {})
        /\ UNCHANGED <<system_state, connected, sink, valid, view>>
    BY <1>21 DEF streamSend, SinkInv
  <2>2. CASE sink[r] \in valid
    <3>1. e \in Deferred /\ e.body = {}
      BY <2>2 DEF Deferred, TypeInv, TypeOK
    <3>2. deferQ' = Append(deferQ, e) BY <2>1, <2>2 DEF Defer
    <3>3. QED BY <2>1, <3>1, <3>2, Silent
  <2>3. CASE sink[r] \notin valid BY <1>0, <2>1, <2>3 DEF Defer
  <2>4. QED BY <2>2, <2>3
<1>22. CASE runDeferred
  <2> DEFINE d == Head(deferQ)
  <2>1. /\ deferQ # <<>> /\ deferQ' = Tail(deferQ)
        /\ view' = IF d.sink \in valid /\ d.body # {}
                   THEN [view EXCEPT ![d.role] = d.body] ELSE view
        /\ UNCHANGED <<system_state, connected, sink, valid>>
    BY <1>22 DEF runDeferred, wsSend
  <2>2. d = deferQ[1] /\ 1 \in DOMAIN deferQ /\ d \in Deferred
    BY <1>a, <2>1, EmptySeq
  <2>3. Current' = Current BY <2>1 DEF Current, stateMessage
  <2>4. Owned(deferQ)'
    <3>1. SUFFICES ASSUME NEW i \in DOMAIN deferQ', NEW r \in Roles,
                          i \in Mine(deferQ', sink[r])
                   PROVE  deferQ'[i].role = r
      BY <2>1 DEF Owned
    <3>2. i \in Nat BY <1>a, <2>1
    <3>3. i + 1 \in Mine(deferQ, sink[r]) /\ deferQ'[i] = deferQ[i + 1]
      BY <1>a, <2>1, <3>1, <3>2, MineTail
    <3>4. i + 1 \in DOMAIN deferQ BY <3>3 DEF Mine
    <3>5. QED BY <3>3, <3>4 DEF Addressed, Owned
  <2>5. ASSUME NEW r \in Roles, sink[r] # NoConn
        PROVE  view'[r] = IF 1 \in Mine(deferQ, sink[r]) THEN d.body
                          ELSE view[r]
    <3>1. sink[r] \in valid BY <2>5 DEF SinkInv
    <3>2. CASE 1 \in Mine(deferQ, sink[r])
      <4>1. d.role = r BY <2>2, <3>2 DEF Addressed, Owned
      <4>2. d.sink = sink[r] /\ d.body # {} BY <2>2, <3>2 DEF Mine
      <4>3. QED BY <2>1, <3>1, <3>2, <4>1, <4>2 DEF TypeInv, TypeOK
    <3>3. CASE 1 \notin Mine(deferQ, sink[r])
      <4>1. SUFFICES ASSUME d.sink \in valid, d.body # {}, d.role = r
                     PROVE  FALSE
        BY <2>1, <3>3 DEF TypeInv, TypeOK
      <4>2. PICK x \in Roles : sink[x] = d.sink BY <4>1 DEF Addressed
      <4>3. 1 \in Mine(deferQ, sink[x]) BY <2>2, <4>1, <4>2 DEF Mine
      <4>4. x = r BY <2>2, <4>1, <4>3 DEF Addressed, Owned
      <4>5. QED BY <3>3, <4>3, <4>4
    <3>4. QED BY <3>2, <3>3
  <2>6. ASSUME NEW r \in Roles, sink[r] # NoConn
        PROVE  Newest(deferQ', sink[r], view'[r], Current)
    <3>1. Newest(deferQ, sink[r], view[r], Current) BY <2>6 DEF Told
    <3>2. QED BY <1>a, <2>1, <2>2, <2>5, <2>6, <3>1, NewestTail
  <2>7. QED BY <2>1, <2>3, <2>4, <2>6 DEF Addressed, Told
<1>23. CASE captureWatchdogLoop BY <1>23, <1>0 DEF captureWatchdogLoop
<1>24. CASE reportSink BY <1>24, <1>0 DEF reportSink
<1>25. CASE reportDefer
  <2> DEFINE e == [sink |-> wdSink, role |-> wdRole, body |-> {}]
  <2>1. e \in Deferred /\ e.body = {}
    BY <1>25 DEF reportDefer, Deferred, TypeInv, TypeOK
  <2>2. /\ deferQ' = Append(deferQ, e)
        /\ UNCHANGED <<system_state, connected, sink, valid, view>>
    BY <1>25 DEF reportDefer
  <2>3. QED BY <2>1, <2>2, Silent
<1>26. CASE UNCHANGED vars BY <1>26, <1>0 DEF vars
<1>27. QED
  BY <1>1, <1>2, <1>3, <1>4, <1>5, <1>6, <1>7, <1>8, <1>9, <1>10, <1>11, <1>12,
     <1>13, <1>14, <1>15, <1>16, <1>17, <1>18, <1>19, <1>20, <1>21, <1>22,
     <1>23, <1>24, <1>25, <1>26
  DEF Next, Connection, Command, Continue, Watchdog

(* A client that was told the state is never left with an old one: what it *)
(* received last, or the newest push on its way to it, is what get_state   *)
(* would answer, though a reply overtakes the pushes that are deferred and *)
(* sends of an earlier connection are still in the loop's queue.           *)
THEOREM ClientsAreUpToDate == Spec => []ViewsCurrent
<1> DEFINE Inv == /\ TypeInv /\ PipelineInv /\ SinkInv /\ StreamInv
                  /\ Addressed /\ Told
<1>1. Inv /\ [Next]_vars => Inv'
  BY TypeStep, PipelineStep, SinkStep, StreamStep, ViewStep
<1>2. Inv => ViewsCurrent
  <2>1. SUFFICES ASSUME SinkInv, StreamInv, Told, loopOp = "poll",
                        NEW r \in Roles, connected[r]
                 PROVE  Newest(deferQ, sink[r], view[r], Current)
    BY DEF ViewsCurrent, Newest, Mine, Current
  <2>2. sink[r] # NoConn BY <2>1 DEF SinkInv, StreamInv, Closing
  <2>3. QED BY <2>1, <2>2 DEF Told
<1>3. QED
  BY TypeInit, PipelineInit, SocketInit, ViewInit, <1>1, <1>2, PTL DEF Spec
=============================================================================
