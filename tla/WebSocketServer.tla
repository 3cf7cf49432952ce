-------------------------- MODULE WebSocketServer --------------------------
(***************************************************************************)
(* The control plane: WebSocketServer, with the parts of CameraManager,    *)
(* Camera, UwsFrameSink and StreamManager its handlers drive.              *)
(*                                                                         *)
(* Three kinds of thread share this state.  The uWS loop thread runs every *)
(* handler and every deferred lambda; a handler that joins a thread or     *)
(* walks the cameras is split into steps (loopOp), and no other handler or *)
(* lambda runs until it returns to "poll".  The capture watchdog and the   *)
(* streaming thread of each role run at any time, and reach the sockets    *)
(* only through a sink's deferred sends.                                   *)
(*                                                                         *)
(* Binary frames, stall reports and replies that carry no state are data   *)
(* that nothing here tells apart; what the frame processor does inside a   *)
(* session is in FrameProcessor.                                           *)
(***************************************************************************)
EXTENDS CommandParser, Sequences, FiniteSets

CONSTANTS NumCameras,  \* cameras attached to the host
          Conns,       \* bound: sockets (and their sinks) in use at once
          NoConn,      \* no socket
          MaxDefer     \* bound: sends waiting on the loop when one starts

ASSUME ServerAssumption ==
  /\ NumCameras \in Nat \ {0}
  /\ NoConn \notin Conns
  /\ MaxDefer \in Nat

VARIABLES
  system_state,  \* WebSocketServer::system_state
  cams,          \* CameraManager::cameras.size()
  camState,      \* Camera::state of each camera
  procMode,      \* is FrameProcessor's configured mode other than NONE?
  enabled,       \* FrameProcessor::enabled
  callback,      \* is Camera::onFrameCaptured set?
  loopOp, loopCam, loopRole, loopConn, \* the handler running, where it is
  connected, sink, streamSink,        \* per role: slot, owner, raw pointer
  subs, streaming_active,             \* per role: subscriptions, thread
  alive, valid,                       \* sockets not freed; sinks valid_
  sentFreed,     \* history: sockets sent on after uWS had freed them
  deferQ,        \* the loop's deferred sends, in order
  view,          \* the last state message each client received
  wdPc, wdRole, wdSink, watchdog_stop \* the capture watchdog thread

camVars    == <<system_state, cams, camState>>
procVars   == <<procMode, enabled, callback>>
loopVars   == <<loopOp, loopCam, loopRole, loopConn>>
connVars   == <<connected, sink, alive, valid, sentFreed>>
streamVars == <<streamSink, subs, streaming_active>>
outVars    == <<deferQ, view>>
wdVars     == <<wdPc, wdRole, wdSink, watchdog_stop>>
vars == <<camVars, procVars, loopVars, connVars, streamVars, outVars, wdVars>>

Cameras == 0 .. NumCameras - 1

(* A state message; the recipient's own role and the cause are left out.   *)
StateMessages ==
  [state : CameraState, commander : BOOLEAN, observer : BOOLEAN]

(* A deferred send; body is the state message it carries, if it does.      *)
Deferred == [sink : Conns, role : Roles, body : SUBSET StateMessages]

stateMessage(st, con) ==
  [state |-> st, commander |-> con["COMMANDER"], observer |-> con["OBSERVER"]]

(* UwsFrameSink::sendText / send: nothing once the sink is invalid. *)
Defer(q, id, r, body) ==
  IF id \in valid
  THEN Append(q, [sink |-> id, role |-> r, body |-> body])
  ELSE q

(* pushStateTo, and broadcastState: the commander first. *)
pushStateTo(q, r, m) == Defer(q, sink[r], r, {m})
broadcastState_Commander(m) ==
  deferQ' = pushStateTo(deferQ, "COMMANDER", m)
broadcastState(m) ==
  deferQ' = pushStateTo(pushStateTo(deferQ, "COMMANDER", m), "OBSERVER", m)

(* Is there room for a broadcast before the bound?  Asked only where a     *)
(* handler or a report begins, so that no step blocks half-way.            *)
Room == Len(deferQ) + 2 <= MaxDefer

(* The loop thread takes a command of a connected client.                  *)
Dispatch(r, kind) ==
  /\ loopOp = "poll"
  /\ connected[r]
  /\ isCommandPermitted(kind, r)
  /\ isCommandAllowed(kind, system_state, r)

(* Every later step of a handler keeps the loop thread. *)
Goto(op, c, r, id) ==
  loopOp' = op /\ loopCam' = c /\ loopRole' = r /\ loopConn' = id
GotoCamera(op, c) == Goto(op, c, "COMMANDER", NoConn)
Return == GotoCamera("poll", 0)
-----------------------------------------------------------------------------
Init ==
  /\ system_state = "IDLE"
  /\ cams = 0
  /\ camState = [c \in Cameras |-> "IDLE"]
  /\ procMode = FALSE /\ enabled = FALSE /\ callback = FALSE
  /\ loopOp = "poll" /\ loopCam = 0 /\ loopRole = "COMMANDER" /\ loopConn = NoConn
  /\ connected = [r \in Roles |-> FALSE]
  /\ sink = [r \in Roles |-> NoConn]
  /\ streamSink = [r \in Roles |-> NoConn]
  /\ subs = [r \in Roles |-> {}]
  /\ streaming_active = [r \in Roles |-> FALSE]
  /\ alive = {} /\ valid = {} /\ sentFreed = {}
  /\ deferQ = <<>>
  /\ view = [r \in Roles |-> {}]
  /\ wdPc = "off" /\ wdRole = "COMMANDER" /\ wdSink = NoConn
  /\ watchdog_stop = FALSE
-----------------------------------------------------------------------------
(* Connections.                                                            *)

(* Sockets that exist, and sinks that some deferred send or the watchdog   *)
(* still holds a reference to.                                             *)
InUse ==
  alive \cup valid \cup {wdSink} \cup {deferQ[i].sink : i \in DOMAIN deferQ}

(* upgrade and open: uWS runs them in one go on the loop thread.  A role's *)
(* second client is refused with a 503.  setSink starts a streaming thread *)
(* only for subscriptions that survived, and none does.                    *)
open(r) ==
  /\ loopOp = "poll" /\ Room
  /\ ~connected[r]
  /\ \E id \in Conns \ InUse :
     LET con == [connected EXCEPT ![r] = TRUE]
     IN /\ connected' = con
        /\ alive' = alive \cup {id}
        /\ valid' = valid \cup {id}
        /\ sink' = [sink EXCEPT ![r] = id]
        /\ streamSink' = [streamSink EXCEPT ![r] = id]
        /\ streaming_active' =
             [streaming_active EXCEPT ![r] = @ \/ subs[r] # {}]
        /\ view' = [view EXCEPT ![r] = {}]
        /\ deferQ' = pushStateTo(deferQ, otherRole(r),
                                 stateMessage(system_state, con))
  /\ UNCHANGED <<camVars, procVars, loopVars, sentFreed, subs, wdVars>>

(* A close that drops the sink while the stream still points to it. *)
close_SinkFirst(r) ==
  /\ loopOp = "poll" /\ Room
  /\ connected[r]
  /\ Goto("closeSink", 0, r, NoConn)
  /\ UNCHANGED <<camVars, procVars, connVars, streamVars, outVars, wdVars>>

(* close: StreamManager::clearSink first (it joins the streaming thread),  *)
(* then the sink is invalidated and dropped, then the slot is released,    *)
(* and uWS frees the socket when the handler returns.                      *)
close(r) ==
  /\ loopOp = "poll" /\ Room
  /\ connected[r]
  /\ Goto("closing", 0, r, NoConn)
  /\ UNCHANGED <<camVars, procVars, connVars, streamVars, outVars, wdVars>>

clearSink ==
  /\ loopOp = "closing"
  /\ subs' = [subs EXCEPT ![loopRole] = {}]
  /\ streaming_active' = [streaming_active EXCEPT ![loopRole] = FALSE]
  /\ streamSink' = [streamSink EXCEPT ![loopRole] = NoConn]
  /\ Goto("closeSink", 0, loopRole, NoConn)
  /\ UNCHANGED <<camVars, procVars, connVars, outVars, wdVars>>

(* The sink is dropped without being invalidated. *)
cleanupConnection_KeepsValid ==
  /\ loopOp = "closeSink"
  /\ sink' = [sink EXCEPT ![loopRole] = NoConn]
  /\ Goto("closeSlot", 0, loopRole, sink[loopRole])
  /\ UNCHANGED <<camVars, procVars, connected, alive, valid, sentFreed,
                 streamVars, outVars, wdVars>>

cleanupConnection ==
  /\ loopOp = "closeSink"
  /\ valid' = valid \ {sink[loopRole]}
  /\ sink' = [sink EXCEPT ![loopRole] = NoConn]
  /\ Goto("closeSlot", 0, loopRole, sink[loopRole])
  /\ UNCHANGED <<camVars, procVars, connected, alive, sentFreed, streamVars,
                 outVars, wdVars>>

(* loopConn is the socket that uWS frees. *)
closeSlot ==
  /\ loopOp = "closeSlot"
  /\ LET con == [connected EXCEPT ![loopRole] = FALSE]
     IN /\ connected' = con
        /\ alive' = alive \ {loopConn}
        /\ view' = [view EXCEPT ![loopRole] = {}]
        /\ deferQ' = pushStateTo(deferQ, otherRole(loopRole),
                                 stateMessage(system_state, con))
  /\ Return
  /\ UNCHANGED <<camVars, procVars, sink, valid, sentFreed, streamVars, wdVars>>
-----------------------------------------------------------------------------
(* Commands.  Each is one handler of WebSocketServer.                      *)

(* discoverCameras: the first sensor filter that matches a camera is       *)
(* cached for the life of the process.                                     *)
handleDiscover(r) ==
  /\ Dispatch(r, "Discover")
  /\ cams = 0
  /\ cams' \in 0 .. NumCameras
  /\ UNCHANGED <<system_state, camState, procVars, loopVars, connVars,
                 streamVars, outVars, wdVars>>

(* The reply is sent directly, ahead of the pushes still deferred. *)
handleGetState(r) ==
  /\ Dispatch(r, "GetState")
  /\ view' = [view EXCEPT ![r] = {stateMessage(system_state, connected)}]
  /\ UNCHANGED <<camVars, procVars, loopVars, connVars, streamVars, deferQ,
                 wdVars>>

(* CameraManager::configureAll stops at the first camera k that fails (a   *)
(* camera that is not IDLE always does) and leaves the ones before it      *)
(* configured; k = cams when none fails.  No other thread looks at a       *)
(* camera before it is started, so the walk is one step.                   *)
configureAll(k) ==
  /\ cams > 0
  /\ \A c \in Cameras : c < cams => camState[c] # "RUNNING"
  /\ \A c \in Cameras : c < k => camState[c] = "IDLE"
  /\ camState' =
       [c \in Cameras |-> IF c < k THEN "CONFIGURED" ELSE camState[c]]

(* One that answers before it knows whether every camera followed. *)
handleConfigure_Early(r) ==
  /\ Dispatch(r, "Configure") /\ Room
  /\ \E k \in 0 .. cams : configureAll(k)
  /\ system_state' = "CONFIGURED"
  /\ broadcastState(stateMessage("CONFIGURED", connected))
  /\ UNCHANGED <<cams, procVars, loopVars, connVars, streamVars, view, wdVars>>

handleConfigure(r) ==
  /\ Dispatch(r, "Configure") /\ Room
  /\ \E k \in 0 .. cams :
       /\ configureAll(k)
       /\ \/ /\ k = cams
             /\ system_state' = "CONFIGURED"
             /\ broadcastState(stateMessage("CONFIGURED", connected))
          \/ /\ k < cams
             /\ UNCHANGED <<system_state, deferQ>>
  /\ UNCHANGED <<cams, procVars, loopVars, connVars, streamVars, view, wdVars>>

(* unconfigureAll: only a RUNNING camera refuses, and then the state stays. *)
handleUnconfigure(r) ==
  /\ Dispatch(r, "Unconfigure") /\ Room
  /\ camState' = [c \in Cameras |->
       IF camState[c] = "RUNNING" THEN "RUNNING" ELSE "IDLE"]
  /\ LET all_ok == \A c \in Cameras : camState[c] # "RUNNING"
     IN IF all_ok
        THEN /\ system_state' = "IDLE"
             /\ broadcastState(stateMessage("IDLE", connected))
        ELSE UNCHANGED <<system_state, deferQ>>
  /\ UNCHANGED <<cams, procVars, loopVars, connVars, streamVars, view, wdVars>>

(* No state gate: accepted while the cameras run. *)
handleSetProcessMode(r) ==
  /\ Dispatch(r, "SetProcessMode")
  /\ procMode' \in BOOLEAN
  /\ UNCHANGED <<camVars, enabled, callback, loopVars, connVars, streamVars,
                 outVars, wdVars>>

(* FrameProcessor::start, then the feasibility check; an infeasible mode   *)
(* stops the processor again and answers with an error.                    *)
handleStartCameras(r) ==
  /\ Dispatch(r, "StartCameras") /\ Room
  /\ \/ /\ enabled' = procMode
        /\ callback' = procMode
        /\ GotoCamera("starting", 0)
     \/ /\ procMode
        /\ enabled' = FALSE
        /\ UNCHANGED <<callback, loopVars>>
  /\ UNCHANGED <<camVars, procMode, connVars, streamVars, outVars, wdVars>>

(* startAll, one camera per step: camera loopCam starts, or fails and      *)
(* every camera already started is stopped.                                *)
startCamera ==
  /\ loopOp = "starting" /\ loopCam < cams
  /\ \/ /\ camState[loopCam] = "CONFIGURED"
        /\ camState' = [camState EXCEPT ![loopCam] = "RUNNING"]
        /\ GotoCamera("starting", loopCam + 1)
     \/ /\ UNCHANGED camState
        /\ GotoCamera("unwinding", 0)
  /\ UNCHANGED <<system_state, cams, procVars, connVars, streamVars, outVars,
                 wdVars>>

(* startAll succeeded: RUNNING, the watchdog, the push. *)
startDone ==
  /\ loopOp = "starting" /\ loopCam = cams
  /\ system_state' = "RUNNING"
  /\ watchdog_stop' = FALSE
  /\ wdPc' = "sleep"
  /\ broadcastState(stateMessage("RUNNING", connected))
  /\ Return
  /\ UNCHANGED <<cams, camState, procVars, connVars, streamVars, view, wdRole,
                 wdSink>>

(* A failed start that leaves the processor session open. *)
startFailed_NoStop ==
  /\ loopOp = "unwinding" /\ loopCam = cams
  /\ Return
  /\ UNCHANGED <<camVars, procVars, connVars, streamVars, outVars, wdVars>>

startFailed ==
  /\ loopOp = "unwinding" /\ loopCam = cams
  /\ enabled' = FALSE
  /\ Return
  /\ UNCHANGED <<camVars, procMode, callback, connVars, streamVars, outVars,
                 wdVars>>

(* One that leaves the watchdog to be stopped later. *)
handleStopCameras_NoJoin(r) ==
  /\ Dispatch(r, "StopCameras") /\ Room
  /\ GotoCamera("stopping", 0)
  /\ UNCHANGED <<camVars, procVars, connVars, streamVars, outVars, wdVars>>

(* stop_cameras begins by asking the watchdog to stop. *)
handleStopCameras(r) ==
  /\ Dispatch(r, "StopCameras") /\ Room
  /\ watchdog_stop' = TRUE
  /\ GotoCamera("joining", 0)
  /\ UNCHANGED <<camVars, procVars, connVars, streamVars, outVars, wdPc, wdRole,
                 wdSink>>

(* The stop of the commander's streams forgotten. *)
joinWatchdog_KeepsStreams ==
  /\ loopOp = "joining" /\ wdPc = "off"
  /\ GotoCamera("stopping", 0)
  /\ UNCHANGED <<camVars, procVars, connVars, streamVars, outVars, wdVars>>

(* The join returns when the watchdog thread has ended; then the           *)
(* commander's streams stop, and the observer's stay subscribed.           *)
joinWatchdog ==
  /\ loopOp = "joining" /\ wdPc = "off"
  /\ subs' = [subs EXCEPT !["COMMANDER"] = {}]
  /\ streaming_active' = [streaming_active EXCEPT !["COMMANDER"] = FALSE]
  /\ GotoCamera("stopping", 0)
  /\ UNCHANGED <<camVars, procVars, connVars, streamSink, outVars, wdVars>>

(* A walk that goes one camera too far. *)
stopCamera_Overrun ==
  /\ loopOp \in {"stopping", "unwinding"} /\ loopCam <= cams
  /\ GotoCamera(loopOp, loopCam + 1)
  /\ UNCHANGED <<camVars, procVars, connVars, streamVars, outVars, wdVars>>

(* stopAll, of stop_cameras or of a failed start, one camera per step. *)
stopCamera ==
  /\ loopOp \in {"stopping", "unwinding"} /\ loopCam < cams
  /\ camState' = [camState EXCEPT ![loopCam] =
                    IF @ = "RUNNING" THEN "CONFIGURED" ELSE @]
  /\ GotoCamera(loopOp, loopCam + 1)
  /\ UNCHANGED <<system_state, cams, procVars, connVars, streamVars, outVars,
                 wdVars>>

(* The processor stops, then the state changes and is announced. *)
stopDone ==
  /\ loopOp = "stopping" /\ loopCam = cams
  /\ enabled' = FALSE
  /\ system_state' = "CONFIGURED"
  /\ broadcastState(stateMessage("CONFIGURED", connected))
  /\ Return
  /\ UNCHANGED <<cams, camState, procMode, callback, connVars, streamVars, view,
                 wdVars>>

(* startStreamingCamera starts the thread if a sink is attached. *)
handleStartStream(r, c) ==
  /\ Dispatch(r, "StartStream")
  /\ c < cams
  /\ subs' = [subs EXCEPT ![r] = @ \cup {c}]
  /\ streaming_active' = [streaming_active EXCEPT ![r] = @ \/ streamSink[r] # NoConn]
  /\ UNCHANGED <<camVars, procVars, loopVars, connVars, streamSink, outVars,
                 wdVars>>

(* stopStreamingCamera leaves the thread running; the handler asks for the *)
(* role but not for the state.                                             *)
handleStopStream(r, c) ==
  /\ loopOp = "poll" /\ connected[r] /\ isCommandPermitted("StopStream", r)
  /\ c \in subs[r]
  /\ subs' = [subs EXCEPT ![r] = @ \ {c}]
  /\ UNCHANGED <<camVars, procVars, loopVars, connVars, streamSink,
                 streaming_active, outVars, wdVars>>
-----------------------------------------------------------------------------
(* The other threads, and the deferred sends.                              *)

(* A streaming thread sends a frame of a subscribed camera through the raw *)
(* sink pointer it was given.                                              *)
streamSend(r) ==
  /\ streaming_active[r] /\ subs[r] # {}
  /\ streamSink[r] # NoConn
  /\ Room
  /\ deferQ' = Defer(deferQ, streamSink[r], r, {})
  /\ UNCHANGED <<camVars, procVars, loopVars, connVars, streamVars, view,
                 wdVars>>

(* ws_->send on the loop thread; the client learns the state it carries.  *)
wsSend(d) ==
  /\ view' = IF d.body = {} THEN view ELSE [view EXCEPT ![d.role] = d.body]
  /\ sentFreed' = sentFreed \cup ({d.sink} \ alive)

(* A deferred send that relies on the check made when it was queued. *)
runDeferred_Unchecked ==
  /\ loopOp = "poll"
  /\ deferQ # <<>>
  /\ deferQ' = Tail(deferQ)
  /\ wsSend(Head(deferQ))
  /\ UNCHANGED <<camVars, procVars, loopVars, connected, sink, alive, valid,
                 streamVars, wdVars>>

(* The loop runs the oldest deferred send: it touches the socket only      *)
(* while the sink is valid.                                                *)
runDeferred ==
  /\ loopOp = "poll"
  /\ deferQ # <<>>
  /\ deferQ' = Tail(deferQ)
  /\ IF Head(deferQ).sink \in valid
     THEN wsSend(Head(deferQ))
     ELSE UNCHANGED <<view, sentFreed>>
  /\ UNCHANGED <<camVars, procVars, loopVars, connected, sink, alive, valid,
                 streamVars, wdVars>>

(* A loop that looks at the stop flag only while nothing is stalled. *)
captureWatchdogLoop_Deaf ==
  /\ wdPc = "sleep"
  /\ Room
  /\ wdPc' = "report" /\ wdRole' = "COMMANDER"
  /\ UNCHANGED <<camVars, procVars, loopVars, connVars, streamVars, outVars,
                 wdSink, watchdog_stop>>

(* A tick: end if asked to, else report a camera found stalled. *)
captureWatchdogLoop ==
  /\ wdPc = "sleep"
  /\ \/ watchdog_stop /\ wdPc' = "off" /\ UNCHANGED wdRole
     \/ /\ ~watchdog_stop /\ Room
        /\ wdPc' = "report" /\ wdRole' = "COMMANDER"
  /\ UNCHANGED <<camVars, procVars, loopVars, connVars, streamVars, outVars,
                 wdSink, watchdog_stop>>

(* After the observer's report the watchdog sleeps again. *)
WdNext ==
  /\ wdPc' = IF wdRole = "COMMANDER" THEN "report" ELSE "sleep"
  /\ wdRole' = otherRole(wdRole)
  /\ wdSink' = NoConn

(* reportCaptureStall takes a reference to the role's sink and checks      *)
(* valid_ ...                                                              *)
reportSink ==
  /\ wdPc = "report"
  /\ \/ /\ sink[wdRole] \in valid
        /\ wdSink' = sink[wdRole]
        /\ wdPc' = "defer"
        /\ UNCHANGED wdRole
     \/ sink[wdRole] \notin valid /\ WdNext
  /\ UNCHANGED <<camVars, procVars, loopVars, connVars, streamVars, outVars,
                 watchdog_stop>>

(* ... and defers the send afterwards, whatever happened in between. *)
reportDefer ==
  /\ wdPc = "defer"
  /\ deferQ' = Append(deferQ, [sink |-> wdSink, role |-> wdRole, body |-> {}])
  /\ WdNext
  /\ UNCHANGED <<camVars, procVars, loopVars, connVars, streamVars, view,
                 watchdog_stop>>
-----------------------------------------------------------------------------
Connection == \E r \in Roles : open(r) \/ close(r)

Command ==
  \E r \in Roles :
    \/ handleDiscover(r) \/ handleGetState(r)
    \/ handleConfigure(r) \/ handleUnconfigure(r) \/ handleSetProcessMode(r)
    \/ handleStartCameras(r) \/ handleStopCameras(r)
    \/ \E c \in Cameras : handleStartStream(r, c) \/ handleStopStream(r, c)

(* The steps with which a handler that has begun goes on. *)
Continue ==
  \/ clearSink \/ cleanupConnection \/ closeSlot
  \/ startCamera \/ startDone \/ startFailed
  \/ joinWatchdog \/ stopCamera \/ stopDone

Watchdog == captureWatchdogLoop \/ reportSink \/ reportDefer

Next ==
  \/ Connection \/ Command \/ Continue \/ runDeferred
  \/ Watchdog
  \/ \E r \in Roles : streamSend(r)

Spec == Init /\ [][Next]_vars

(* The loop and the watchdog are threads the kernel keeps scheduling; what *)
(* clients send, and whether a camera ever stalls, is up to them.          *)
FairSpec ==
  /\ Spec
  /\ WF_vars(Continue)
  /\ WF_vars(runDeferred)
  /\ WF_vars(Watchdog)
-----------------------------------------------------------------------------
(* Properties.                                                             *)

LoopOps == {"poll", "closing", "closeSink", "closeSlot", "starting",
            "unwinding", "joining", "stopping"}

(* Every variable holds a value the code can give it.                      *)
TypeOK ==
  /\ system_state \in CameraState
  /\ cams \in 0 .. NumCameras
  /\ camState \in [Cameras -> CameraState]
  /\ procMode \in BOOLEAN /\ enabled \in BOOLEAN /\ callback \in BOOLEAN
  /\ loopOp \in LoopOps /\ loopCam \in 0 .. NumCameras
  /\ loopRole \in Roles /\ loopConn \in Conns \cup {NoConn}
  /\ connected \in [Roles -> BOOLEAN]
  /\ sink \in [Roles -> Conns \cup {NoConn}]
  /\ streamSink \in [Roles -> Conns \cup {NoConn}]
  /\ subs \in [Roles -> SUBSET Cameras]
  /\ streaming_active \in [Roles -> BOOLEAN]
  /\ alive \subseteq Conns /\ valid \subseteq Conns
  /\ sentFreed \subseteq Conns
  /\ deferQ \in Seq(Deferred)
  /\ view \in [Roles -> SUBSET StateMessages]
  /\ wdPc \in {"off", "sleep", "report", "defer"}
  /\ wdRole \in Roles /\ wdSink \in Conns \cup {NoConn}
  /\ watchdog_stop \in BOOLEAN

(* Between two handlers the system state says what the cameras are doing:  *)
(* all of them run, or all are configured, or none runs (after a start or  *)
(* a configure that failed half-way, in particular).                       *)
StateAgreement ==
  loopOp = "poll" =>
    \A c \in 0 .. cams - 1 :
      /\ system_state = "RUNNING" => camState[c] = "RUNNING"
      /\ system_state = "CONFIGURED" => camState[c] = "CONFIGURED"
      /\ system_state = "IDLE" => camState[c] # "RUNNING"

(* The watchdog thread never looks at a camera that an orderly start or    *)
(* stop is bringing up or down, so it cannot report a spurious stall: it   *)
(* exists only while every camera runs.                                    *)
WatchdogOnlyWhileRunning ==
  wdPc # "off" =>
    /\ system_state = "RUNNING"
    /\ \A c \in 0 .. cams - 1 : camState[c] = "RUNNING"

(* No deferred send, run long after it was queued, touches a socket that   *)
(* uWS has freed; nor does bufferedAmount, which asks the socket whenever  *)
(* the sink is valid.                                                      *)
NoSendAfterFree == sentFreed = {} /\ valid \subseteq alive

(* StreamManager's raw sink pointer never outlives the shared_ptr that     *)
(* owns the sink, and only the current connection of the role has one.     *)
RawSinkOwned ==
  \A r \in Roles : streamSink[r] # NoConn => streamSink[r] = sink[r]

(* Commander subscriptions end with the cameras, observer subscriptions    *)
(* with the connection, and every subscription has a thread to serve it.   *)
SubscriptionsServed ==
  \A r \in Roles :
    subs[r] # {} =>
      /\ streaming_active[r] /\ connected[r]
      /\ r = "COMMANDER" => system_state = "RUNNING"
      /\ \A c \in subs[r] : c < cams

(* No processor session outlives the start or the recording it belongs to. *)
NoLeakedSession ==
  loopOp = "poll" /\ enabled => system_state = "RUNNING"

(* A client that has been told the state is never left with an old one:    *)
(* the newest push on its way to it, or the last message it received when  *)
(* none is, is what get_state would answer now.                            *)
ViewsCurrent ==
  loopOp = "poll" =>
    \A r \in Roles : connected[r] =>
      LET cur == stateMessage(system_state, connected)
          mine == {i \in DOMAIN deferQ :
                     deferQ[i].sink = sink[r] /\ deferQ[i].body # {}}
      IN IF mine = {}
         THEN \A m \in view[r] : m = cur
         ELSE \E i \in mine : /\ deferQ[i].body = {cur}
                              /\ \A j \in mine : j <= i

(* Only the commander moves the pipeline: no step of a system without one  *)
(* changes the system state, a camera or the process mode, a handler of    *)
(* the commander's that is already running excepted.                       *)
OnlyCommanderActs ==
  [][ \/ connected["COMMANDER"]
      \/ UNCHANGED <<system_state, camState, procMode, enabled>> ]_vars

(* Every handler returns: neither the walk over the cameras nor the join   *)
(* of the watchdog keeps the loop thread for ever.                         *)
HandlersReturn == loopOp # "poll" ~> loopOp = "poll"

(* What docs/websocket-protocol.md says of IDLE: no camera pipeline is     *)
(* allocated, so that configure is accepted.                               *)
IdleMeansUnallocated ==
  loopOp = "poll" /\ system_state = "IDLE" =>
    \A c \in Cameras : camState[c] = "IDLE"
=============================================================================
