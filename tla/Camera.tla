------------------------------- MODULE Camera -------------------------------
(***************************************************************************)
(* One Camera object: its libcamera resources, the requests that circulate *)
(* between it and libcamera, the controls a client sets while they do, the *)
(* slot streamers read the newest frame from, and the stall latch of the   *)
(* capture watchdog.                                                       *)
(*                                                                         *)
(* Four kinds of thread meet here: the server's loop thread (lifecycle and *)
(* setters), libcamera's completion thread, the watchdog and one streaming *)
(* thread per client.  Every atomic load and store the threads can race on *)
(* is a step of its own.                                                   *)
(*                                                                         *)
(* Focus, exposure and frame duration are set by the same protocol and do  *)
(* not touch each other, so a behaviour has one of them, control.  Time is *)
(* the single question captureStalledForUs asks: has more than the limit   *)
(* gone by since the last frame?                                           *)
(***************************************************************************)
EXTENDS Integers, FiniteSets

CONSTANTS Controls,      \* of "focus", "exposure" and "duration"
          Values,        \* the manual values a client sets
          Buffers,       \* frame buffers, each with a request
          Consumers,     \* streaming threads
          StartMayFail,  \* may libcamera refuse to start?
          QueueMayFail,  \* may it refuse a request just after the start?
          HwMax,         \* longest frame durations a camera may report, 0: none
          MaxSets,       \* bound: calls of the setter
          MaxFrames      \* bound: frames delivered

ASSUME CameraAssumption ==
  /\ Controls \subseteq {"focus", "exposure", "duration"}
  /\ Values \subseteq Nat \ {0}
  /\ Buffers \in Nat \ {0}
  /\ StartMayFail \in BOOLEAN /\ QueueMayFail \in BOOLEAN
  /\ HwMax \subseteq Nat
  /\ MaxSets \in Nat /\ MaxFrames \in Nat

VARIABLES
  state,          \* Camera::state
  mapped,         \* the buffers are allocated and mapped
  started,        \* external: libcamera's camera is running
  should_stop,
  queued,         \* requests libcamera has
  loop, left,     \* the call the loop thread is in; requests left to queue
  control,        \* the control this behaviour is about
  hw_max,         \* external: the longest frame duration of this camera
  auto, value,    \* af_continuous_ / ae_auto_ and the manual value
  generation, applied,  \* the setting's generation and the applied one
  asked,          \* history: the settings clients have asked for
  device,         \* external: the setting libcamera was given last
  unsent,         \* history: the code counted the release of a frame duration
                  \* as applied without sending libcamera any control for it
  cb, cbGen, cbSet,     \* the completion thread, and what it has loaded
  frames,         \* history: frames delivered so far
  latest, latest_seq,   \* the published frame, if any, and its number
  cursor, got,    \* per streamer: last_seen_seq and the frame it had
  quiet,          \* is the last frame longer ago than the stall limit?
  capture_failed, \* the latch
  wd,             \* the watchdog thread
  dead,           \* external: the frontend has timed out
  told, polled    \* history: was the stall since the last frame reported?
                  \* frames when the watchdog last found a stall

lcamVars == <<started, queued, dead>>
loopVars == <<loop, left>>
setVars  == <<control, hw_max, auto, value, generation, asked>>
ctlVars  == <<applied, device, unsent>>
cbVars   == <<cb, cbGen, cbSet>>
slotVars == <<latest, latest_seq, frames>>
readVars == <<cursor, got>>
wdVars   == <<quiet, capture_failed, wd, told, polled>>
vars == <<state, should_stop, mapped, lcamVars, loopVars, setVars, ctlVars,
          cbVars, slotVars, readVars, wdVars>>

Automatic == -1      \* continuous AF, auto AE, or no frame duration lock

Effective == IF auto THEN Automatic ELSE value

(* frame_duration_us_ is 0: no frame duration is to be locked. *)
Released == control = "duration" /\ auto

Init ==
  /\ state = "IDLE" /\ mapped = FALSE
  /\ started = FALSE /\ should_stop = FALSE /\ queued = 0 /\ dead = FALSE
  /\ loop = "idle" /\ left = 0
  /\ control \in Controls /\ hw_max \in HwMax
  /\ auto = TRUE /\ value = 0 /\ generation = 0 /\ applied = 0
  /\ asked = {Automatic} /\ device = Automatic /\ unsent = FALSE
  /\ cb = "idle" /\ cbGen = 0 /\ cbSet = {}
  /\ frames = 0 /\ latest = {} /\ latest_seq = 0
  /\ cursor = [s \in Consumers |-> 0] /\ got = [s \in Consumers |-> 0]
  /\ quiet = FALSE /\ capture_failed = FALSE /\ wd = "off" /\ told = FALSE
  /\ polled = 0
-----------------------------------------------------------------------------
(* Lifecycle, on the loop thread.                                          *)

(* configure: acquire, validate and configure the camera, allocate and map *)
(* its buffers, create a request for each.  Every failure on the way calls *)
(* releaseConfiguredResources and leaves the camera as it was.             *)
configure ==
  /\ loop = "idle" /\ state = "IDLE"
  /\ mapped' = TRUE
  /\ state' = "CONFIGURED"
  /\ UNCHANGED <<should_stop, lcamVars, loopVars, setVars, ctlVars, cbVars,
                 slotVars, readVars, wdVars>>

unconfigure ==
  /\ loop = "idle" /\ state = "CONFIGURED"
  /\ mapped' = FALSE
  /\ state' = "IDLE"
  /\ UNCHANGED <<should_stop, lcamVars, loopVars, setVars, ctlVars, cbVars,
                 slotVars, readVars, wdVars>>

(* start: the controls go with lcam->start, an unlocked frame duration as  *)
(* no control at all, which leaves libcamera with the one it had; the      *)
(* watchdog's clock and latch are reset before the first request is out.   *)
start ==
  /\ loop = "idle" /\ state = "CONFIGURED"
  /\ applied' = generation
  /\ unsent' = (Released /\ (unsent \/ applied # generation))
  /\ quiet' = FALSE /\ capture_failed' = FALSE
  /\ should_stop' = FALSE
  /\ \/ /\ started' = TRUE /\ queued' = 0 /\ dead' = FALSE
        /\ device' = IF Released THEN device ELSE Effective
        /\ loop' = "queueing" /\ left' = Buffers
     \/ StartMayFail /\ UNCHANGED <<lcamVars, device, loopVars>>
  /\ told' = FALSE
  /\ UNCHANGED <<state, mapped, setVars, cbVars, slotVars, readVars, wd,
                 polled>>

(* Requests are queued one by one, while the first may already complete.   *)
queueInitial ==
  /\ loop = "queueing" /\ left > 0
  /\ \/ /\ queued' = queued + 1 /\ left' = left - 1
        /\ UNCHANGED loop
     \/ /\ QueueMayFail
        /\ loop' = "failing"
        /\ UNCHANGED <<queued, left>>
  /\ UNCHANGED <<state, should_stop, mapped, started, dead, setVars, ctlVars,
                 cbVars, slotVars, readVars, wdVars>>

(* The server starts its watchdog once every camera runs. *)
startDone ==
  /\ loop = "queueing" /\ left = 0
  /\ state' = "RUNNING"
  /\ loop' = "idle"
  /\ wd' = "idle"
  /\ UNCHANGED <<should_stop, mapped, lcamVars, left, setVars, ctlVars, cbVars,
                 slotVars, readVars, quiet, capture_failed, told, polled>>

(* lcam->stop returns when no callback runs; requests left are cancelled.  *)
lcamStop ==
  /\ cb = "idle"
  /\ started' = FALSE /\ queued' = 0 /\ dead' = FALSE

(* start gives up: the camera stays CONFIGURED, latest_frame_ as it is.    *)
startFailed ==
  /\ loop = "failing"
  /\ lcamStop
  /\ loop' = "idle" /\ left' = 0
  /\ UNCHANGED <<state, should_stop, mapped, setVars, ctlVars, cbVars,
                 slotVars, readVars, wdVars>>

(* stop, after the server has joined its watchdog. *)
stop ==
  /\ loop = "idle" /\ state = "RUNNING"
  /\ wd = "idle" /\ wd' = "off"
  /\ should_stop' = TRUE
  /\ loop' = "stopping"
  /\ UNCHANGED <<state, mapped, lcamVars, left, setVars, ctlVars, cbVars,
                 slotVars, readVars, quiet, capture_failed, told, polled>>

(* A stop that does not wait for libcamera. *)
stopDone_NoWait ==
  /\ loop = "stopping"
  /\ started' = FALSE /\ queued' = 0 /\ dead' = FALSE
  /\ latest' = {}
  /\ state' = "CONFIGURED"
  /\ loop' = "idle"
  /\ UNCHANGED <<should_stop, mapped, left, setVars, ctlVars, cbVars,
                 latest_seq, frames, readVars, wdVars>>

stopDone ==
  /\ loop = "stopping"
  /\ lcamStop
  /\ latest' = {}
  /\ state' = "CONFIGURED"
  /\ loop' = "idle"
  /\ UNCHANGED <<should_stop, mapped, left, setVars, ctlVars, cbVars,
                 latest_seq, frames, readVars, wdVars>>
-----------------------------------------------------------------------------
(* Setters, on the loop thread: the value, the flag that selects it, and   *)
(* the generation last.  A frame duration is one variable, 0 for none.     *)

(* The flag is stored before the value it selects. *)
setControl_FlagFirst(v) ==
  /\ loop = "idle" /\ state \in {"CONFIGURED", "RUNNING"}
  /\ generation < MaxSets
  /\ asked' = asked \cup {v}
  /\ auto' = (v = Automatic)
  /\ loop' = IF v = Automatic THEN "bump" ELSE "flag"
  /\ UNCHANGED <<state, should_stop, mapped, lcamVars, left, control, hw_max, value,
                 generation, ctlVars, cbVars, slotVars, readVars, wdVars>>

setControl(v) ==
  /\ loop = "idle" /\ state \in {"CONFIGURED", "RUNNING"}
  /\ generation < MaxSets
  /\ asked' = asked \cup {v}
  /\ value' = IF v = Automatic THEN value ELSE v
  /\ auto' = IF v = Automatic THEN TRUE ELSE auto /\ control # "duration"
  /\ loop' = IF v = Automatic \/ control = "duration" THEN "bump" ELSE "flag"
  /\ UNCHANGED <<state, should_stop, mapped, lcamVars, left, control, hw_max,
                 generation, ctlVars, cbVars, slotVars, readVars, wdVars>>

setFlag ==
  /\ loop = "flag"
  /\ auto' = FALSE
  /\ loop' = "bump"
  /\ UNCHANGED <<state, should_stop, mapped, lcamVars, left, control, hw_max, value,
                 generation, asked, ctlVars, cbVars, slotVars, readVars,
                 wdVars>>

bumpGeneration ==
  /\ loop = "bump"
  /\ generation' = generation + 1
  /\ loop' = "idle"
  /\ UNCHANGED <<state, should_stop, mapped, lcamVars, left, control, hw_max, auto,
                 value, asked, ctlVars, cbVars, slotVars, readVars, wdVars>>
-----------------------------------------------------------------------------
(* onRequestComplete, on the completion thread.                            *)

(* A completion without a buffer that keeps its request. *)
onRequestComplete_NoRequeue ==
  /\ started /\ ~dead /\ queued > 0 /\ cb = "idle"
  /\ frames < MaxFrames
  /\ queued' = queued - 1
  /\ UNCHANGED <<state, should_stop, mapped, started, dead, loopVars, setVars,
                 ctlVars, cbVars, slotVars, readVars, wdVars>>

(* A request completes.  With a frame in it, the watchdog's clock is set   *)
(* first; without one it only goes back.                                   *)
onRequestComplete ==
  /\ started /\ ~dead /\ queued > 0 /\ cb = "idle"
  /\ frames < MaxFrames
  /\ queued' = queued - 1
  /\ \/ /\ should_stop
        /\ UNCHANGED <<cb, frames, quiet, told>>
     \/ /\ ~should_stop
        /\ cb' = "clear"
        /\ frames' = frames + 1
        /\ quiet' = FALSE /\ told' = FALSE
     \/ /\ ~should_stop
        /\ cb' = "requeue"
        /\ UNCHANGED <<frames, quiet, told>>
  /\ UNCHANGED <<state, should_stop, mapped, started, dead, loopVars, setVars,
                 ctlVars, cbGen, cbSet, latest, latest_seq, readVars,
                 capture_failed, wd, polled>>

clearLatch ==
  /\ cb = "clear"
  /\ capture_failed' = FALSE
  /\ cb' = "publish"
  /\ UNCHANGED <<state, should_stop, mapped, lcamVars, loopVars, setVars,
                 ctlVars, cbGen, cbSet, slotVars, readVars, quiet, wd, told,
                 polled>>

(* After onFrameCaptured the frame becomes the newest one. *)
publish ==
  /\ cb = "publish"
  /\ latest' = {frames}
  /\ latest_seq' = latest_seq + 1
  /\ cb' = "requeue"
  /\ UNCHANGED <<state, should_stop, mapped, lcamVars, loopVars, setVars,
                 ctlVars, cbGen, cbSet, frames, readVars, wdVars>>

(* A request on its way back that is counted, with a frame or not.         *)
loadGeneration_Counts ==
  /\ cb = "requeue"
  /\ cb' = IF should_stop THEN "idle"
           ELSE IF generation = applied THEN "queue" ELSE "flag"
  /\ cbGen' = generation
  /\ cbSet' = {}
  /\ latest_seq' = latest_seq + 1
  /\ UNCHANGED <<state, should_stop, mapped, lcamVars, loopVars, setVars,
                 ctlVars, latest, frames, readVars, wdVars>>

(* The generation is loaded before the setting it belongs to. *)
loadGeneration ==
  /\ cb = "requeue"
  /\ cb' = IF should_stop THEN "idle"
           ELSE IF generation = applied THEN "queue" ELSE "flag"
  /\ cbGen' = generation
  /\ cbSet' = {}
  /\ UNCHANGED <<state, should_stop, mapped, lcamVars, loopVars, setVars,
                 ctlVars, slotVars, readVars, wdVars>>

(* A release that is left out, as start does. *)
loadFlag_OmitsRelease ==
  /\ cb = "flag"
  /\ IF auto \/ control = "duration"
     THEN /\ cb' = "queue" /\ applied' = cbGen
          /\ unsent' = (Released /\ hw_max = 0)
          /\ cbSet' = IF Released THEN {} ELSE {Effective}
     ELSE cb' = "value" /\ UNCHANGED <<cbSet, applied, unsent>>
  /\ UNCHANGED <<state, should_stop, mapped, lcamVars, loopVars, setVars,
                 device, cbGen, slotVars, readVars, wdVars>>

(* Automatic is known from the flag alone, a frame duration from its       *)
(* variable; a manual focus or exposure is a second load.  A frame         *)
(* duration is released by the range of the hardware, if it is known.      *)
loadFlag ==
  /\ cb = "flag"
  /\ IF auto \/ control = "duration"
     THEN /\ cb' = "queue" /\ applied' = cbGen
          /\ unsent' = (Released /\ hw_max = 0)
          /\ cbSet' = IF Released /\ hw_max = 0 THEN {} ELSE {Effective}
     ELSE cb' = "value" /\ UNCHANGED <<cbSet, applied, unsent>>
  /\ UNCHANGED <<state, should_stop, mapped, lcamVars, loopVars, setVars,
                 device, cbGen, slotVars, readVars, wdVars>>

(* One that records the generation of the moment, not the one it loaded. *)
loadValue_Latest ==
  /\ cb = "value"
  /\ cb' = "queue" /\ cbSet' = {value} /\ applied' = generation
  /\ unsent' = FALSE
  /\ UNCHANGED <<state, should_stop, mapped, lcamVars, loopVars, setVars,
                 device, cbGen, slotVars, readVars, wdVars>>

loadValue ==
  /\ cb = "value"
  /\ cb' = "queue" /\ cbSet' = {value} /\ applied' = cbGen
  /\ unsent' = FALSE
  /\ UNCHANGED <<state, should_stop, mapped, lcamVars, loopVars, setVars,
                 device, cbGen, slotVars, readVars, wdVars>>

(* lcam->queueRequest takes the controls attached to the request; without  *)
(* one the setting stays.                                                  *)
queueRequest ==
  /\ cb = "queue"
  /\ queued' = queued + 1
  /\ device' = IF cbSet = {} THEN device ELSE CHOOSE v \in cbSet : TRUE
  /\ cb' = "idle" /\ cbSet' = {}
  /\ UNCHANGED <<state, should_stop, mapped, started, dead, loopVars, setVars,
                 applied, unsent, cbGen, slotVars, readVars, wdVars>>
-----------------------------------------------------------------------------
(* Streamers, the watchdog, and what libcamera does by itself.             *)

(* A cursor that is moved past the frame, not to it. *)
getFrameForStreaming_Again(s) ==
  /\ latest # {}
  /\ cursor' = [cursor EXCEPT ![s] = latest_seq + 1]
  /\ got' = [got EXCEPT ![s] = CHOOSE n \in latest : TRUE]
  /\ UNCHANGED <<state, should_stop, mapped, lcamVars, loopVars, setVars,
                 ctlVars, cbVars, slotVars, wdVars>>

getFrameForStreaming(s) ==
  /\ latest # {} /\ latest_seq > cursor[s]
  /\ cursor' = [cursor EXCEPT ![s] = latest_seq]
  /\ got' = [got EXCEPT ![s] = CHOOSE n \in latest : TRUE]
  /\ UNCHANGED <<state, should_stop, mapped, lcamVars, loopVars, setVars,
                 ctlVars, cbVars, slotVars, wdVars>>

(* captureStalledForUs: the limit has gone by ... *)
captureStalledForUs ==
  /\ wd = "idle" /\ state = "RUNNING"
  /\ quiet
  /\ wd' = "mark" /\ polled' = frames
  /\ UNCHANGED <<state, should_stop, mapped, lcamVars, loopVars, setVars,
                 ctlVars, cbVars, slotVars, readVars, quiet, capture_failed,
                 told>>

(* ... markCaptureFailed: and only the first to set the latch reports it.  *)
markCaptureFailed ==
  /\ wd = "mark"
  /\ capture_failed' = TRUE
  /\ told' = (told \/ (~capture_failed /\ polled = frames))
  /\ wd' = "idle"
  /\ UNCHANGED <<state, should_stop, mapped, lcamVars, loopVars, setVars,
                 ctlVars, cbVars, slotVars, readVars, quiet, polled>>

limitPasses ==
  /\ started /\ ~quiet
  /\ quiet' = TRUE
  /\ UNCHANGED <<state, should_stop, mapped, lcamVars, loopVars, setVars,
                 ctlVars, cbVars, slotVars, readVars, capture_failed, wd, told,
                 polled>>

(* "Camera frontend has timed out!": no request completes any more. *)
frontendTimesOut ==
  /\ started /\ ~dead
  /\ dead' = TRUE
  /\ UNCHANGED <<state, should_stop, mapped, started, queued, loopVars,
                 setVars, ctlVars, cbVars, slotVars, readVars, wdVars>>
-----------------------------------------------------------------------------
LoopThread ==
  \/ configure \/ unconfigure
  \/ start \/ queueInitial \/ startDone \/ startFailed \/ stop \/ stopDone
  \/ \E v \in Values \cup {Automatic} : setControl(v)
  \/ setFlag \/ bumpGeneration

CompletionThread ==
  \/ clearLatch \/ publish \/ loadGeneration \/ loadFlag \/ loadValue
  \/ queueRequest

Watchdog == captureStalledForUs \/ markCaptureFailed

Next ==
  \/ LoopThread \/ onRequestComplete \/ CompletionThread \/ Watchdog
  \/ \E s \in Consumers : getFrameForStreaming(s)
  \/ limitPasses \/ frontendTimesOut

Spec == Init /\ [][Next]_vars

(* The watchdog ticks, a callback goes on, and time passes. *)
FairSpec ==
  /\ Spec
  /\ WF_vars(Watchdog) /\ WF_vars(CompletionThread) /\ WF_vars(limitPasses)
-----------------------------------------------------------------------------
(* Properties.                                                             *)

(* Every variable holds a value the code can give it.                      *)
TypeOK ==
  /\ state \in {"IDLE", "CONFIGURED", "RUNNING"}
  /\ mapped \in BOOLEAN /\ control \in Controls /\ hw_max \in HwMax
  /\ started \in BOOLEAN /\ should_stop \in BOOLEAN /\ dead \in BOOLEAN
  /\ queued \in 0 .. Buffers /\ left \in 0 .. Buffers
  /\ loop \in {"idle", "queueing", "failing", "stopping", "flag", "bump"}
  /\ auto \in BOOLEAN /\ value \in Values \cup {0}
  /\ generation \in 0 .. MaxSets /\ applied \in 0 .. generation
  /\ device \in Values \cup {0, Automatic} /\ unsent \in BOOLEAN
  /\ asked \subseteq Values \cup {Automatic}
  /\ cb \in {"idle", "clear", "publish", "requeue", "flag", "value", "queue"}
  /\ cbGen \in 0 .. generation /\ cbSet \subseteq Values \cup {0, Automatic}
  /\ frames \in 0 .. MaxFrames /\ latest_seq \in 0 .. MaxFrames
  /\ latest \subseteq 1 .. MaxFrames
  /\ cursor \in [Consumers -> 0 .. MaxFrames]
  /\ got \in [Consumers -> 0 .. MaxFrames]
  /\ quiet \in BOOLEAN /\ capture_failed \in BOOLEAN /\ told \in BOOLEAN
  /\ polled \in 0 .. frames
  /\ wd \in {"off", "idle", "mark"}

(* No setting is lost: once the completion thread has caught up with the   *)
(* generation, libcamera was given what the client set last, however the   *)
(* setter's stores and the callback's loads were interleaved.  A release   *)
(* of the frame duration is the only setting the code may count as applied *)
(* without sending it: in start, or with a camera of unknown range.  It is *)
(* excepted as long as the client stays with it, and no other is.          *)
ControlsConverge ==
  /\ started /\ generation = applied
  /\ loop \notin {"flag", "bump"} /\ cb \notin {"flag", "value", "queue"}
  => IF unsent THEN Released ELSE device = Effective

(* No setting is torn: libcamera is never given a manual mode with a value *)
(* no client asked for.                                                    *)
OnlyAsked == device \in asked

(* No callback copies from a buffer that has been unmapped. *)
BuffersMapped == cb # "idle" => mapped

(* No request leaks: while the camera runs each of them is with libcamera  *)
(* or in the hands of the callback, so capture cannot run dry.             *)
RequestsConserved ==
  state = "RUNNING" /\ ~should_stop =>
    queued + (IF cb = "idle" THEN 0 ELSE 1) = Buffers

(* The consumers of the slot are independent: each gets ever newer frames, *)
(* across stops and starts.                                                *)
ConsumersMoveForward ==
  [][\A s \in Consumers : cursor'[s] # cursor[s] => got'[s] > got[s]]_vars

(* camera.cpp: a permanent frontend timeout yields exactly one report, so  *)
(* a camera that has died is reported, unless stop_cameras comes first.    *)
StallReported == dead /\ wd # "off" ~> told \/ wd = "off"
=============================================================================
