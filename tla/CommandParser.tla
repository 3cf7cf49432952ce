--------------------------- MODULE CommandParser ---------------------------
(***************************************************************************)
(* The pure command tables of command_parser.cpp: which role a command is  *)
(* open to, and in which system state it is accepted.  A refused command   *)
(* is answered with an error and changes nothing.                          *)
(***************************************************************************)
EXTENDS Integers

(* ClientRole and CameraState of types.hpp; its ERROR is never assigned. *)
Roles == {"COMMANDER", "OBSERVER"}
CameraState == {"IDLE", "CONFIGURED", "RUNNING"}

otherRole(r) == IF r = "COMMANDER" THEN "OBSERVER" ELSE "COMMANDER"

(* What an observer may send: enumeration, its own streams and getters. *)
ObserverCommands ==
  {"Discover", "GetState", "StartStream", "StopStream", "SetHeaderOnly",
   "GetFrameDurationLimits", "GetLensPositionLimits", "GetFocusFomRegion"}

(* The commands that mutate the shared pipeline: the commander's alone. *)
CommanderCommands ==
  {"Configure", "Unconfigure", "SetProcessMode", "TriggerCapture",
   "StartCameras", "StopCameras", "ResetFrameCounts", "SetLensPosition",
   "SetExposureTime", "SetFrameDuration"}

CommandKind == ObserverCommands \cup CommanderCommands

(* A gate that forgets the role.                                           *)
isCommandPermitted_NoRole(kind, role) == TRUE

isCommandPermitted(kind, role) ==
  role = "COMMANDER" \/ kind \in ObserverCommands

isCommandAllowed(kind, current, role) ==
  \/ kind \in {"Discover", "GetState", "SetProcessMode", "ResetFrameCounts",
               "SetHeaderOnly"}
  \/ kind = "Configure" /\ current = "IDLE"
  \/ kind \in {"Unconfigure", "StartCameras"} /\ current = "CONFIGURED"
  \/ /\ kind \in {"StartStream", "StopStream"}
     /\ role = "OBSERVER" \/ current = "RUNNING"
  \/ kind \in {"StopCameras", "TriggerCapture"} /\ current = "RUNNING"
  \/ /\ kind \in {"SetLensPosition", "SetExposureTime", "SetFrameDuration",
                  "GetFrameDurationLimits", "GetLensPositionLimits",
                  "GetFocusFomRegion"}
     /\ current \in {"CONFIGURED", "RUNNING"}
=============================================================================
