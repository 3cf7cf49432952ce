--------------------------- MODULE CaptureSession ---------------------------
(***************************************************************************)
(* What a recording session promises, without threads, queues or modes: a  *)
(* frame is let in while the session is open and the budget has room, is   *)
(* held in memory, and leaves it once, to the disk or as a failed write;   *)
(* a session is over only when nothing is held any more.                   *)
(***************************************************************************)
EXTENDS Integers, FiniteSets

CONSTANTS Frames, Budget

VARIABLES open,        \* has start_cameras begun a session?
          held,        \* accepted frames in memory
          disk, lost   \* frames written, frames whose write failed

sessionVars == <<open, held, disk, lost>>

Init == open = FALSE /\ held = {} /\ disk = {} /\ lost = {}

Begin == ~open /\ open' = TRUE /\ UNCHANGED <<held, disk, lost>>

Accept(f) ==
  /\ open
  /\ f \notin held \cup disk \cup lost
  /\ Cardinality(held) < Budget
  /\ held' = held \cup {f}
  /\ UNCHANGED <<open, disk, lost>>

(* One frame, or at the end of a BUFFER session all of them. *)
Write(S) ==
  /\ open /\ held' = held \ S
  /\ \E failed \in SUBSET S : disk' = disk \cup (S \ failed)
                              /\ lost' = lost \cup failed
  /\ UNCHANGED open

End == open /\ held = {} /\ open' = FALSE /\ UNCHANGED <<held, disk, lost>>

Next ==
  \/ Begin \/ End
  \/ \E f \in Frames : Accept(f)
  \/ \E S \in SUBSET held : Write(S)

Spec == Init /\ [][Next]_sessionVars
=============================================================================
