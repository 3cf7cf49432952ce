------------------------------ MODULE Capacity ------------------------------
(***************************************************************************)
(* Can this capture be sustained?  The arithmetic of capacity.cpp and the  *)
(* decision start_cameras takes from it (checkCaptureFeasibility).  Rates  *)
(* are bytes per second; the code's doubles are exact here up to the point *)
(* where it truncates to whole bytes.                                      *)
(***************************************************************************)
EXTENDS Integers

CONSTANTS Second,      \* microseconds in a second
          BudgetFloor, \* kFloor: the smallest default backlog budget
          BudgetCap    \* kCap: the largest

ASSUME CapacityAssumption ==
  /\ Second \in Nat \ {0}
  /\ BudgetFloor \in Nat \ {0} /\ BudgetCap \in Nat
  /\ BudgetFloor <= BudgetCap

frameBytes(width, height) == (width * height * 3) \div 2

(* Half the available memory, within bounds; 0 stands for unknown. *)
defaultBacklogBudgetBytes(mem) ==
  CASE mem \div 2 < BudgetFloor -> BudgetFloor
    [] mem \div 2 > BudgetCap   -> BudgetCap
    [] OTHER                    -> mem \div 2

(* The cadence: the lock, else the fastest mode; not positive if unknown. *)
Period(lock, hw_min) == IF lock > 0 THEN lock ELSE hw_min

(* The demand of one camera, whatever their number. *)
computeDemand_OneCamera(width, height, camera_count, lock, hw_min) ==
  LET bytes == frameBytes(width, height)
      period == Period(lock, hw_min)
  IN [bytes_per_frame |-> bytes,
      bytes_per_second |->
        IF period <= 0 THEN 0 ELSE (bytes * Second) \div period]

(* bytes_per_second is 0 when the cadence is unknown. *)
computeDemand(width, height, camera_count, lock, hw_min) ==
  LET bytes == frameBytes(width, height)
      period == Period(lock, hw_min)
      cameras == IF camera_count = 0 THEN 1 ELSE camera_count
  IN [bytes_per_frame |-> bytes,
      bytes_per_second |->
        IF period <= 0 THEN 0 ELSE (bytes * Second * cameras) \div period]

(* Is the disk fast enough?  Only BATCH has a rate to hold against it. *)
checkDiskThroughput(mode, save_frames, demand, disk) ==
  \/ mode # "BATCH" \/ ~save_frames
  \/ demand.bytes_per_second = 0 \/ disk = 0
  \/ demand.bytes_per_second <= disk

(* Does the budget hold two seconds of BUFFER? *)
checkBufferHeadroom(mode, save_frames, demand, budget) ==
  \/ mode # "BUFFER" \/ ~save_frames
  \/ demand.bytes_per_frame = 0 \/ budget = 0
  \/ demand.bytes_per_second = 0
  \/ budget >= 2 * demand.bytes_per_second

(* What start_cameras knows: the mode and its flags, the geometry of the   *)
(* first camera, the cadence, the memory (budget_asked = 0: use the        *)
(* default), the disk's rate as configured and as probed.                  *)
backlogBudget(c) ==
  IF c.budget_asked > 0 THEN c.budget_asked
                        ELSE defaultBacklogBudgetBytes(c.mem)
diskRate(c) == IF c.disk_asked > 0 THEN c.disk_asked ELSE c.disk_probed

checkCaptureFeasibility(c) ==
  LET demand == computeDemand(c.width, c.height, c.cameras, c.lock, c.hw_min)
  IN \/ c.mode = "NONE" \/ c.cameras = 0
     \/ c.allow_overcommit
     \/ /\ checkBufferHeadroom(c.mode, c.save_frames, demand,
                               backlogBudget(c))
        /\ checkDiskThroughput(c.mode, c.save_frames, demand, diskRate(c))
=============================================================================
