--------------------------- MODULE RateController ---------------------------
(***************************************************************************)
(* AdaptiveRateController: the pace of a session's chunks.  Runs of sent   *)
(* chunks raise the rate, backpressure lowers it, more so in quick         *)
(* succession; the pace is an exponential average of the rate, and both    *)
(* move only together.                                                     *)
(*                                                                         *)
(* Rates are whole numbers of a small fraction of a chunk per second.      *)
(***************************************************************************)
EXTENDS Integers

CONSTANTS MinRate, MaxRate, InitialRate,  \* in those units
          SuccessRun,   \* sent chunks that do not yet raise the rate
          MaxEvents     \* bound: backpressure events between two resets

ASSUME RateAssumption ==
  /\ MinRate \in Nat /\ MaxRate \in Nat /\ InitialRate \in Nat
  /\ MinRate <= InitialRate /\ InitialRate <= MaxRate
  /\ SuccessRun \in Nat /\ MaxEvents \in Nat

VARIABLES current_rate, smoothed_rate, consecutive_successes,
          backpressure_events,
          recent   \* was the last backpressure less than a second ago?

rateVars == <<current_rate, smoothed_rate, consecutive_successes,
              backpressure_events, recent>>

Clamp(r) == IF r < MinRate THEN MinRate ELSE IF r > MaxRate THEN MaxRate ELSE r

adjustRate(percent) ==
  /\ current_rate' = Clamp((current_rate * percent) \div 100)
  /\ smoothed_rate' = (7 * smoothed_rate + 3 * current_rate') \div 10

RateInit ==
  /\ current_rate = InitialRate /\ smoothed_rate = InitialRate
  /\ consecutive_successes = 0 /\ backpressure_events = 0
  /\ recent = FALSE

recordChunkSent ==
  /\ IF consecutive_successes + 1 > SuccessRun
     THEN adjustRate(110) /\ consecutive_successes' = 0
     ELSE /\ consecutive_successes' = consecutive_successes + 1
          /\ UNCHANGED <<current_rate, smoothed_rate>>
  /\ UNCHANGED <<backpressure_events, recent>>

recordBackpressure ==
  /\ backpressure_events < MaxEvents
  /\ backpressure_events' = backpressure_events + 1
  /\ consecutive_successes' = 0
  /\ adjustRate(IF recent THEN 35 ELSE 50)
  /\ recent' = TRUE

(* A reset that forgets the average. *)
reset_KeepsAverage ==
  /\ current_rate' = InitialRate
  /\ consecutive_successes' = 0 /\ backpressure_events' = 0
  /\ UNCHANGED <<smoothed_rate, recent>>

(* reset keeps last_backpressure_time. *)
reset ==
  /\ current_rate' = InitialRate /\ smoothed_rate' = InitialRate
  /\ consecutive_successes' = 0 /\ backpressure_events' = 0
  /\ UNCHANGED recent

secondPasses ==
  /\ recent /\ recent' = FALSE
  /\ UNCHANGED <<current_rate, smoothed_rate, consecutive_successes,
                 backpressure_events>>

RateNext == recordChunkSent \/ recordBackpressure \/ reset \/ secondPasses

(* Backpressure never speeds a session up: although the pace trails the    *)
(* rate, and may be on its way up when backpressure halves the rate, no    *)
(* recordBackpressure raises either of them, and neither leaves the range. *)
PressureSlows ==
  [][/\ smoothed_rate' \in MinRate .. MaxRate
     /\ backpressure_events' > backpressure_events =>
          /\ current_rate' <= current_rate
          /\ smoothed_rate' <= smoothed_rate]_rateVars
=============================================================================
