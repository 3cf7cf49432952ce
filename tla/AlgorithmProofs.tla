--------------------------- MODULE AlgorithmProofs ---------------------------
(***************************************************************************)
(* Proofs about the pure parts, for every image, sensor, capture and pace. *)
(***************************************************************************)
EXTENDS Algorithms, FiniteSetTheorems, FunctionTheorems, TLAPS

(***************************************************************************)
(* Whole numbers: what \div and % return.                                  *)
(***************************************************************************)
LEMMA DivBounds ==
  ASSUME NEW n \in Int, NEW d \in Nat \ {0}
  PROVE  /\ n \div d \in Int
         /\ (n \div d) * d <= n
         /\ n < (n \div d) * d + d
BY Z3T(30)

LEMMA DivNat ==
  ASSUME NEW n \in Nat, NEW d \in Nat \ {0}
  PROVE  n \div d \in Nat
BY Z3T(30)

LEMMA DivMod ==
  ASSUME NEW n \in Int, NEW d \in Nat \ {0}
  PROVE  n % d = n - d * (n \div d)
BY Z3T(30)

LEMMA MulMono ==
  ASSUME NEW a \in Int, NEW b \in Int, NEW p \in Nat
  PROVE  /\ a * p \in Int
         /\ a <= b => a * p <= b * p
         /\ a < b /\ p > 0 => a * p < b * p
BY Z3T(30)

LEMMA MulNat ==
  ASSUME NEW a \in Nat, NEW b \in Nat
  PROVE  a * b \in Nat
BY Z3T(30)

LEMMA MulOrder ==
  ASSUME NEW a \in Nat, NEW b \in Nat, NEW c \in Nat
  PROVE  a * b * c = c * a * b
BY Z3T(30)

(***************************************************************************)
(* The pace of a session.                                                  *)
(***************************************************************************)

(* The rate is at most about twice the pace: were it more, half of it      *)
(* could still pull the pace up.                                           *)
RateInv ==
  /\ current_rate \in Nat /\ smoothed_rate \in Nat
  /\ consecutive_successes \in Nat /\ backpressure_events \in Nat
  /\ MinRate <= current_rate /\ current_rate <= MaxRate
  /\ MinRate <= smoothed_rate /\ smoothed_rate <= MaxRate
  /\ current_rate <= 2 * smoothed_rate + 4

LEMMA RateInvInit == Init => RateInv
BY RateAssumption DEF Init, RateInit, RateInv

(* What adjustRate does to a rate and a pace that are in range. *)
LEMMA ClampRange ==
  ASSUME NEW r \in Int
  PROVE  /\ Clamp(r) \in Nat
         /\ MinRate <= Clamp(r) /\ Clamp(r) <= MaxRate
         /\ Clamp(r) <= r \/ Clamp(r) = MinRate
BY RateAssumption DEF Clamp

LEMMA AverageRange ==
  ASSUME NEW s \in Nat, NEW c \in Nat,
         MinRate <= s, s <= MaxRate, MinRate <= c, c <= MaxRate
  PROVE  LET a == (7 * s + 3 * c) \div 10
         IN /\ a \in Nat /\ MinRate <= a /\ a <= MaxRate
            /\ 7 * s + 3 * c <= 10 * a + 9
BY RateAssumption

LEMMA AverageFalls ==
  ASSUME NEW s \in Nat, NEW c \in Nat, c <= s + 2
  PROVE  (7 * s + 3 * c) \div 10 <= s
OBVIOUS

(* A rate that was at most about twice the pace still is, once it has gone *)
(* up by a tenth or down and the pace has followed.                        *)
LEMMA RateNearPace ==
  ASSUME NEW c0 \in Nat, NEW s0 \in Nat, NEW r \in Int, NEW c \in Nat,
         NEW s \in Nat,
         c0 <= 2 * s0 + 4, 10 * r <= 11 * c0, c <= r \/ c <= s0,
         7 * s0 + 3 * c <= 10 * s + 9
  PROVE  c <= 2 * s + 4
OBVIOUS

LEMMA RateBelowPace ==
  ASSUME NEW c0 \in Nat, NEW s0 \in Nat, NEW r \in Int, NEW c \in Nat,
         c0 <= 2 * s0 + 4, 2 * r <= c0, c <= r \/ c <= s0
  PROVE  c <= s0 + 2 /\ 10 * r <= 11 * c0
OBVIOUS

LEMMA Raised ==
  ASSUME RateInv, adjustRate(110)
  PROVE  /\ current_rate' \in Nat /\ smoothed_rate' \in Nat
         /\ MinRate <= current_rate' /\ current_rate' <= MaxRate
         /\ MinRate <= smoothed_rate' /\ smoothed_rate' <= MaxRate
         /\ current_rate' <= 2 * smoothed_rate' + 4
<1> DEFINE r == (current_rate * 110) \div 100
           c == current_rate'
           s == smoothed_rate
<1>1. r \in Int /\ 10 * r <= 11 * current_rate BY DEF RateInv
<1>2. c = Clamp(r) BY DEF adjustRate
<1>3. /\ c \in Nat /\ MinRate <= c /\ c <= MaxRate
      /\ c <= r \/ c = MinRate
  BY <1>1, <1>2, ClampRange
<1>4. smoothed_rate' = (7 * s + 3 * c) \div 10 BY DEF adjustRate
<1>5. /\ smoothed_rate' \in Nat
      /\ MinRate <= smoothed_rate' /\ smoothed_rate' <= MaxRate
      /\ 7 * s + 3 * c <= 10 * smoothed_rate' + 9
  BY <1>3, <1>4, AverageRange DEF RateInv
<1>6. c <= r \/ c <= s BY <1>3 DEF RateInv
<1> HIDE DEF r
<1>7. c <= 2 * smoothed_rate' + 4
  BY <1>1, <1>3, <1>5, <1>6, RateNearPace DEF RateInv
<1>8. QED BY <1>3, <1>5, <1>7

LEMMA Lowered ==
  ASSUME RateInv, NEW p \in {35, 50}, adjustRate(p)
  PROVE  /\ current_rate' \in Nat /\ smoothed_rate' \in Nat
         /\ MinRate <= current_rate' /\ current_rate' <= MaxRate
         /\ MinRate <= smoothed_rate' /\ smoothed_rate' <= MaxRate
         /\ current_rate' <= 2 * smoothed_rate' + 4
         /\ current_rate' <= current_rate
         /\ smoothed_rate' <= smoothed_rate
<1> DEFINE r == (current_rate * p) \div 100
           c == current_rate'
           s == smoothed_rate
<1>1. r \in Int /\ 2 * r <= current_rate BY DEF RateInv
<1>2. c = Clamp(r) BY DEF adjustRate
<1>3. /\ c \in Nat /\ MinRate <= c /\ c <= MaxRate
      /\ c <= r \/ c = MinRate
  BY <1>1, <1>2, ClampRange
<1>4. smoothed_rate' = (7 * s + 3 * c) \div 10 BY DEF adjustRate
<1>5. c <= r \/ c <= s BY <1>3 DEF RateInv
<1> HIDE DEF r
<1>6. c <= s + 2 /\ 10 * r <= 11 * current_rate
  BY <1>1, <1>3, <1>5, RateBelowPace DEF RateInv
<1>7. /\ smoothed_rate' \in Nat
      /\ MinRate <= smoothed_rate' /\ smoothed_rate' <= MaxRate
      /\ 7 * s + 3 * c <= 10 * smoothed_rate' + 9
  BY <1>3, <1>4, AverageRange DEF RateInv
<1>8. smoothed_rate' <= s BY <1>3, <1>4, <1>6, AverageFalls DEF RateInv
<1>9. c <= current_rate BY <1>1, <1>3 DEF RateInv
<1>10. c <= 2 * smoothed_rate' + 4
  BY <1>1, <1>3, <1>5, <1>6, <1>7, RateNearPace DEF RateInv
<1>11. QED BY <1>3, <1>7, <1>8, <1>9, <1>10

LEMMA RateInvStep == RateInv /\ [Next]_vars => RateInv'
<1> SUFFICES ASSUME RateInv, [Next]_vars PROVE RateInv'
  OBVIOUS
<1>1. CASE UNCHANGED rateVars BY <1>1 DEF rateVars, RateInv
<1>2. CASE recordChunkSent
  <2>1. CASE adjustRate(110) /\ consecutive_successes' = 0
    BY <1>2, <2>1, Raised DEF recordChunkSent, RateInv
  <2>2. CASE UNCHANGED <<current_rate, smoothed_rate>>
             /\ consecutive_successes' = consecutive_successes + 1
    BY <1>2, <2>2 DEF recordChunkSent, RateInv
  <2>3. QED BY <1>2, <2>1, <2>2 DEF recordChunkSent
<1>3. CASE recordBackpressure
  <2>1. PICK p \in {35, 50} : adjustRate(p) BY <1>3 DEF recordBackpressure
  <2>2. consecutive_successes' = 0
        /\ backpressure_events' = backpressure_events + 1
    BY <1>3 DEF recordBackpressure
  <2>3. QED BY <2>1, <2>2, Lowered DEF RateInv
<1>4. CASE reset BY <1>4, RateAssumption DEF reset, RateInv
<1>5. CASE secondPasses BY <1>5 DEF secondPasses, RateInv
<1>6. QED
  BY <1>1, <1>2, <1>3, <1>4, <1>5
  DEF Next, vars, RateTurn, RawTurn, RateNext, rateVars

(* No step of recordBackpressure speeds a session up, whatever its limits. *)
THEOREM BackpressureSlows == Spec => PressureSlows
<1> DEFINE A == /\ smoothed_rate' \in MinRate .. MaxRate
                /\ backpressure_events' > backpressure_events =>
                     /\ current_rate' <= current_rate
                     /\ smoothed_rate' <= smoothed_rate
<1>1. RateInv /\ [Next]_vars => [A]_rateVars
  <2> SUFFICES ASSUME RateInv, [Next]_vars, ~UNCHANGED rateVars PROVE A
    OBVIOUS
  <2>1. RateInv' BY RateInvStep
  <2>2. smoothed_rate' \in MinRate .. MaxRate
    BY <2>1, RateAssumption DEF RateInv
  <2>3. CASE recordBackpressure
    <3>1. PICK p \in {35, 50} : adjustRate(p) BY <2>3 DEF recordBackpressure
    <3>2. QED BY <2>2, <3>1, Lowered
  <2>4. CASE ~recordBackpressure
    <3>1. ~(backpressure_events' > backpressure_events)
      BY <2>4
      DEF RateInv, Next, vars, RateTurn, RawTurn, RateNext, rateVars,
          recordChunkSent, reset, secondPasses
    <3>2. QED BY <2>2, <3>1
  <2>5. QED BY <2>3, <2>4
<1>2. QED BY <1>1, RateInvInit, RateInvStep, PTL DEF Spec, PressureSlows

(***************************************************************************)
(* The input is one of the cases, and keeps its kind.                      *)
(***************************************************************************)
InputInv == input \in Inputs

LEMMA InputInit == Init => InputInv
BY DEF Init, InputInv

LEMMA InputStep == InputInv /\ [Next]_vars => InputInv'
BY DEF InputInv, Next, vars, RateTurn, RawTurn, Inputs

LEMMA Kinds ==
  ASSUME NEW x \in Inputs
  PROVE  /\ x.kind = "subsample" => x \in SubsampleInputs
         /\ x.kind = "focus" => x \in FocusInputs
         /\ x.kind = "raw" => x \in RawInputs
         /\ x.kind = "capture" => x \in CaptureInputs
<1>1. /\ \A y \in SubsampleInputs : y.kind = "subsample"
      /\ \A y \in FocusInputs : y.kind = "focus"
      /\ \A y \in RawInputs : y.kind = "raw"
      /\ \A y \in CaptureInputs : y.kind = "capture"
  <2>1. \A y \in SubsampleInputs : y.kind = "subsample"
    BY AlgorithmAssumption
  <2>2. \A y \in FocusInputs : y.kind = "focus"
    BY AlgorithmAssumption
  <2>3. \A y \in RawInputs : y.kind = "raw"
    BY AlgorithmAssumption
  <2>4. \A y \in CaptureInputs : y.kind = "capture"
    BY AlgorithmAssumption
  <2>5. QED BY <2>1, <2>2, <2>3, <2>4
<1>2. [kind |-> "rate"].kind = "rate" OBVIOUS
<1>3. CASE x = [kind |-> "rate"] BY <1>2, <1>3
<1>4. CASE x \in SubsampleInputs BY <1>1, <1>4
<1>5. CASE x \in FocusInputs BY <1>1, <1>5
<1>6. CASE x \in RawInputs BY <1>1, <1>6
<1>7. CASE x \in CaptureInputs BY <1>1, <1>7
<1>8. QED BY <1>3, <1>4, <1>5, <1>6, <1>7 DEF Inputs

(***************************************************************************)
(* The choice of the raw mode.                                             *)
(***************************************************************************)
Fits(formats, size, i) == formats[i].depth > 0 /\ size \in formats[i].sizes

(* b is the deepest of the formats before the n-th that offer the size, or *)
(* NoMode when there is none.                                              *)
DeepestBefore(formats, size, n, b) ==
  \/ /\ b = NoMode
     /\ \A i \in DOMAIN formats : i < n => ~Fits(formats, size, i)
  \/ \E k \in DOMAIN formats :
       /\ k < n /\ Fits(formats, size, k)
       /\ b = [depth |-> formats[k].depth, index |-> k]
       /\ \A i \in DOMAIN formats :
            i < n /\ Fits(formats, size, i) =>
              formats[i].depth <= formats[k].depth

RawInv ==
  input.kind = "raw" =>
    /\ next \in Nat /\ next >= 1
    /\ DeepestBefore(input.formats, input.size, next, best)

LEMMA RawInvInit == Init => RawInv
<1> SUFFICES ASSUME Init, input.kind = "raw" PROVE RawInv
  BY DEF RawInv
<1>1. input \in RawInputs BY Kinds DEF Init
<1>2. input.formats \in Seq(RawFormats) BY <1>1, AlgorithmAssumption
<1>3. \A i \in DOMAIN input.formats : ~(i < 1) BY <1>2
<1>4. next = 1 /\ best = NoMode BY DEF Init, RawInit
<1>5. QED BY <1>3, <1>4 DEF RawInv, DeepestBefore

LEMMA RawRound ==
  ASSUME NEW formats \in Seq(RawFormats), NEW size,
         NEW n \in Nat, n >= 1, n <= Len(formats), NEW b,
         DeepestBefore(formats, size, n, b)
  PROVE  DeepestBefore(formats, size, n + 1,
           IF /\ formats[n].depth # 0
              /\ size \in formats[n].sizes
              /\ b = NoMode \/ formats[n].depth > b.depth
           THEN [depth |-> formats[n].depth, index |-> n]
           ELSE b)
<1> DEFINE fit(i) == Fits(formats, size, i)
           c == [depth |-> formats[n].depth, index |-> n]
<1>1. /\ n \in DOMAIN formats /\ n < n + 1
      /\ \A i \in DOMAIN formats :
           /\ formats[i].depth \in Nat
           /\ i < n + 1 => i < n \/ i = n
           /\ i < n => i < n + 1
  <2>1. DOMAIN formats = 1 .. Len(formats) /\ Len(formats) \in Nat OBVIOUS
  <2>2. \A i \in DOMAIN formats : formats[i] \in RawFormats OBVIOUS
  <2>3. \A i \in DOMAIN formats : formats[i].depth \in Nat
    BY <2>2 DEF RawFormats
  <2>4. QED BY <2>1, <2>3
<1>2. (formats[n].depth # 0 /\ size \in formats[n].sizes) <=> fit(n)
  BY <1>1 DEF Fits
<1> HIDE DEF fit
<1>3. CASE /\ b = NoMode
           /\ \A i \in DOMAIN formats : i < n => ~fit(i)
  <2>1. CASE fit(n)
    <3>1. \A i \in DOMAIN formats :
            i < n + 1 /\ fit(i) => formats[i].depth <= formats[n].depth
      BY <1>1, <1>3
    <3>2. DeepestBefore(formats, size, n + 1, c)
      BY <1>1, <2>1, <3>1 DEF DeepestBefore, fit
    <3>3. QED BY <1>2, <1>3, <2>1, <3>2
  <2>2. CASE ~fit(n)
    <3>1. \A i \in DOMAIN formats : i < n + 1 => ~fit(i)
      BY <1>1, <1>3, <2>2
    <3>2. DeepestBefore(formats, size, n + 1, b)
      BY <1>3, <3>1 DEF DeepestBefore, fit
    <3>3. QED BY <1>2, <2>2, <3>2
  <2>3. QED BY <2>1, <2>2
<1>4. ASSUME NEW k \in DOMAIN formats, k < n, fit(k),
             b = [depth |-> formats[k].depth, index |-> k],
             \A i \in DOMAIN formats :
               i < n /\ fit(i) => formats[i].depth <= formats[k].depth
      PROVE  DeepestBefore(formats, size, n + 1,
               IF fit(n) /\ (b = NoMode \/ formats[n].depth > b.depth)
               THEN c ELSE b)
  <2>1. b.depth = formats[k].depth BY <1>4
  <2>2. b # NoMode
    <3>1. formats[k].depth > 0 BY <1>4 DEF fit, Fits
    <3>2. NoMode.depth = 0 BY DEF NoMode
    <3>3. QED BY <2>1, <3>1, <3>2
  <2>3. CASE fit(n) /\ formats[n].depth > b.depth
    <3>1. \A i \in DOMAIN formats :
            i < n + 1 /\ fit(i) => formats[i].depth <= formats[n].depth
      BY <1>1, <1>4, <2>1, <2>3
    <3>2. DeepestBefore(formats, size, n + 1, c)
      BY <1>1, <2>3, <3>1 DEF DeepestBefore, fit
    <3>3. QED BY <2>3, <3>2
  <2>4. CASE ~(fit(n) /\ formats[n].depth > b.depth)
    <3>1. \A i \in DOMAIN formats :
            i < n + 1 /\ fit(i) => formats[i].depth <= formats[k].depth
      BY <1>1, <1>4, <2>1, <2>4
    <3>2. DeepestBefore(formats, size, n + 1, b)
      BY <1>1, <1>4, <3>1 DEF DeepestBefore, fit
    <3>3. QED BY <2>2, <2>4, <3>2
  <2>5. QED BY <2>3, <2>4
<1>5. QED BY <1>2, <1>3, <1>4 DEF DeepestBefore, fit

LEMMA RawInvStep == InputInv /\ RawInv /\ [Next]_vars => RawInv'
<1> SUFFICES ASSUME InputInv, RawInv, [Next]_vars, input'.kind = "raw"
             PROVE  RawInv'
  BY DEF RawInv
<1>1. CASE UNCHANGED <<input, rawVars>>
  BY <1>1 DEF RawInv, rawVars
<1>2. CASE RawTurn
  <2>1. input' = input BY <1>2 DEF RawTurn
  <2>2. input \in RawInputs BY <1>2, Kinds DEF RawTurn, InputInv
  <2>3. input.formats \in Seq(RawFormats) BY <2>2, AlgorithmAssumption
  <2>4. /\ next \in Nat /\ next >= 1 /\ next <= Len(input.formats)
        /\ DeepestBefore(input.formats, input.size, next, best)
        /\ next' = next + 1
    BY <1>2 DEF RawTurn, selectRawMode, RawInv
  <2>5. DeepestBefore(input.formats, input.size, next + 1, best')
    BY <1>2, <2>3, <2>4, RawRound DEF RawTurn, selectRawMode
  <2>6. QED BY <2>1, <2>4, <2>5 DEF RawInv
<1>3. QED BY <1>1, <1>2 DEF Next, vars, RateTurn

LEMMA RawInvDeepest == InputInv /\ RawInv => RawModeDeepest
<1> DEFINE formats == input.formats
           fits == {i \in DOMAIN formats : Fits(formats, input.size, i)}
<1> SUFFICES ASSUME InputInv, RawInv, input.kind = "raw", next > Len(formats)
             PROVE  IF fits = {} THEN best = NoMode
                    ELSE /\ best.index \in fits
                         /\ best.depth = formats[best.index].depth
                         /\ \A i \in fits : formats[i].depth <= best.depth
  BY DEF RawModeDeepest, Fits
<1>1. input \in RawInputs BY Kinds DEF InputInv
<1>2. formats \in Seq(RawFormats) BY <1>1, AlgorithmAssumption
<1>3. \A i \in DOMAIN formats : i < next BY <1>2 DEF RawInv
<1>4. DeepestBefore(formats, input.size, next, best) BY DEF RawInv
<1>5. CASE /\ best = NoMode
           /\ \A i \in DOMAIN formats : i < next => ~Fits(formats, input.size, i)
  BY <1>3, <1>5
<1>6. ASSUME NEW k \in DOMAIN formats, Fits(formats, input.size, k),
             best = [depth |-> formats[k].depth, index |-> k],
             \A i \in DOMAIN formats :
               i < next /\ Fits(formats, input.size, i) =>
                 formats[i].depth <= formats[k].depth
      PROVE  /\ fits # {} /\ best.index \in fits
             /\ best.depth = formats[best.index].depth
             /\ \A i \in fits : formats[i].depth <= best.depth
  <2>1. best.index = k /\ best.depth = formats[k].depth BY <1>6
  <2>2. QED BY <1>3, <1>6, <2>1
<1>7. QED BY <1>4, <1>5, <1>6 DEF DeepestBefore

(* Whatever formats a sensor lists, and in whatever order, selectRawMode   *)
(* ends with the deepest one that offers the size.                         *)
THEOREM DeepestModeSelected == Spec => []RawModeDeepest
<1>1. InputInv /\ RawInv /\ [Next]_vars => (InputInv /\ RawInv)'
  BY InputStep, RawInvStep
<1>2. QED
  BY <1>1, InputInit, RawInvInit, RawInvDeepest, PTL DEF Spec

(***************************************************************************)
(* What a capture demands.                                                 *)
(***************************************************************************)

(* q, the whole bytes in one of p, against a rate d and a budget b: the    *)
(* part that is cut off is less than one byte.                             *)
LEMMA RateAgainst ==
  ASSUME NEW total \in Nat, NEW p \in Nat \ {0}, NEW q \in Nat,
         q * p <= total, total < q * p + p,
         NEW d \in Nat
  PROVE  /\ q <= d => total < (d + 1) * p
         /\ q > d => total > d * p
         /\ 2 * q <= d => 2 * total < (d + 2) * p
         /\ 2 * q > d => 2 * total > d * p
<1>1. (q + 1) * p = q * p + p OBVIOUS
<1>2. (2 * q) * p = 2 * (q * p) OBVIOUS
<1>3. (2 * q + 2) * p = 2 * (q * p) + 2 * p OBVIOUS
<1>4. q * p \in Nat BY MulNat
<1>5. ASSUME q <= d PROVE total < (d + 1) * p
  <2>1. (q + 1) * p <= (d + 1) * p BY <1>5, MulMono
  <2>2. (d + 1) * p \in Nat BY MulNat
  <2>3. QED BY <1>1, <1>4, <2>1, <2>2
<1>6. ASSUME q > d PROVE total > d * p
  <2>1. d * p < q * p BY <1>6, MulMono
  <2>2. d * p \in Nat BY MulNat
  <2>3. QED BY <1>4, <2>1, <2>2
<1>7. ASSUME 2 * q <= d PROVE 2 * total < (d + 2) * p
  <2>1. (2 * q + 2) * p <= (d + 2) * p BY <1>7, MulMono
  <2>2. (d + 2) * p \in Nat BY MulNat
  <2>3. QED BY <1>3, <1>4, <2>1, <2>2
<1>8. ASSUME 2 * q > d PROVE 2 * total > d * p
  <2>1. d * p < (2 * q) * p BY <1>8, MulMono
  <2>2. d * p \in Nat BY MulNat
  <2>3. QED BY <1>2, <1>4, <2>1, <2>2
<1>9. QED BY <1>5, <1>6, <1>7, <1>8

LEMMA FrameBytesNat ==
  ASSUME NEW w \in Nat, NEW h \in Nat
  PROVE  frameBytes(w, h) \in Nat
<1>1. w * h \in Nat BY MulNat
<1>2. QED BY <1>1 DEF frameBytes

(* A budget that is not asked for is never 0, so that the headroom is      *)
(* always checked.                                                         *)
LEMMA BudgetPositive ==
  ASSUME NEW c \in CaptureInputs
  PROVE  backlogBudget(c) \in Nat /\ backlogBudget(c) > 0
<1>1. c.budget_asked \in Nat /\ c.mem \in Nat BY AlgorithmAssumption
<1>2. QED
  BY <1>1, CapacityAssumption DEF backlogBudget, defaultBacklogBudgetBytes

LEMMA SustainedInput ==
  ASSUME InputInv, input.kind = "capture"
  PROVE  AcceptedIsSustained
<1> DEFINE c == input
           p == Period(c.lock, c.hw_min)
           bytes == frameBytes(c.width, c.height)
           total == c.cameras * bytes * Second
           disk == diskRate(c)
           budget == backlogBudget(c)
           cd == computeDemand(c.width, c.height, c.cameras, c.lock, c.hw_min)
           q == cd.bytes_per_second
<1>1. c \in CaptureInputs BY Kinds DEF InputInv
<1>2. /\ c.width \in Nat /\ c.height \in Nat /\ c.cameras \in Nat
      /\ c.lock \in Int /\ c.hw_min \in Int
      /\ c.disk_asked \in Nat /\ c.disk_probed \in Nat
  BY <1>1, AlgorithmAssumption
<1>3. c.save_frames \in BOOLEAN /\ c.allow_overcommit \in BOOLEAN
  BY <1>1, AlgorithmAssumption, Zenon
<1>4. p \in Int /\ disk \in Nat BY <1>2 DEF Period, diskRate
<1>5. budget \in Nat /\ budget > 0 BY <1>1, BudgetPositive
<1>6. bytes \in Nat BY <1>2, FrameBytesNat
<1>7. total \in Nat /\ bytes * Second \in Nat
  BY <1>2, <1>6, CapacityAssumption, MulNat
<1> HIDE DEF c, p, bytes, disk, budget
<1>8. c.cameras = 0 => total = 0 BY <1>2, <1>6, CapacityAssumption
<1>9. bytes = 0 => total = 0 BY <1>2, <1>6, CapacityAssumption
<1>10. c.cameras # 0 => bytes * Second * c.cameras = total
  BY <1>2, <1>6, CapacityAssumption, MulOrder
<1>11. cd = [bytes_per_frame |-> bytes,
             bytes_per_second |->
               IF p <= 0 THEN 0
               ELSE (bytes * Second
                     * (IF c.cameras = 0 THEN 1 ELSE c.cameras)) \div p]
  BY DEF computeDemand, bytes, p
<1>12. cd.bytes_per_frame = bytes BY <1>11
<1>13. c.cameras # 0 => q = IF p <= 0 THEN 0 ELSE total \div p
  BY <1>10, <1>11
<1> HIDE DEF total, cd
<1>14. ASSUME c.cameras # 0, p > 0
       PROVE  /\ q \in Nat /\ q * p <= total /\ total < q * p + p
  <2>1. p \in Nat \ {0} BY <1>4, <1>14
  <2>2. q = total \div p BY <1>13, <1>14, <2>1
  <2>3. total \div p \in Nat BY <1>7, <2>1, DivNat
  <2>4. /\ (total \div p) * p <= total
        /\ total < (total \div p) * p + p
    BY <1>7, <2>1, DivBounds
  <2>5. QED BY <2>2, <2>3, <2>4
<1>15. p <= 0 => c.cameras = 0 \/ q = 0 BY <1>4, <1>13
<1>16. checkCaptureFeasibility(c) <=>
         \/ c.mode = "NONE" \/ c.cameras = 0 \/ c.allow_overcommit
         \/ /\ \/ c.mode # "BUFFER" \/ ~c.save_frames \/ bytes = 0
               \/ budget = 0 \/ q = 0 \/ budget >= 2 * q
            /\ \/ c.mode # "BATCH" \/ ~c.save_frames
               \/ q = 0 \/ disk = 0 \/ q <= disk
  BY <1>12 DEF checkCaptureFeasibility, checkBufferHeadroom,
               checkDiskThroughput, cd, disk, budget
<1>17. ASSUME checkCaptureFeasibility(c), ~c.allow_overcommit,
              c.save_frames, p > 0
       PROVE  /\ c.mode = "BATCH" /\ disk > 0 => total < (disk + 1) * p
              /\ c.mode = "BUFFER" => 2 * total < (budget + 2) * p
  <2>1. p \in Nat \ {0} BY <1>4, <1>17
  <2>2. /\ total = 0 => total < (disk + 1) * p
        /\ total = 0 => 2 * total < (budget + 2) * p
    <3>1. 0 * p < (disk + 1) * p /\ 0 * p < (budget + 2) * p
      BY <1>4, <1>5, <1>17, MulMono
    <3>2. 0 * p = 0 BY <1>4
    <3>3. QED BY <3>1, <3>2
  <2>3. CASE c.cameras = 0 BY <1>8, <2>2, <2>3
  <2>4. CASE c.cameras # 0 /\ c.mode = "BATCH" /\ disk > 0
    <3>1. q \in Nat /\ q * p <= total /\ total < q * p + p
      BY <1>14, <1>17, <2>4
    <3>2. q = 0 \/ q <= disk BY <1>4, <1>16, <1>17, <2>4
    <3>3. q <= disk BY <1>4, <3>1, <3>2
    <3>4. total < (disk + 1) * p
      BY <1>4, <1>7, <2>1, <3>1, <3>3, RateAgainst, Zenon
    <3>5. QED BY <2>4, <3>4
  <2>5. CASE c.cameras # 0 /\ c.mode = "BUFFER"
    <3>1. q \in Nat /\ q * p <= total /\ total < q * p + p
      BY <1>14, <1>17, <2>5
    <3>2. bytes = 0 \/ q = 0 \/ budget >= 2 * q
      BY <1>5, <1>16, <1>17, <2>5
    <3>3. CASE bytes = 0 BY <1>9, <2>2, <2>5, <3>3
    <3>4. CASE 2 * q <= budget
      <4>1. 2 * q <= budget => 2 * total < (budget + 2) * p
        BY <1>5, <1>7, <2>1, <3>1, RateAgainst, Zenon
      <4>2. QED BY <2>5, <3>4, <4>1
    <3>5. QED BY <1>5, <3>1, <3>2, <3>3, <3>4
  <2>6. QED BY <2>3, <2>4, <2>5
<1>18. ASSUME ~checkCaptureFeasibility(c)
       PROVE  /\ c.save_frames /\ ~c.allow_overcommit /\ p > 0
              /\ \/ c.mode = "BATCH" /\ disk > 0 /\ total > disk * p
                 \/ c.mode = "BUFFER" /\ 2 * total > budget * p
  <2>1. /\ c.cameras # 0 /\ ~c.allow_overcommit
        /\ \/ /\ c.mode = "BUFFER" /\ c.save_frames /\ q # 0
              /\ ~(budget >= 2 * q)
           \/ /\ c.mode = "BATCH" /\ c.save_frames /\ q # 0
              /\ disk # 0 /\ ~(q <= disk)
    BY <1>16, <1>18, Zenon
  <2>2. p > 0 BY <1>4, <1>15, <2>1
  <2>3. p \in Nat \ {0} BY <1>4, <2>2
  <2>4. q \in Nat /\ q * p <= total /\ total < q * p + p
    BY <1>14, <2>1, <2>2
  <2>5. q > disk => total > disk * p
    BY <1>4, <1>7, <2>3, <2>4, RateAgainst, Zenon
  <2>6. 2 * q > budget => 2 * total > budget * p
    BY <1>5, <1>7, <2>3, <2>4, RateAgainst, Zenon
  <2>7. QED BY <1>4, <1>5, <2>1, <2>2, <2>4, <2>5, <2>6
<1>19. QED
  BY <1>17, <1>18
  DEF AcceptedIsSustained, c, p, bytes, total, disk, budget

(* For every geometry, number of cameras, cadence, disk and budget, what   *)
(* start_cameras accepts can be sustained and what it refuses cannot.      *)
THEOREM CapturesSustained == Spec => []AcceptedIsSustained
<1>1. InputInv => AcceptedIsSustained
  BY SustainedInput DEF AcceptedIsSustained
<1>2. QED BY <1>1, InputInit, InputStep, PTL DEF Spec

(***************************************************************************)
(* The block behind the focus figure.                                      *)
(***************************************************************************)

(* Eight cells fit into a mode, and sixteen do not. *)
LEMMA CellSize ==
  ASSUME NEW mode \in Nat, mode >= 16
  PROVE  /\ cellSize(mode, 8) \in Nat /\ cellSize(mode, 8) >= 2
         /\ 8 * cellSize(mode, 8) <= mode /\ mode < 16 * cellSize(mode, 8)
BY DEF cellSize, Even

(* Adding half the divisor rounds to the nearest. *)
LEMMA Rounding ==
  ASSUME NEW x \in Nat, NEW m \in Nat \ {0}
  PROVE  LET v == (x + m \div 2) \div m
         IN /\ v \in Nat
            /\ v * m <= x + m \div 2 /\ x + m \div 2 < v * m + m
            /\ 2 * (v * m - x) <= m /\ -2 * (v * m - x) <= m
<1> DEFINE n == x + m \div 2
           v == n \div m
           k == v * m
<1>1. m \div 2 \in Nat /\ 2 * (m \div 2) <= m /\ m <= 2 * (m \div 2) + 1
  OBVIOUS
<1>2. n \in Nat BY <1>1
<1>3. v \in Nat BY <1>2, DivNat
<1>4. k <= n /\ n < k + m BY <1>2, DivBounds
<1>5. k \in Nat BY <1>3, MulNat
<1> HIDE DEF k, v
<1>6. 2 * (k - x) <= m /\ -2 * (k - x) <= m BY <1>1, <1>4, <1>5
<1>7. QED BY <1>3, <1>4, <1>6 DEF k, v

(* Positions at least a divisor apart stay apart when they are rounded. *)
LEMMA RoundingApart ==
  ASSUME NEW x \in Nat, NEW y \in Nat, NEW m \in Nat \ {0}, x + m <= y
  PROVE  (x + m \div 2) \div m < (y + m \div 2) \div m
<1> DEFINE b == (x + m \div 2) \div m
           e == (y + m \div 2) \div m
<1>1. b \in Nat /\ b * m <= x + m \div 2 BY Rounding
<1>2. e \in Nat /\ y + m \div 2 < e * m + m BY Rounding
<1>3. m \div 2 \in Nat OBVIOUS
<1> HIDE DEF b, e
<1>4. b * m \in Nat /\ e * m \in Nat BY <1>1, <1>2, MulNat
<1>5. b * m < e * m BY <1>1, <1>2, <1>3, <1>4
<1>6. ASSUME e <= b PROVE FALSE
  <2>1. e * m <= b * m BY <1>1, <1>2, <1>6, MulMono
  <2>2. QED BY <1>4, <1>5, <2>1
<1>7. QED BY <1>1, <1>2, <1>6 DEF b, e

(* A position inside an axis of m pixels rounds inside one of n. *)
LEMMA RoundingInside ==
  ASSUME NEW x \in Nat, NEW m \in Nat \ {0}, NEW n \in Nat, x <= n * m
  PROVE  (x + m \div 2) \div m <= n
<1> DEFINE v == (x + m \div 2) \div m
<1>1. v \in Nat /\ v * m <= x + m \div 2 BY Rounding
<1>2. m \div 2 \in Nat /\ m \div 2 < m OBVIOUS
<1> HIDE DEF v
<1>3. v * m \in Nat /\ n * m \in Nat BY <1>1, MulNat
<1>4. v * m < n * m + m BY <1>1, <1>2, <1>3
<1>5. (n + 1) * m = n * m + m OBVIOUS
<1>6. ASSUME n + 1 <= v PROVE FALSE
  <2>1. (n + 1) * m <= v * m BY <1>1, <1>6, MulMono
  <2>2. QED BY <1>3, <1>4, <1>5, <2>1
<1>7. QED BY <1>1, <1>6 DEF v

LEMMA FocusAxis ==
  ASSUME NEW mode \in Nat, NEW frame \in Nat, mode >= 16, frame >= 4,
         NEW part \in {3, 4}
  PROVE  SpanInside(fomSpan(mode, frame, 8, part), mode, frame)
<1> DEFINE c == cellSize(mode, 8)
           b == 2 * c
           e == 6 * c
           s == fomSpan(mode, frame, 8, part)
<1>1. c \in Nat /\ c >= 2 /\ 8 * c <= mode /\ mode < 16 * c BY CellSize
<1>2. 8 \div part = 2 OBVIOUS
<1> HIDE DEF c
<1>3. s = [sensor |-> [begin |-> b, size |-> 4 * c],
           frame |-> scaleSpan(b, e, mode, frame)]
  <2>1. (8 - 2 * 2) * c = 4 * c /\ b + (8 - 2 * 2) * c = e BY <1>1
  <2>2. QED BY <1>2, <2>1 DEF fomSpan, c
<1>4. s.sensor.begin = b /\ s.sensor.size = 4 * c
      /\ s.frame = scaleSpan(b, e, mode, frame)
  BY <1>3
<1> HIDE DEF s
<1>5. /\ b \in Nat /\ e \in Nat /\ 4 * c > 0 /\ b + 4 * c = e
      /\ e <= mode
  BY <1>1
<1>6. CASE mode = frame
  <2>1. s.frame = [begin |-> b, size |-> e - b] BY <1>4, <1>6 DEF scaleSpan
  <2>2. s.frame.begin = b /\ s.frame.size = e - b BY <2>1
  <2>3. Nearest(b, b, mode, mode) /\ Nearest(e, e, mode, mode)
    <3>1. b * mode \in Nat /\ e * mode \in Nat BY <1>5, MulNat
    <3>2. QED BY <3>1 DEF Nearest
  <2>4. b + (e - b) = e /\ e - b > 0 BY <1>1, <1>5
  <2> HIDE DEF b, e
  <2>5. /\ s.sensor.size > 0 /\ s.sensor.begin + s.sensor.size = e
        /\ s.frame.size > 0 /\ s.frame.begin + s.frame.size = e
    BY <1>4, <1>5, <2>2, <2>4
  <2>6. SpanInside(s, mode, frame)
    BY <1>4, <1>5, <1>6, <2>2, <2>3, <2>5, Zenon DEF SpanInside
  <2>7. QED BY <2>6 DEF s
<1>7. CASE mode # frame
  <2> DEFINE x == b * frame
             y == e * frame
             fb == (x + mode \div 2) \div mode
             fe == (y + mode \div 2) \div mode
  <2>1. s.frame = [begin |-> fb, size |-> fe - fb]
    BY <1>4, <1>7 DEF scaleSpan
  <2>2. s.frame.begin = fb /\ s.frame.size = fe - fb BY <2>1
  <2>3. x \in Nat /\ y \in Nat BY <1>5, MulNat
  <2>4. mode \in Nat \ {0} OBVIOUS
  <2>5. x + mode <= y
    <3>1. y = x + frame * (4 * c) BY <1>1
    <3>2. 4 * (4 * c) <= frame * (4 * c) BY <1>1, MulMono
    <3>3. frame * (4 * c) \in Nat BY <1>1, MulNat
    <3>4. QED BY <1>1, <2>3, <3>1, <3>2, <3>3
  <2>6. y <= frame * mode
    <3>1. e * frame <= mode * frame BY <1>5, MulMono
    <3>2. mode * frame = frame * mode OBVIOUS
    <3>3. QED BY <3>1, <3>2
  <2> HIDE DEF x, y
  <2>7. fb \in Nat /\ 2 * (fb * mode - x) <= mode
        /\ -2 * (fb * mode - x) <= mode
    BY <2>3, <2>4, Rounding
  <2>8. fe \in Nat /\ 2 * (fe * mode - y) <= mode
        /\ -2 * (fe * mode - y) <= mode
    BY <2>3, <2>4, Rounding
  <2>9. fb < fe BY <2>3, <2>4, <2>5, RoundingApart
  <2>10. fe <= frame BY <2>3, <2>4, <2>6, RoundingInside
  <2> HIDE DEF fb, fe
  <2>11. Nearest(fb, b, mode, frame) /\ Nearest(fe, e, mode, frame)
    BY <2>7, <2>8 DEF Nearest, x, y
  <2>12. fb + (fe - fb) = fe /\ fe - fb > 0 BY <2>7, <2>8, <2>9
  <2> HIDE DEF b, e
  <2>13. /\ s.sensor.size > 0 /\ s.sensor.begin + s.sensor.size = e
         /\ s.frame.size > 0 /\ s.frame.begin + s.frame.size = fe
    BY <1>4, <1>5, <2>2, <2>12
  <2>14. SpanInside(s, mode, frame)
    BY <1>4, <1>5, <2>2, <2>10, <2>11, <2>13, Zenon DEF SpanInside
  <2>15. QED BY <2>14 DEF s
<1>8. QED BY <1>6, <1>7

LEMMA FocusInput ==
  ASSUME InputInv, input.kind = "focus"
  PROVE  FocusInside
<1>1. input \in FocusInputs BY Kinds DEF InputInv
<1>2. /\ input.mode_width \in Nat /\ input.mode_height \in Nat
      /\ input.frame_width \in Nat /\ input.frame_height \in Nat
  BY <1>1, AlgorithmAssumption
<1>3. /\ input.mode_width >= 16 /\ input.frame_width >= 4
      /\ input.mode_height >= 16 /\ input.frame_height >= 4
  <2>1. 2 * kPispCdafGridSize = 16 BY DEF kPispCdafGridSize
  <2>2. QED BY <1>1, <2>1, AlgorithmAssumption
<1>4. /\ SpanInside(fomSpan(input.mode_width, input.frame_width, 8, 4),
                    input.mode_width, input.frame_width)
      /\ SpanInside(fomSpan(input.mode_height, input.frame_height, 8, 3),
                    input.mode_height, input.frame_height)
  BY <1>2, <1>3, FocusAxis
<1>5. QED BY <1>4, Zenon DEF FocusInside, fomRegion, kPispCdafGridSize

(***************************************************************************)
(* Pixels of a plane.                                                      *)
(***************************************************************************)

(* A position of row and column divides back into them. *)
LEMMA DivBlock ==
  ASSUME NEW q \in Nat, NEW d \in Nat \ {0}, NEW r \in Nat, r < d
  PROVE  (q * d + r) \div d = q /\ (q * d + r) % d = r
<1> DEFINE n == q * d + r
           v == n \div d
<1>1. q * d \in Nat BY MulNat
<1>2. n \in Nat /\ n \in Int /\ n = q * d + r BY <1>1
<1> HIDE DEF n
<1>3. v \in Int /\ v * d <= n /\ n < v * d + d BY <1>2, DivBounds
<1>4. n % d = n - d * v BY <1>2, DivMod, Zenon
<1> HIDE DEF v
<1>5. v * d \in Int /\ (v + 1) * d = v * d + d /\ (q + 1) * d = q * d + d
  BY <1>3
<1>6. ASSUME v < q PROVE FALSE
  <2>1. (v + 1) * d <= q * d BY <1>3, <1>6, MulMono
  <2>2. QED BY <1>1, <1>2, <1>3, <1>5, <2>1
<1>7. ASSUME q < v PROVE FALSE
  <2>1. (q + 1) * d <= v * d BY <1>3, <1>7, MulMono
  <2>2. QED BY <1>1, <1>2, <1>3, <1>5, <2>1
<1>8. v = q BY <1>3, <1>6, <1>7
<1>9. d * q = q * d OBVIOUS
<1>10. n % d = r BY <1>1, <1>2, <1>4, <1>8, <1>9
<1>11. QED BY <1>8, <1>10 DEF v, n

(* A pixel of a row before the last and of a column inside the stride lies *)
(* before the end of the plane.                                            *)
LEMMA PixelInside ==
  ASSUME NEW row \in Nat, NEW col \in Nat, NEW stride \in Nat,
         NEW height \in Nat, row < height, col < stride
  PROVE  row * stride + col < stride * height
<1>1. (row + 1) * stride <= height * stride BY MulMono
<1>2. (row + 1) * stride = row * stride + stride OBVIOUS
<1>3. height * stride = stride * height OBVIOUS
<1>4. row * stride \in Nat /\ height * stride \in Nat BY MulNat
<1>5. QED BY <1>1, <1>2, <1>3, <1>4

(* A square of f by f pixels has f * f of them, wherever it starts. *)
Square(R, C, f) ==
  {<<R + by, C + bx>> : by \in 0 .. f - 1, bx \in 0 .. f - 1}

LEMMA SquareCardinality ==
  ASSUME NEW R \in Nat, NEW C \in Nat, NEW f \in Nat \ {0}
  PROVE  Cardinality(Square(R, C, f)) = f * f
<1> DEFINE I == 0 .. f - 1
           B == {<<R + by, C + bx>> : by \in I, bx \in I}
           g == [t \in I \X I |-> <<R + t[1], C + t[2]>>]
<1>1. IsFiniteSet(I) /\ Cardinality(I) = f
  <2>1. 0 \in Int /\ f - 1 \in Int /\ ~(0 > f - 1) /\ f - 1 - 0 + 1 = f
    OBVIOUS
  <2>2. QED BY <2>1, FS_Interval
<1>2. IsFiniteSet(I \X I) /\ Cardinality(I \X I) = f * f
  BY <1>1, FS_Product
<1>3. \A i \in I : i \in Nat OBVIOUS
<1> HIDE DEF I
<1>4. g \in Bijection(I \X I, B)
  <2>1. g \in [I \X I -> B]
    <3>1. ASSUME NEW t \in I \X I PROVE g[t] \in B OBVIOUS
    <3>2. QED BY <3>1
  <2>2. ASSUME NEW t \in I \X I, NEW u \in I \X I, g[t] = g[u] PROVE t = u
    <3>1. R + t[1] = R + u[1] /\ C + t[2] = C + u[2] BY <2>2
    <3>2. t[1] \in Nat /\ t[2] \in Nat /\ u[1] \in Nat /\ u[2] \in Nat
      BY <1>3
    <3>3. t[1] = u[1] /\ t[2] = u[2] BY <3>1, <3>2
    <3>4. QED BY <3>3
  <2>3. ASSUME NEW b \in B PROVE \E t \in I \X I : g[t] = b
    <3>1. PICK by \in I, bx \in I : b = <<R + by, C + bx>> OBVIOUS
    <3>2. <<by, bx>> \in I \X I /\ g[<<by, bx>>] = b BY <3>1
    <3>3. QED BY <3>2
  <2>4. g \in Injection(I \X I, B)
    BY <2>1, <2>2 DEF Injection, IsInjective
  <2> HIDE DEF g, B
  <2>5. g \in Surjection(I \X I, B) BY <2>1, <2>3 DEF Surjection
  <2>6. QED BY <2>4, <2>5 DEF Bijection
<1>5. ExistsBijection(I \X I, B) BY <1>4 DEF ExistsBijection
<1>6. Cardinality(B) = f * f
  <2> HIDE DEF B
  <2>1. QED BY <1>2, <1>5, FS_Bijection
<1>7. QED BY <1>6 DEF I, Square

(* The reads of a plane of W by H pixels are as DecimationInside asks. *)
ReadsInside(base, stride, W, H, size, f, reads) ==
  \A o \in DOMAIN reads :
    /\ Cardinality(reads[o]) = f * f
    /\ \A px \in reads[o] :
         /\ px[1] < H /\ px[2] < W
         /\ base + px[1] * stride + px[2] < size
         /\ o = <<px[1] \div f, px[2] \div f>>

(* What decimation by f reads of a plane of W by H pixels that holds f     *)
(* times the rows and columns of the output.                               *)
LEMMA PlaneReads ==
  ASSUME NEW base \in Nat, NEW stride \in Nat, NEW W \in Nat, NEW H \in Nat,
         NEW size \in Nat, NEW f \in Nat \ {0}, NEW dw \in Nat, NEW dh \in Nat,
         W <= stride, base + stride * H <= size, dw * f <= W, dh * f <= H
  PROVE  ReadsInside(base, stride, W, H, size, f, decimatePlane(f, dw, dh))
<1> DEFINE D == (0 .. dh - 1) \X (0 .. dw - 1)
           block(o) == Square(o[1] * f, o[2] * f, f)
<1>1. decimatePlane(f, dw, dh) = [o \in D |-> block(o)]
  BY DEF decimatePlane, Square
<1>2. ASSUME NEW o \in D
      PROVE  /\ Cardinality(block(o)) = f * f
             /\ \A px \in block(o) :
                  /\ px[1] < H /\ px[2] < W
                  /\ base + px[1] * stride + px[2] < size
                  /\ o = <<px[1] \div f, px[2] \div f>>
  <2>1. /\ o[1] \in Nat /\ o[1] < dh /\ o[2] \in Nat /\ o[2] < dw
        /\ o = <<o[1], o[2]>>
    OBVIOUS
  <2>2. o[1] * f \in Nat /\ o[2] * f \in Nat BY <2>1, MulNat
  <2>3. Cardinality(block(o)) = f * f BY <2>2, SquareCardinality
  <2>4. ASSUME NEW px \in block(o)
        PROVE  /\ px[1] < H /\ px[2] < W
               /\ base + px[1] * stride + px[2] < size
               /\ o = <<px[1] \div f, px[2] \div f>>
    <3>1. PICK by \in 0 .. f - 1, bx \in 0 .. f - 1 :
            px = <<o[1] * f + by, o[2] * f + bx>>
      BY <2>4 DEF Square
    <3>2. px[1] = o[1] * f + by /\ px[2] = o[2] * f + bx BY <3>1
    <3>3. by \in Nat /\ by < f /\ bx \in Nat /\ bx < f OBVIOUS
    <3>4. /\ (o[1] + 1) * f = o[1] * f + f /\ (o[2] + 1) * f = o[2] * f + f
          /\ (o[1] + 1) * f <= dh * f /\ (o[2] + 1) * f <= dw * f
      <4>1. (o[1] + 1) * f = o[1] * f + f /\ (o[2] + 1) * f = o[2] * f + f
        BY <2>1
      <4>2. o[1] + 1 <= dh /\ o[2] + 1 <= dw BY <2>1
      <4>3. (o[1] + 1) * f <= dh * f /\ (o[2] + 1) * f <= dw * f
        BY <2>1, <4>2, MulMono
      <4>4. QED BY <4>1, <4>3
    <3>5. dh * f \in Nat /\ dw * f \in Nat BY MulNat
    <3>6. /\ px[1] \in Nat /\ px[2] \in Nat /\ px[1] < H /\ px[2] < W
      BY <2>2, <3>2, <3>3, <3>4, <3>5
    <3>7. base + px[1] * stride + px[2] < size
      <4>1. px[2] < stride BY <3>6
      <4>2. px[1] * stride + px[2] < stride * H
        BY <3>6, <4>1, PixelInside, Zenon
      <4>3. px[1] * stride \in Nat /\ stride * H \in Nat BY <3>6, MulNat
      <4>4. QED BY <3>6, <4>2, <4>3
    <3>8. px[1] \div f = o[1] /\ px[2] \div f = o[2]
      <4>1. (o[1] * f + by) \div f = o[1] BY <2>1, <3>3, DivBlock, Zenon
      <4>2. (o[2] * f + bx) \div f = o[2] BY <2>1, <3>3, DivBlock, Zenon
      <4>3. QED BY <3>2, <4>1, <4>2, Zenon
    <3>9. QED BY <2>1, <3>6, <3>7, <3>8
  <2>5. QED BY <2>3, <2>4
<1> HIDE DEF D, block
<1>3. QED BY <1>1, <1>2 DEF ReadsInside

(***************************************************************************)
(* Decimation.                                                             *)
(***************************************************************************)

(* The decimated geometry is even, and f times it fits into the image; f   *)
(* times half of it fits into half the image.                              *)
LEMMA GeometryFits ==
  ASSUME NEW n \in Nat, NEW f \in {1, 2, 4, 8}
  PROVE  LET g == Even(n \div f)
         IN /\ g \in Nat /\ g \div 2 \in Nat /\ g = 2 * (g \div 2)
            /\ g * f <= n
            /\ (g \div 2) * f <= n \div 2
<1>1. CASE f = 1 BY <1>1 DEF Even
<1>2. CASE f = 2 BY <1>2 DEF Even
<1>3. CASE f = 4 BY <1>3 DEF Even
<1>4. CASE f = 8 BY <1>4 DEF Even
<1>5. QED BY <1>1, <1>2, <1>3, <1>4

(* A YUV420 frame with even sides has half as many chroma bytes as luma. *)
LEMMA EvenFrameBytes ==
  ASSUME NEW a \in Nat, NEW b \in Nat
  PROVE  frameBytes(2 * a, 2 * b) = (2 * a) * (2 * b) + 2 * a * b
<1> DEFINE k == a * b
<1>1. k \in Nat BY MulNat
<1>2. (2 * a) * (2 * b) = 4 * k /\ 2 * a * b = 2 * k OBVIOUS
<1> HIDE DEF k
<1>3. (4 * k * 3) \div 2 = 6 * k BY <1>1
<1>4. QED BY <1>1, <1>2, <1>3 DEF frameBytes

(* The three planes of a frame with all its bytes lie inside the data. *)
LEMMA PlanesInside ==
  ASSUME NEW src \in Sources, src.width <= src.bytes_per_line,
         src.size >= NeededBytes(src), NEW p \in 1 .. 3
  PROVE  LET plane == Planes(src)[p]
         IN /\ plane.base \in Nat /\ plane.stride \in Nat
            /\ plane.width \in Nat /\ plane.height \in Nat
            /\ plane.width <= plane.stride
            /\ plane.base + plane.stride * plane.height <= src.size
            /\ plane.width = IF p = 1 THEN src.width ELSE src.width \div 2
            /\ plane.height = IF p = 1 THEN src.height ELSE src.height \div 2
<1> DEFINE bpl == src.bytes_per_line
           y == bpl * src.height
           us == bpl \div 2
           uh == src.height \div 2
           uw == src.width \div 2
           c == us * uh
<1>1. /\ src.width \in Nat /\ src.height \in Nat /\ bpl \in Nat
      /\ src.size \in Nat
  BY DEF Sources
<1>2. us \in Nat /\ uh \in Nat /\ uw \in Nat /\ uw <= us BY <1>1
<1>3. y \in Nat /\ c \in Nat BY <1>1, <1>2, MulNat
<1>4. y + 2 * c <= src.size BY <1>3 DEF NeededBytes
<1>5. /\ Planes(src)[1] = Plane(0, bpl, src.width, src.height)
      /\ Planes(src)[2] = Plane(y, us, uw, uh)
      /\ Planes(src)[3] = Plane(y + c, us, uw, uh)
  BY DEF Planes
<1>6. CASE p = 1
  <2>1. /\ Planes(src)[p].base = 0 /\ Planes(src)[p].stride = bpl
        /\ Planes(src)[p].width = src.width
        /\ Planes(src)[p].height = src.height
    BY <1>5, <1>6 DEF Plane
  <2> HIDE DEF c
  <2>2. 0 + y <= src.size BY <1>1, <1>3, <1>4
  <2>3. QED BY <1>1, <1>6, <2>1, <2>2
<1>7. CASE p = 2
  <2>1. /\ Planes(src)[p].base = y /\ Planes(src)[p].stride = us
        /\ Planes(src)[p].width = uw /\ Planes(src)[p].height = uh
    BY <1>5, <1>7 DEF Plane
  <2>2. y + c <= src.size
    <3> HIDE DEF y, c
    <3>1. QED BY <1>1, <1>3, <1>4
  <2> HIDE DEF y
  <2>3. QED BY <1>2, <1>3, <1>7, <2>1, <2>2
<1>8. CASE p = 3
  <2>1. /\ Planes(src)[p].base = y + c /\ Planes(src)[p].stride = us
        /\ Planes(src)[p].width = uw /\ Planes(src)[p].height = uh
    BY <1>5, <1>8 DEF Plane
  <2>2. y + c + c <= src.size /\ y + c \in Nat
    <3> HIDE DEF y, c
    <3>1. QED BY <1>1, <1>3, <1>4
  <2> HIDE DEF y
  <2>3. QED BY <1>2, <1>3, <1>8, <2>1, <2>2
<1>9. QED BY <1>6, <1>7, <1>8

LEMMA PlaneDecimated ==
  ASSUME NEW src \in Sources, src.width <= src.bytes_per_line,
         src.size >= NeededBytes(src), NEW p \in 1 .. 3,
         NEW f \in Nat \ {0}, NEW dw \in Nat, NEW dh \in Nat,
         dw * f <= Planes(src)[p].width, dh * f <= Planes(src)[p].height
  PROVE  LET plane == Planes(src)[p]
         IN ReadsInside(plane.base, plane.stride, plane.width, plane.height,
                        src.size, f, decimatePlane(f, dw, dh))
<1> DEFINE plane == Planes(src)[p]
<1>1. src.size \in Nat BY DEF Sources
<1>2. /\ plane.base \in Nat /\ plane.stride \in Nat
      /\ plane.width \in Nat /\ plane.height \in Nat
      /\ plane.width <= plane.stride
      /\ plane.base + plane.stride * plane.height <= src.size
  BY PlanesInside, Zenon
<1>3. QED BY <1>1, <1>2, PlaneReads, Zenon

LEMMA DecimatedInside ==
  ASSUME NEW src \in Sources, src.width <= src.bytes_per_line,
         NEW f \in {1, 2, 4, 8}, f = 1 => src.size >= NeededBytes(src),
         NEW p \in DOMAIN subsampleYuv420(src, f).planes
  PROVE  LET plane == Planes(src)[p]
         IN ReadsInside(plane.base, plane.stride, plane.width, plane.height,
                        src.size, f, subsampleYuv420(src, f).planes[p])
<1> DEFINE out == subsampleYuv420(src, f)
           g == subsampledGeometry(src.width, src.height, f)
           plane == Planes(src)[p]
<1>1. src.width \in Nat /\ src.height \in Nat /\ src.size \in Nat
  BY DEF Sources
<1>2. CASE f = 1
  <2>1. out.planes = [i \in 1 .. 3 |->
                        decimatePlane(1, Planes(src)[i].width,
                                      Planes(src)[i].height)]
    BY <1>2 DEF subsampleYuv420, Image
  <2>2. p \in 1 .. 3 BY <2>1
  <2>3. out.planes[p] = decimatePlane(1, plane.width, plane.height)
    BY <2>1, <2>2
  <2>4. plane.width \in Nat /\ plane.height \in Nat
    BY <1>2, <2>2, PlanesInside, Zenon
  <2>5. plane.width * 1 <= plane.width /\ plane.height * 1 <= plane.height
    BY <2>4
  <2>6. 1 \in Nat \ {0} OBVIOUS
  <2>7. QED BY <1>2, <2>2, <2>3, <2>4, <2>5, <2>6, PlaneDecimated, Zenon
<1>3. CASE f # 1
  <2>1. f \in Nat \ {0} /\ f > 1 /\ ~(f <= 1) BY <1>3
  <2>2. CASE g.width = 0 \/ g.height = 0 \/ src.size < NeededBytes(src)
    <3>1. out.planes = <<>> BY <2>1, <2>2 DEF subsampleYuv420, Image
    <3>2. QED BY <3>1
  <2>3. CASE ~(g.width = 0 \/ g.height = 0 \/ src.size < NeededBytes(src))
    <3> DEFINE w == Even(src.width \div f)
               h == Even(src.height \div f)
    <3>1. g = [width |-> w, height |-> h] BY <2>1 DEF subsampledGeometry
    <3>2. g.width = w /\ g.height = h BY <3>1
    <3>3. out.planes = <<decimatePlane(f, g.width, g.height),
                         decimatePlane(f, g.width \div 2, g.height \div 2),
                         decimatePlane(f, g.width \div 2, g.height \div 2)>>
      BY <2>1, <2>3 DEF subsampleYuv420, Image
    <3>4. /\ w \in Nat /\ w \div 2 \in Nat /\ w * f <= src.width
          /\ (w \div 2) * f <= src.width \div 2
      BY <1>1, GeometryFits, Zenon
    <3>5. /\ h \in Nat /\ h \div 2 \in Nat /\ h * f <= src.height
          /\ (h \div 2) * f <= src.height \div 2
      BY <1>1, GeometryFits, Zenon
    <3>6. src.size >= NeededBytes(src)
      <4>1. NeededBytes(src) \in Nat
        <5>1. src.bytes_per_line \in Nat BY DEF Sources
        <5>2. src.bytes_per_line \div 2 \in Nat /\ src.height \div 2 \in Nat
          BY <1>1, <5>1
        <5>3. /\ src.bytes_per_line * src.height \in Nat
              /\ (src.bytes_per_line \div 2) * (src.height \div 2) \in Nat
          BY <1>1, <5>1, <5>2, MulNat
        <5>4. QED BY <5>3 DEF NeededBytes
      <4>2. QED BY <1>1, <2>3, <4>1
    <3> HIDE DEF w, h
    <3>7. CASE p = 1
      <4>1. out.planes[p] = decimatePlane(f, w, h) BY <3>2, <3>3, <3>7
      <4>2. plane.width = src.width /\ plane.height = src.height
        <5>1. p \in 1 .. 3 BY <3>7
        <5>2. QED BY <3>6, <3>7, <5>1, PlanesInside, Zenon
      <4>3. p \in 1 .. 3 BY <3>7
      <4>4. QED
        BY <2>1, <3>4, <3>5, <3>6, <4>1, <4>2, <4>3, PlaneDecimated, Zenon
    <3>8. CASE p \in {2, 3}
      <4>1. out.planes[p] = decimatePlane(f, w \div 2, h \div 2)
        BY <3>2, <3>3, <3>8
      <4>2. p \in 1 .. 3 /\ p # 1 BY <3>8
      <4>3. plane.width = src.width \div 2 /\ plane.height = src.height \div 2
        BY <3>6, <4>2, PlanesInside, Zenon
      <4>4. QED
        BY <2>1, <3>4, <3>5, <3>6, <4>1, <4>2, <4>3, PlaneDecimated, Zenon
    <3>9. QED
      <4>1. DOMAIN out.planes = 1 .. 3 BY <3>3
      <4>2. p = 1 \/ p \in {2, 3} BY <4>1
      <4>3. QED BY <3>7, <3>8, <4>2
  <2>4. QED BY <2>2, <2>3
<1>4. QED BY <1>2, <1>3

LEMMA DecimatedSize ==
  ASSUME NEW src \in Sources, NEW f \in {1, 2, 4, 8}
  PROVE  LET out == subsampleYuv420(src, f)
         IN out.size \in {0, IF f = 1 THEN src.size
                             ELSE frameBytes(out.width, out.height)}
<1> DEFINE out == subsampleYuv420(src, f)
           g == subsampledGeometry(src.width, src.height, f)
<1>1. src.width \in Nat /\ src.height \in Nat /\ src.size \in Nat
  BY DEF Sources
<1>2. CASE f = 1
  <2>1. out.size = src.size BY <1>2 DEF subsampleYuv420, Image
  <2>2. QED BY <1>2, <2>1
<1>3. CASE f # 1
  <2>1. f > 1 /\ ~(f <= 1) /\ f # 0 BY <1>3
  <2>2. CASE g.width = 0 \/ g.height = 0 \/ src.size < NeededBytes(src)
    <3>1. out.size = 0 BY <2>1, <2>2 DEF subsampleYuv420, Image
    <3>2. QED BY <3>1
  <2>3. CASE ~(g.width = 0 \/ g.height = 0 \/ src.size < NeededBytes(src))
    <3> DEFINE w == Even(src.width \div f)
               h == Even(src.height \div f)
    <3>1. g = [width |-> w, height |-> h] BY <2>1 DEF subsampledGeometry
    <3>2. g.width = w /\ g.height = h BY <3>1
    <3>3. /\ out.size = g.width * g.height
                        + 2 * (g.width \div 2) * (g.height \div 2)
          /\ out.width = g.width /\ out.height = g.height
      BY <2>1, <2>3 DEF subsampleYuv420, Image
    <3>4. w \div 2 \in Nat /\ w = 2 * (w \div 2)
      BY <1>1, GeometryFits, Zenon
    <3>5. h \div 2 \in Nat /\ h = 2 * (h \div 2)
      BY <1>1, GeometryFits, Zenon
    <3> HIDE DEF w, h
    <3>6. frameBytes(2 * (w \div 2), 2 * (h \div 2))
            = (2 * (w \div 2)) * (2 * (h \div 2))
              + 2 * (w \div 2) * (h \div 2)
      BY <3>4, <3>5, EvenFrameBytes, Zenon
    <3>7. frameBytes(w, h) = w * h + 2 * (w \div 2) * (h \div 2)
      BY <3>4, <3>5, <3>6, Zenon
    <3>8. out.size = frameBytes(out.width, out.height)
      BY <3>2, <3>3, <3>7, Zenon
    <3>9. QED BY <1>3, <3>8
  <2>4. QED BY <2>2, <2>3
<1>4. QED BY <1>2, <1>3

(* The frame and the factor of a decimation. *)
LEMMA SubsampleInput ==
  ASSUME InputInv, input.kind = "subsample"
  PROVE  /\ input.src \in Sources /\ input.factor \in {1, 2, 4, 8}
         /\ input.src.width <= input.src.bytes_per_line
         /\ input.factor = 1 => input.src.size >= NeededBytes(input.src)
<1>1. input \in SubsampleInputs BY Kinds DEF InputInv
<1>2. input.src \in Sources /\ input.factor \in {1, 2, 4, 8}
  BY <1>1, AlgorithmAssumption
<1>3. QED BY <1>1, <1>2, AlgorithmAssumption, Zenon

LEMMA DecimationInput ==
  ASSUME InputInv, input.kind = "subsample"
  PROVE  DecimationInside
<1> DEFINE src == input.src
           f == input.factor
           out == subsampleYuv420(src, f)
<1>1. /\ src \in Sources /\ f \in {1, 2, 4, 8}
      /\ src.width <= src.bytes_per_line
      /\ f = 1 => src.size >= NeededBytes(src)
  BY SubsampleInput
<1> HIDE DEF src, f
<1>2. out.size \in {0, IF f = 1 THEN src.size
                       ELSE frameBytes(out.width, out.height)}
  BY <1>1, DecimatedSize, Zenon
<1>3. \A p \in DOMAIN out.planes :
        ReadsInside(Planes(src)[p].base, Planes(src)[p].stride,
                    Planes(src)[p].width, Planes(src)[p].height,
                    src.size, f, out.planes[p])
  BY <1>1, DecimatedInside, Zenon
<1> HIDE DEF out
<1>4. QED
  BY <1>2, <1>3, Zenon DEF DecimationInside, ReadsInside, src, f, out

LEMMA CornersInput ==
  ASSUME InputInv, input.kind = "subsample"
  PROVE  CornersNear
<1> DEFINE w == input.src.width
           f == input.factor
           g == subsampledGeometry(w, input.src.height, f)
<1>1. w \in Nat /\ f \in {1, 2, 4, 8} BY SubsampleInput DEF Sources
<1>2. g.width = Even(w \div f) BY <1>1 DEF subsampledGeometry
<1> HIDE DEF w, f
<1>3. w > 0 => (8 * (w - 1)) \div f < 8 * (Even(w \div f) + 2)
  <2>1. CASE f = 1 BY <1>1, <2>1 DEF Even
  <2>2. CASE f = 2 BY <1>1, <2>2 DEF Even
  <2>3. CASE f = 4 BY <1>1, <2>3 DEF Even
  <2>4. CASE f = 8 BY <1>1, <2>4 DEF Even
  <2>5. QED BY <1>1, <2>1, <2>2, <2>3, <2>4
<1>4. w > 0 => scaleCornerSets(w - 1, f) < 8 * (g.width + 2)
  BY <1>2, <1>3 DEF scaleCornerSets
<1> HIDE DEF g
<1>5. QED BY <1>4, Zenon DEF CornersNear, w, f, g

LEMMA LumaInput ==
  ASSUME InputInv, input.kind = "subsample"
  PROVE  LumaInside
<1> DEFINE src == input.src
           bpl == src.bytes_per_line
<1>1. src \in Sources /\ src.width <= bpl BY SubsampleInput
<1>2. src.width \in Nat /\ src.height \in Nat /\ bpl \in Nat
  BY <1>1 DEF Sources
<1> HIDE DEF src
<1>3. ASSUME NEW full_res \in BOOLEAN,
             NEW o \in DOMAIN extractYFromYUV420(src, full_res)
      PROVE  LET y == extractYFromYUV420(src, full_res)
             IN y[o] < bpl * src.height /\ y[o] % bpl < src.width
  <2> DEFINE step == IF full_res THEN 1 ELSE 2
             y == extractYFromYUV420(src, full_res)
             D == (0 .. src.height \div step - 1) \X
                  (0 .. src.width \div step - 1)
  <2>1. CASE src.size = 0 \/ bpl = 0
    <3>1. y = <<>> BY <2>1 DEF extractYFromYUV420
    <3>2. QED BY <1>3, <3>1
  <2>2. CASE ~(src.size = 0 \/ bpl = 0)
    <3>1. y = [q \in D |-> q[1] * step * bpl + q[2] * step]
      BY <2>2 DEF extractYFromYUV420
    <3>2. o \in D /\ y[o] = o[1] * step * bpl + o[2] * step BY <1>3, <3>1
    <3>3. step \in {1, 2} OBVIOUS
    <3> HIDE DEF step
    <3>4. /\ o[1] \in Nat /\ o[2] \in Nat
          /\ o[1] < src.height \div step /\ o[2] < src.width \div step
      <4>1. CASE step = 1 BY <1>2, <3>2, <4>1
      <4>2. CASE step = 2 BY <1>2, <3>2, <4>2
      <4>3. QED BY <3>3, <4>1, <4>2
    <3> DEFINE row == o[1] * step
               col == o[2] * step
    <3>5. /\ row \in Nat /\ row < src.height
          /\ col \in Nat /\ col < src.width
      <4>1. CASE step = 1 BY <1>2, <3>4, <4>1
      <4>2. CASE step = 2 BY <1>2, <3>4, <4>2
      <4>3. QED BY <3>3, <4>1, <4>2
    <3>6. y[o] = row * bpl + col BY <3>2
    <3> HIDE DEF row, col, y
    <3>7. col < bpl BY <1>1, <1>2, <3>5
    <3>8. row * bpl + col < bpl * src.height
      BY <1>2, <3>5, <3>7, PixelInside, Zenon
    <3>9. bpl \in Nat \ {0} BY <1>2, <2>2
    <3>10. (row * bpl + col) % bpl = col
      BY <3>5, <3>7, <3>9, DivBlock, Zenon
    <3>11. y[o] < bpl * src.height /\ y[o] % bpl < src.width
      BY <3>5, <3>6, <3>8, <3>10, Zenon
    <3>12. QED BY <3>11 DEF y
  <2>3. QED BY <2>1, <2>2
<1>4. QED BY <1>3, Zenon DEF LumaInside, src

(* For every size, padding and factor, decimation, luma extraction and the *)
(* focus block stay inside the image.                                      *)
THEOREM GeometryStaysInside == Spec => []GeometryInside
<1>1. InputInv => GeometryInside
  <2> SUFFICES ASSUME InputInv PROVE GeometryInside
    OBVIOUS
  <2>1. DecimationInside BY DecimationInput DEF DecimationInside
  <2>2. CornersNear BY CornersInput DEF CornersNear
  <2>3. LumaInside BY LumaInput DEF LumaInside
  <2>4. FocusInside BY FocusInput DEF FocusInside
  <2>5. QED BY <2>1, <2>2, <2>3, <2>4 DEF GeometryInside
<1>2. QED BY <1>1, InputInit, InputStep, PTL DEF Spec
=============================================================================
