----------------------------- MODULE SensorMode -----------------------------
(***************************************************************************)
(* selectRawMode of sensor_mode.cpp: one pass over the raw formats of a    *)
(* sensor for the deepest one that offers the size asked for.              *)
(*                                                                         *)
(* A format is its bit depth (bitDepthOf its name; 0 for none) and the     *)
(* sizes it is offered at.  A step is one round of the loop over formats.  *)
(***************************************************************************)
EXTENDS Integers, Sequences

VARIABLES next,  \* the format of the next round
          best   \* the selection so far

rawVars == <<next, best>>

(* std::nullopt *)
NoMode == [depth |-> 0, index |-> 0]

RawInit == next = 1 /\ best = NoMode

(* One that keeps the first format with the size. *)
selectRawMode_First(formats, size) ==
  /\ next <= Len(formats)
  /\ next' = next + 1
  /\ best' = IF /\ formats[next].depth # 0
                /\ size \in formats[next].sizes
                /\ best = NoMode
             THEN [depth |-> formats[next].depth, index |-> next]
             ELSE best

selectRawMode(formats, size) ==
  /\ next <= Len(formats)
  /\ next' = next + 1
  /\ best' = IF /\ formats[next].depth # 0
                /\ size \in formats[next].sizes
                /\ best = NoMode \/ formats[next].depth > best.depth
             THEN [depth |-> formats[next].depth, index |-> next]
             ELSE best
=============================================================================
