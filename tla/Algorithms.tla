----------------------------- MODULE Algorithms -----------------------------
(***************************************************************************)
(* The pure parts together: an input is chosen once, and the operators are *)
(* compared with what they promise; the rate controller and the choice of  *)
(* the raw mode run as machines.                                           *)
(***************************************************************************)
EXTENDS FrameGeometry, Capacity, RateController, SensorMode, FiniteSets

CONSTANTS SubsampleInputs,  \* a frame and a factor
          FocusInputs,      \* a sensor mode and a frame size
          RawInputs,        \* the raw formats of a sensor and a size
          CaptureInputs     \* what start_cameras knows

Modes == {"NONE", "BATCH", "BUFFER", "DETECT", "TRIGGER"}

Sources == [width : Nat, height : Nat, bytes_per_line : Nat, size : Nat]
RawFormats == [depth : Nat, sizes : SUBSET STRING]

(* A row is padded or not, never cut; the factor is one isValidFactor      *)
(* takes, and a frame that is copied as it is has all its bytes.  A sensor *)
(* mode has at least two pixels for each cell of the grid, and a frame at  *)
(* least four on each axis.                                                *)
ASSUME AlgorithmAssumption ==
  /\ SubsampleInputs \subseteq
       [kind : {"subsample"}, factor : {1, 2, 4, 8}, src : Sources]
  /\ \A x \in SubsampleInputs :
       /\ x.src.width <= x.src.bytes_per_line
       /\ x.factor = 1 => x.src.size >= NeededBytes(x.src)
  /\ FocusInputs \subseteq
       [kind : {"focus"}, mode_width : Nat, mode_height : Nat,
        frame_width : Nat, frame_height : Nat]
  /\ \A x \in FocusInputs :
       /\ x.mode_width >= 2 * kPispCdafGridSize /\ x.frame_width >= 4
       /\ x.mode_height >= 2 * kPispCdafGridSize /\ x.frame_height >= 4
  /\ RawInputs \subseteq
       [kind : {"raw"}, formats : Seq(RawFormats), size : STRING]
  /\ CaptureInputs \subseteq
       [kind : {"capture"}, mode : Modes, save_frames : BOOLEAN,
        allow_overcommit : BOOLEAN, width : Nat, height : Nat,
        cameras : Nat, lock : Int, hw_min : Int, budget_asked : Nat,
        mem : Nat, disk_asked : Nat, disk_probed : Nat]

VARIABLE input   \* the case at hand, or the rate controller's turn

Inputs ==
  {[kind |-> "rate"]} \cup SubsampleInputs \cup FocusInputs \cup RawInputs
  \cup CaptureInputs

vars == <<input, rateVars, rawVars>>

Init == input \in Inputs /\ RateInit /\ RawInit

RateTurn == input.kind = "rate" /\ RateNext /\ UNCHANGED <<input, rawVars>>

RawTurn ==
  /\ input.kind = "raw"
  /\ selectRawMode(input.formats, input.size)
  /\ UNCHANGED <<input, rateVars>>

Next == RateTurn \/ RawTurn

Spec == Init /\ [][Next]_vars
-----------------------------------------------------------------------------
(* Every pixel of a decimated frame is averaged from factor x factor       *)
(* pixels of the same plane, all inside the image and the data, none used  *)
(* twice, and the result is a YUV420 frame of the geometry it announces,   *)
(* or the source itself.                                                   *)
DecimationInside ==
  input.kind = "subsample" =>
    LET src == input.src
        f == input.factor
        out == subsampleYuv420(src, f)
    IN /\ out.size \in {0, IF f = 1 THEN src.size
                           ELSE frameBytes(out.width, out.height)}
       /\ \A p \in DOMAIN out.planes :
            LET plane == Planes(src)[p]
                reads == out.planes[p]
            IN \A o \in DOMAIN reads :
                 /\ Cardinality(reads[o]) = f * f
                 /\ \A px \in reads[o] :
                      /\ px[1] < plane.height /\ px[2] < plane.width
                      /\ plane.base + px[1] * plane.stride + px[2] < src.size
                      /\ o = <<px[1] \div f, px[2] \div f>>

(* A corner of the source stays within two pixels of the decimated frame,  *)
(* whose edges were cut to even numbers.                                   *)
CornersNear ==
  input.kind = "subsample" =>
    LET src == input.src
        g == subsampledGeometry(src.width, src.height, input.factor)
    IN src.width > 0 =>
         scaleCornerSets(src.width - 1, input.factor) < 8 * (g.width + 2)

(* The luma that a detector is given is the frame's, inside its Y plane. *)
LumaInside ==
  input.kind = "subsample" =>
    \A full_res \in BOOLEAN :
      LET src == input.src
          y == extractYFromYUV420(src, full_res)
      IN \A o \in DOMAIN y :
           /\ y[o] < src.bytes_per_line * src.height
           /\ y[o] % src.bytes_per_line < src.width

(* v of an axis of `to` pixels is w of one of `from`, to the nearest one. *)
Nearest(v, w, from, to) ==
  LET error == v * from - w * to IN 2 * error <= from /\ -2 * error <= from

(* The block lies inside the mode and inside the frame, and its edges in   *)
(* the frame are the sensor's to the nearest pixel.                        *)
SpanInside(s, mode, frame) ==
  LET send == s.sensor.begin + s.sensor.size
      fend == s.frame.begin + s.frame.size
  IN /\ s.sensor.size > 0 /\ send <= mode
     /\ s.frame.size > 0 /\ fend <= frame
     /\ Nearest(s.frame.begin, s.sensor.begin, mode, frame)
     /\ Nearest(fend, send, mode, frame)

(* The focus block is inside the image on both axes. *)
FocusInside ==
  input.kind = "focus" =>
    LET r == fomRegion(input.mode_width, input.mode_height,
                       input.frame_width, input.frame_height,
                       kPispCdafGridSize)
    IN /\ SpanInside(r.x, input.mode_width, input.frame_width)
       /\ SpanInside(r.y, input.mode_height, input.frame_height)

(* Decimation, luma extraction and the focus block stay inside the image   *)
(* for every size, padding and factor, odd ones too.                       *)
GeometryInside ==
  /\ DecimationInside /\ CornersNear /\ LumaInside /\ FocusInside

(* selectRawMode finds the deepest format that offers the size, and finds  *)
(* one whenever there is one.                                              *)
RawModeDeepest ==
  input.kind = "raw" /\ next > Len(input.formats) =>
    LET fits == {i \in DOMAIN input.formats :
                   /\ input.formats[i].depth > 0
                   /\ input.size \in input.formats[i].sizes}
    IN IF fits = {} THEN best = NoMode
       ELSE /\ best.index \in fits
            /\ best.depth = input.formats[best.index].depth
            /\ \A i \in fits : input.formats[i].depth <= best.depth

(* start_cameras is refused exactly when the capture cannot be sustained:  *)
(* with the true demand of all cameras, cameras * bytes * Second / period, *)
(* an accepted BATCH is below the disk's rate and an accepted BUFFER fits  *)
(* two seconds into the budget, to a byte; a refused one does not.         *)
AcceptedIsSustained ==
  input.kind = "capture" =>
    LET c == input
        period == Period(c.lock, c.hw_min)
        demand == c.cameras * frameBytes(c.width, c.height) * Second
        disk == diskRate(c)
        budget == backlogBudget(c)
        accepted == checkCaptureFeasibility(c)
    IN /\ accepted /\ ~c.allow_overcommit /\ c.save_frames /\ period > 0 =>
            /\ c.mode = "BATCH" /\ disk > 0 => demand < (disk + 1) * period
            /\ c.mode = "BUFFER" => 2 * demand < (budget + 2) * period
       /\ ~accepted =>
            /\ c.save_frames /\ ~c.allow_overcommit /\ period > 0
            /\ \/ c.mode = "BATCH" /\ disk > 0 /\ demand > disk * period
               \/ c.mode = "BUFFER" /\ 2 * demand > budget * period
=============================================================================
