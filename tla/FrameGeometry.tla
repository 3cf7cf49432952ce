--------------------------- MODULE FrameGeometry ---------------------------
(***************************************************************************)
(* The pure geometry of the server, as operators: decimation of a YUV420   *)
(* frame (frame_subsample) and the block of the image behind the focus     *)
(* figure (focus_region).                                                  *)
(*                                                                         *)
(* Pixels are positions: what a step reads is a set of <<row, column>>     *)
(* pairs, not a brightness.                                                *)
(***************************************************************************)
EXTENDS Integers, Sequences

(* n & ~1 *)
Even(n) == n - (n % 2)

(* A geometry rounded up, which would need pixels past the edge. *)
subsampledGeometry_RoundsUp(width, height, factor) ==
  LET f == IF factor = 0 THEN 1 ELSE factor
  IN [width |-> Even((width + f - 1) \div f),
      height |-> Even((height + f - 1) \div f)]

subsampledGeometry(width, height, factor) ==
  LET f == IF factor = 0 THEN 1 ELSE factor
  IN [width |-> Even(width \div f), height |-> Even(height \div f)]

(* The pixels of the source plane that each output pixel averages. *)
decimatePlane(factor, dst_w, dst_h) ==
  [o \in (0 .. dst_h - 1) \X (0 .. dst_w - 1) |->
     {<<o[1] * factor + by, o[2] * factor + bx>> :
        by \in 0 .. factor - 1, bx \in 0 .. factor - 1}]

(* A plane of a frame: where it starts in the data, the bytes from a row   *)
(* to the next, and its size in pixels.                                    *)
Plane(base, stride, width, height) ==
  [base |-> base, stride |-> stride, width |-> width, height |-> height]

Planes(src) ==
  LET y_size == src.bytes_per_line * src.height
      uv_stride == src.bytes_per_line \div 2
      uv_h == src.height \div 2
  IN <<Plane(0, src.bytes_per_line, src.width, src.height),
       Plane(y_size, uv_stride, src.width \div 2, uv_h),
       Plane(y_size + uv_stride * uv_h, uv_stride, src.width \div 2, uv_h)>>

(* A frame: its size in pixels and bytes, and per plane what each of its   *)
(* pixels was averaged from.                                               *)
Image(width, height, size, planes) ==
  [width |-> width, height |-> height, size |-> size, planes |-> planes]

(* The bytes that the geometry of a frame implies. *)
NeededBytes(src) ==
  src.bytes_per_line * src.height
  + 2 * ((src.bytes_per_line \div 2) * (src.height \div 2))

(* The decimated frame; the source itself for a factor of 1, and geometry  *)
(* only when the source is too short or too small.                         *)
subsampleYuv420(src, factor) ==
  LET g == subsampledGeometry(src.width, src.height, factor)
      uv_w == g.width \div 2
      uv_h == g.height \div 2
  IN CASE factor <= 1 ->
            Image(src.width, src.height, src.size,
                  [p \in 1 .. 3 |-> decimatePlane(1, Planes(src)[p].width,
                                                  Planes(src)[p].height)])
       [] factor > 1 /\ (g.width = 0 \/ g.height = 0 \/ src.size < NeededBytes(src)) ->
            Image(g.width, g.height, 0, <<>>)
       [] OTHER ->
            Image(g.width, g.height, g.width * g.height + 2 * uv_w * uv_h,
                  <<decimatePlane(factor, g.width, g.height),
                    decimatePlane(factor, uv_w, uv_h),
                    decimatePlane(factor, uv_w, uv_h)>>)

(* A corner coordinate in the decimated frame, in eighths of a pixel: the  *)
(* factor is 1, 2, 4 or 8.                                                 *)
scaleCornerSets(x, factor) == (8 * x) \div factor

(* Where extractYFromYUV420 finds the luma of an output pixel; an empty    *)
(* frame is not read at all.                                               *)
extractYFromYUV420(frame, full_res) ==
  LET step == IF full_res THEN 1 ELSE 2
  IN IF frame.size = 0 \/ frame.bytes_per_line = 0 THEN <<>> ELSE
     [o \in (0 .. frame.height \div step - 1) \X
            (0 .. frame.width \div step - 1) |->
        o[1] * step * frame.bytes_per_line + o[2] * step]
-----------------------------------------------------------------------------
(* PISP_CDAF_STATS_SIZE: the grid has this many cells per side. *)
kPispCdafGridSize == 8

cellSize(dim, grid_size) ==
  IF Even(dim \div grid_size) > 2 THEN Even(dim \div grid_size) ELSE 2

(* A span of one axis on another, each edge to the nearest pixel. *)
scaleSpan(begin, end, from, to) ==
  IF from = to \/ from = 0
  THEN [begin |-> begin, size |-> end - begin]
  ELSE LET scale(v) == (v * to + from \div 2) \div from
       IN [begin |-> scale(begin), size |-> scale(end) - scale(begin)]

(* One axis of fomRegion; the cells before the block are a third of the    *)
(* rows, or a quarter of the columns.                                      *)
fomSpan(mode, frame, grid_size, part) ==
  LET first == grid_size \div part
      cell == cellSize(mode, grid_size)
      begin == first * cell
      size == (grid_size - 2 * first) * cell
  IN [sensor |-> [begin |-> begin, size |-> size],
      frame |-> scaleSpan(begin, begin + size, mode, frame)]

fomRegion(mode_width, mode_height, frame_width, frame_height, grid_size) ==
  [x |-> fomSpan(mode_width, frame_width, grid_size, 4),
   y |-> fomSpan(mode_height, frame_height, grid_size, 3)]
=============================================================================
