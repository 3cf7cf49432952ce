---------------------------- MODULE MCAlgorithms ----------------------------
(* Small images, sensors and captures, at the limits of each.              *)
EXTENDS Algorithms

Dims == {0, 1, 2, 3, 5, 8, 9, 15, 16, 17, 18}
Source(w, h, bytes_per_line, cut) ==
  LET whole == bytes_per_line * h + 2 * (bytes_per_line \div 2) * (h \div 2)
  IN [width |-> w, height |-> h, bytes_per_line |-> bytes_per_line,
      size |-> whole \div cut]

(* Whole frames, with and without padding, and frames cut short. *)
MCSubsampleInputs ==
  {[kind |-> "subsample", factor |-> f, src |-> Source(w, h, w + pad, 1)] :
     f \in {1, 2, 4, 8}, w \in Dims, h \in Dims, pad \in {0, 3}}
  \cup
  {[kind |-> "subsample", factor |-> f, src |-> Source(w, h, w, 2)] :
     f \in {2, 8}, w \in Dims, h \in Dims}

MCFocusInputs ==
  [kind : {"focus"}, mode_width : {16, 31, 990}, mode_height : {17, 100, 1332},
   frame_width : {4, 17, 495, 990}, frame_height : {8, 100, 1332}]

SomeFormats == [depth : {0, 8, 10, 12}, sizes : SUBSET {"a", "b"}]
MCRawInputs ==
  [kind : {"raw"}, formats : UNION {[1 .. n -> SomeFormats] : n \in 0 .. 2},
   size : {"a"}]

MCCaptureInputs ==
  [kind : {"capture"}, mode : {"NONE", "BATCH", "BUFFER", "TRIGGER"},
   save_frames : BOOLEAN, allow_overcommit : BOOLEAN, width : {2, 3},
   height : {2}, cameras : 0 .. 2, lock : {0, 3}, hw_min : {0, 4},
   budget_asked : {0, 31}, mem : {0, 70}, disk_asked : {0, 15},
   disk_probed : {0, 20}]
=============================================================================
