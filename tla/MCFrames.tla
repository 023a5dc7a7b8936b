-------------------------------- MODULE MCFrames --------------------------------
(* Model-checking instances of Frames: two segments whose lengths lie on   *)
(* both sides of the boundaries of the realignments, and SYNs whose window *)
(* scale comes last, as ours does, or behind a no-operation and too large. *)
EXTENDS Frames

OptionLists == {<<2, 4, 5, 180, 3, 3, 2, 0>>, <<1, 3, 3, 14, 2, 4, 5, 180>>}
=============================================================================
