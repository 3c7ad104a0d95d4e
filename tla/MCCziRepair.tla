---------------------------- MODULE MCCziRepair ----------------------------
(***************************************************************************)
(* Instances of CziRepair for TLC: three sub-blocks, the last one not      *)
(* JPGXR-compressed, with every right or wrong size in both places.        *)
(***************************************************************************)
EXTENDS CziRepair

MCJpgXr == {0, 1}
MCBitmapSize ==
  [k \in Indices |-> [d \in Dimensions |-> IF d = "X" THEN 1 ELSE 2]]
MCFirstDimension == [k \in Indices |-> IF k = 0 THEN "X" ELSE "Y"]

SomeSizes == [Indices -> [Dimensions -> 1 .. 2]]

\* Any sizes in the directory and in the segments
MCDocuments == [directory : SomeSizes, segments : SomeSizes]
=============================================================================
