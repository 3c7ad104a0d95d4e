------------------------------ MODULE CziRepair ------------------------------
(***************************************************************************)
(* CZIrepair: makes the stored width and height of JPGXR-compressed        *)
(* sub-blocks what the compressed bitmaps say.                             *)
(*                                                                         *)
(* The document keeps the stored size of a sub-block twice: in its entry   *)
(* of the sub-block directory and in the head of its own segment.  A run   *)
(* of the tool in patch mode compares the directory with the bitmaps       *)
(* (GetRepairInfo), overwrites the wrong sizes in the directory, entry by  *)
(* entry, and then those in the segments.  Each size is a write of its own *)
(* to the file, which happens or not; the tool may fail or be stopped      *)
(* between any two, and be started again.  The dry-run mode changes        *)
(* nothing.                                                                *)
(*                                                                         *)
(* A sub-block is the index of its directory entry, which is the same for  *)
(* the reader and for the loop that patches: a directory with an entry of  *)
(* another schema than DV cannot be opened.                                *)
(***************************************************************************)
EXTENDS Integers

CONSTANTS
  Count,            \* sub-blocks in the document
  JpgXr,            \* those that are JPGXR-compressed
  BitmapSize,       \* what their compressed bitmaps say
  FirstDimension,   \* which of X and Y comes first in an entry
  Documents,        \* the sizes in the document when it is first repaired
  MaxRuns           \* bound: times the tool is run

Indices == 0 .. Count - 1
Dimensions == {"X", "Y"}
Sizes == [Indices -> [Dimensions -> Nat]]

ASSUME RepairAssumption ==
  /\ Count \in Nat
  /\ JpgXr \subseteq Indices
  /\ BitmapSize \in Sizes
  /\ FirstDimension \in [Indices -> Dimensions]
  /\ Documents \subseteq [directory : Sizes, segments : Sizes]
  /\ MaxRuns \in Nat

VARIABLES
  directory,        \* stored sizes in the sub-block directory
  segments,         \* stored sizes in the segments of the sub-blocks
  step,             \* what the tool does
  patchList,        \* sizes found wrong, as <<index, dimension>>
  pending,          \* those of the present step still to be written
  runs,
  agreed            \* history: when this run began, the directory and the
                    \* segments were wrong in the same places

vars == <<directory, segments, step, patchList, pending, runs, agreed>>

\* Where `sizes` is not what the bitmaps say.
Wrong(sizes) ==
  {p \in JpgXr \X Dimensions :
     sizes[p[1]][p[2]] # BitmapSize[p[1]][p[2]]}

\* Patch visits the sub-blocks in the order of the directory, and the
\* dimensions in the order of the entry.
Before(p, q) ==
  \/ p[1] < q[1]
  \/ p[1] = q[1] /\ p[2] = FirstDimension[p[1]]

\* Mutant: the width is taken for the height and the other way round.
FixedSwapped(sizes, p) ==
  [sizes EXCEPT ![p[1]][p[2]] =
     BitmapSize[p[1]][CHOOSE d \in Dimensions : d # p[2]]]

Fixed(sizes, p) ==
  [sizes EXCEPT ![p[1]][p[2]] = BitmapSize[p[1]][p[2]]]

-----------------------------------------------------------------------------

\* Patch opens the document and collects what to repair.
GetRepairInfo ==
  /\ step \in {"none", "succeeded", "failed"}
  /\ runs < MaxRuns
  /\ runs' = runs + 1
  /\ patchList' = Wrong(directory)
  /\ pending' = Wrong(directory)
  /\ step' = "directory"
  /\ agreed' = (Wrong(directory) = Wrong(segments))
  /\ UNCHANGED <<directory, segments>>

\* Mutant: only one size of a sub-block is patched.
PatchFirstDimensionOnly(p) ==
  /\ step = "directory"
  /\ p \in pending /\ \A q \in pending \ {p} : Before(p, q)
  /\ directory' = Fixed(directory, p)
  /\ pending' = {q \in pending : q[1] # p[1]}
  /\ UNCHANGED <<segments, step, patchList, runs, agreed>>

\* A size is overwritten: the next of the step.
PatchSubBlockDirectory(p) ==
  /\ step = "directory"
  /\ p \in pending /\ \A q \in pending \ {p} : Before(p, q)
  /\ directory' = Fixed(directory, p)
  /\ pending' = pending \ {p}
  /\ UNCHANGED <<segments, step, patchList, runs, agreed>>

\* Mutant: the list is collected again, from the patched directory.
SubBlockDirectoryPatchedAnew ==
  /\ step = "directory" /\ pending = {}
  /\ step' = "segments"
  /\ patchList' = Wrong(directory)
  /\ pending' = Wrong(directory)
  /\ UNCHANGED <<directory, segments, runs, agreed>>

\* The directory is done; the same list is now patched in the sub-blocks.
SubBlockDirectoryPatched ==
  /\ step = "directory" /\ pending = {}
  /\ step' = "segments"
  /\ pending' = patchList
  /\ UNCHANGED <<directory, segments, patchList, runs, agreed>>

PatchSubBlocks(p) ==
  /\ step = "segments"
  /\ p \in pending /\ \A q \in pending \ {p} : Before(p, q)
  /\ segments' = Fixed(segments, p)
  /\ pending' = pending \ {p}
  /\ UNCHANGED <<directory, step, patchList, runs, agreed>>

SubBlocksPatched ==
  /\ step = "segments" /\ pending = {}
  /\ step' = "succeeded"
  /\ UNCHANGED <<directory, segments, patchList, pending, runs, agreed>>

\* Mutant: what was still to be written is kept.
FailsAndRemembers ==
  /\ step \in {"directory", "segments"}
  /\ step' = "failed"
  /\ patchList' = {}
  /\ UNCHANGED <<directory, segments, pending, runs, agreed>>

\* An exception (a bitmap cannot be decoded, the file not be read or written)
\* or the end of the process.
Fails ==
  /\ step \in {"directory", "segments"}
  /\ step' = "failed"
  /\ patchList' = {} /\ pending' = {}
  /\ UNCHANGED <<directory, segments, runs, agreed>>

Init ==
  /\ \E d \in Documents : directory = d.directory /\ segments = d.segments
  /\ step = "none"
  /\ patchList = {} /\ pending = {}
  /\ runs = 0
  /\ agreed = FALSE

Next ==
  \/ GetRepairInfo
  \/ \E p \in JpgXr \X Dimensions :
       PatchSubBlockDirectory(p) \/ PatchSubBlocks(p)
  \/ SubBlockDirectoryPatched \/ SubBlocksPatched
  \/ Fails

Spec == Init /\ [][Next]_vars

-----------------------------------------------------------------------------
(* Properties. *)

TypeOK ==
  /\ directory \in Sizes /\ segments \in Sizes
  /\ step \in {"none", "directory", "segments", "succeeded", "failed"}
  /\ patchList \subseteq JpgXr \X Dimensions
  /\ pending \subseteq patchList
  /\ runs \in 0 .. MaxRuns
  /\ agreed \in BOOLEAN

\* When a run succeeds, a reader of the directory finds the sizes the bitmaps
\* have, whatever earlier runs left behind.
DirectoryRepaired == step = "succeeded" => Wrong(directory) = {}

\* When a run succeeds, so does a reader of the sub-blocks, if the document
\* was wrong in the same places in both when the run began.  It was not, if an
\* earlier run was stopped after the directory: then a run finds nothing to do
\* and succeeds, and leaves the segments wrong (GetRepairInfo looks only at the
\* directory), though the README of the repository says that the patch mode
\* fixes the corruption.
SegmentsRepaired ==
  step = "succeeded" /\ agreed => Wrong(segments) = {}

\* No run, finished or not, makes a right size wrong, or touches a sub-block
\* that is not JPGXR-compressed.
NeverHarms ==
  [][/\ Wrong(directory') \subseteq Wrong(directory)
     /\ Wrong(segments') \subseteq Wrong(segments)
     /\ \A k \in Indices \ JpgXr :
          directory'[k] = directory[k] /\ segments'[k] = segments[k]]_vars
=============================================================================
