--------------------------- MODULE CziRepairProofs ---------------------------
(***************************************************************************)
(* What CZIrepair promises of a run that succeeds, and of every run.       *)
(***************************************************************************)
EXTENDS CziRepair, TLAPS

\* The inductive invariant: what is still wrong is still to be patched.
Inv ==
  /\ step = "directory" => Wrong(directory) \subseteq pending
  /\ step = "directory" /\ agreed => Wrong(segments) \subseteq patchList
  /\ step \in {"segments", "succeeded"} => Wrong(directory) = {}
  /\ step = "segments" /\ agreed => Wrong(segments) \subseteq pending
  /\ step = "succeeded" /\ agreed => Wrong(segments) = {}

\* A patched size is right, and no other is changed.
LEMMA FixedSizes ==
  ASSUME NEW sizes \in Sizes, NEW p \in JpgXr \X Dimensions
  PROVE  /\ Fixed(sizes, p) \in Sizes
         /\ Wrong(Fixed(sizes, p)) = Wrong(sizes) \ {p}
         /\ \A k \in Indices \ JpgXr : Fixed(sizes, p)[k] = sizes[k]
<1>1. /\ p[1] \in JpgXr /\ p[1] \in Indices /\ p[2] \in Dimensions
      /\ p = <<p[1], p[2]>> /\ BitmapSize[p[1]][p[2]] \in Nat
  BY RepairAssumption DEF Sizes
<1>2. Fixed(sizes, p) \in Sizes
  BY <1>1 DEF Fixed, Sizes
<1>3. \A k \in Indices, d \in Dimensions :
        Fixed(sizes, p)[k][d] =
          IF k = p[1] /\ d = p[2] THEN BitmapSize[k][d] ELSE sizes[k][d]
  BY <1>1 DEF Fixed, Sizes
<1>4. Wrong(Fixed(sizes, p)) = Wrong(sizes) \ {p}
  <2>1. ASSUME NEW q \in JpgXr \X Dimensions
        PROVE  q \in Wrong(Fixed(sizes, p)) <=> q \in Wrong(sizes) \ {p}
    <3>1. /\ q[1] \in Indices /\ q[2] \in Dimensions
          /\ q = p <=> q[1] = p[1] /\ q[2] = p[2]
      BY <1>1, RepairAssumption
    <3> QED BY <1>3, <3>1 DEF Wrong
  <2> QED BY <2>1 DEF Wrong
<1>5. \A k \in Indices \ JpgXr : Fixed(sizes, p)[k] = sizes[k]
  BY <1>1 DEF Fixed, Sizes
<1> QED BY <1>2, <1>4, <1>5

LEMMA InvInit == Init => TypeOK /\ Inv
<1> SUFFICES ASSUME Init PROVE TypeOK /\ Inv
  OBVIOUS
<1>1. directory \in Sizes /\ segments \in Sizes
  <2>1. PICK d \in Documents : directory = d.directory /\ segments = d.segments
    BY DEF Init
  <2>2. d \in [directory : Sizes, segments : Sizes]
    BY RepairAssumption
  <2> QED BY <2>1, <2>2
<1>2. agreed \in BOOLEAN
  BY DEF Init
<1>3. /\ patchList \subseteq JpgXr \X Dimensions
      /\ pending \subseteq patchList
      /\ step = "none" /\ runs \in 0 .. MaxRuns
  BY RepairAssumption DEF Init
<1>4. TypeOK
  BY <1>1, <1>2, <1>3 DEF TypeOK
<1> QED BY <1>3, <1>4 DEF Inv

LEMMA InvNext == TypeOK /\ Inv /\ [Next]_vars => (TypeOK /\ Inv)'
<1> SUFFICES ASSUME TypeOK, Inv, [Next]_vars PROVE (TypeOK /\ Inv)'
  OBVIOUS
<1>1. CASE UNCHANGED vars
  BY <1>1 DEF vars, TypeOK, Inv, Wrong
<1>2. CASE GetRepairInfo
  <2>1. Wrong(directory) \subseteq JpgXr \X Dimensions
    BY DEF Wrong
  <2>2. /\ Wrong(directory)' = Wrong(directory)
        /\ Wrong(segments)' = Wrong(segments)
    BY <1>2 DEF GetRepairInfo, Wrong
  <2>3. TypeOK'
    BY <1>2, <2>1, RepairAssumption DEF GetRepairInfo, TypeOK
  <2> QED BY <1>2, <2>2, <2>3 DEF GetRepairInfo, Inv
<1>3. ASSUME NEW p \in JpgXr \X Dimensions, PatchSubBlockDirectory(p)
      PROVE  (TypeOK /\ Inv)'
  <2>1. /\ directory' \in Sizes
        /\ Wrong(directory)' = Wrong(directory) \ {p}
    BY <1>3, FixedSizes DEF PatchSubBlockDirectory, TypeOK, Wrong
  <2>2. Wrong(segments)' = Wrong(segments)
    BY <1>3 DEF PatchSubBlockDirectory, Wrong
  <2> QED BY <1>3, <2>1, <2>2 DEF PatchSubBlockDirectory, TypeOK, Inv
<1>4. CASE SubBlockDirectoryPatched
  BY <1>4 DEF SubBlockDirectoryPatched, TypeOK, Inv, Wrong
<1>5. ASSUME NEW p \in JpgXr \X Dimensions, PatchSubBlocks(p)
      PROVE  (TypeOK /\ Inv)'
  <2>1. /\ segments' \in Sizes
        /\ Wrong(segments)' = Wrong(segments) \ {p}
    BY <1>5, FixedSizes DEF PatchSubBlocks, TypeOK, Wrong
  <2>2. Wrong(directory)' = Wrong(directory)
    BY <1>5 DEF PatchSubBlocks, Wrong
  <2> QED BY <1>5, <2>1, <2>2 DEF PatchSubBlocks, TypeOK, Inv
<1>6. CASE SubBlocksPatched
  BY <1>6 DEF SubBlocksPatched, TypeOK, Inv, Wrong
<1>7. CASE Fails
  BY <1>7 DEF Fails, TypeOK, Inv
<1> QED BY <1>1, <1>2, <1>3, <1>4, <1>5, <1>6, <1>7 DEF Next

LEMMA Invariance == Spec => [](TypeOK /\ Inv)
BY InvInit, InvNext, PTL DEF Spec

-----------------------------------------------------------------------------

\* Sizes stay sizes, and what a step has still to write is of the list that was
\* collected: a run that fails leaves nothing for the next.
THEOREM TypeCorrect == Spec => []TypeOK
BY Invariance, PTL

\* A run that succeeds leaves a directory with the sizes of the bitmaps, for
\* any document and whatever earlier runs left behind.
THEOREM DirectoryIsRepaired == Spec => []DirectoryRepaired
<1>1. TypeOK /\ Inv => DirectoryRepaired
  BY DEF Inv, DirectoryRepaired
<1> QED BY <1>1, Invariance, PTL

\* And sub-blocks with those sizes, if directory and sub-blocks were wrong in
\* the same places.
THEOREM SegmentsAreRepaired == Spec => []SegmentsRepaired
<1>1. TypeOK /\ Inv => SegmentsRepaired
  BY DEF Inv, SegmentsRepaired
<1> QED BY <1>1, Invariance, PTL

\* No step of any run makes a right size wrong or touches another sub-block.
THEOREM RunsNeverHarm == Spec => NeverHarms
<1> DEFINE Harmless ==
      /\ Wrong(directory') \subseteq Wrong(directory)
      /\ Wrong(segments') \subseteq Wrong(segments)
      /\ \A k \in Indices \ JpgXr :
           directory'[k] = directory[k] /\ segments'[k] = segments[k]
<1>1. TypeOK /\ [Next]_vars => Harmless
  <2> SUFFICES ASSUME TypeOK, [Next]_vars PROVE Harmless
    OBVIOUS
  <2>1. CASE UNCHANGED <<directory, segments>>
    BY <2>1
  <2>2. ASSUME NEW p \in JpgXr \X Dimensions, PatchSubBlockDirectory(p)
        PROVE  Harmless
    BY <2>2, FixedSizes DEF PatchSubBlockDirectory, TypeOK
  <2>3. ASSUME NEW p \in JpgXr \X Dimensions, PatchSubBlocks(p)
        PROVE  Harmless
    BY <2>3, FixedSizes DEF PatchSubBlocks, TypeOK
  <2> QED BY <2>1, <2>2, <2>3 DEF Next, vars, GetRepairInfo,
             SubBlockDirectoryPatched, SubBlocksPatched, Fails
<1>2. (TypeOK /\ Inv) /\ [Next]_vars => [Harmless]_vars
  BY <1>1
<1> QED BY <1>2, Invariance, PTL DEF Spec, NeverHarms
=============================================================================
