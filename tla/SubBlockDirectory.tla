-------------------------- MODULE SubBlockDirectory --------------------------
(***************************************************************************)
(* CReaderWriterCziSubBlockDirectory: the entries of the sub-blocks of a   *)
(* document that is edited, and statistics about them                      *)
(* (CSbBlkStatisticsUpdater).                                              *)
(*                                                                         *)
(* The statistics are updated when an entry is added.  Modifying and       *)
(* removing only mark them as not current; whoever asks for them next      *)
(* makes the directory recreate them, in a loop over the entries, of which *)
(* each turn is a step here.  The statistics of the pyramid are counted    *)
(* along with the others and sorted when asked for; the order of the       *)
(* layers is left out, so that they are a count for each scene and layer.  *)
(*                                                                         *)
(* An entry has a coordinate (a value for some dimensions), an M-index, a  *)
(* box (the logical rectangle, a span in each direction) and the size it   *)
(* is stored with, which is smaller than the box in a pyramid.  32-bit     *)
(* overflow of positions is left out.                                      *)
(***************************************************************************)
EXTENDS Integers, FiniteSets

CONSTANTS
  Entries,          \* the entries that sub-blocks may have
  MaxKeys,          \* bound: the keys that are given out
  MaxRecreations    \* bound: how often the statistics are recreated

IntMax == 2147483647
IntMin == -2147483647 - 1

Dimensions == {"Z", "C", "T", "R", "S", "I", "H", "V", "B"}
Spans == [start : Int, size : Nat]
Coordinates == UNION {[D -> Int] : D \in SUBSET Dimensions}

ASSUME DirectoryAssumption ==
  /\ \A entry \in Entries :
       /\ DOMAIN entry.coordinate \subseteq Dimensions
       /\ \A d \in DOMAIN entry.coordinate : entry.coordinate[d] \in Int
       /\ entry.mIndex \in IntMin .. IntMax
       /\ entry.x \in Spans /\ entry.y \in Spans
       /\ entry.storedWidth \in Nat /\ entry.storedHeight \in Nat
  /\ MaxKeys \in Nat
  /\ MaxRecreations \in Nat

VARIABLES
  subBlks,                      \* key -> entry
  nextSbBlkIndex,
  isModified,
  sbBlkStatisticsCurrent,
  sbBlkStatisticsConsolidated,
  statistics,
  pyramidStatistics,            \* scene and layer -> count
  loading,                      \* is the document being opened?
  recreating,                   \* is the loop over the entries running?
  visited,                      \* the keys it has visited
  recreations                   \* how often it ran, bounded

directoryVars ==
  <<subBlks, nextSbBlkIndex, isModified, sbBlkStatisticsCurrent,
    sbBlkStatisticsConsolidated, statistics, pyramidStatistics, loading,
    recreating, visited, recreations>>

-----------------------------------------------------------------------------
(* What the statistics know of one entry. *)

IsMIndexValid(entry) == entry.mIndex # IntMin

IsStoredSizeEqualLogicalSize(entry) ==
  entry.x.size = entry.storedWidth /\ entry.y.size = entry.storedHeight

\* The scene of an entry, or IntMax for an entry without.
SceneOf(entry) ==
  IF "S" \in DOMAIN entry.coordinate THEN entry.coordinate["S"] ELSE IntMax

\* The minification factors that are taken for a layer of a pyramid, with
\* their tolerance in tenths.
LayerTable ==
  {[base |-> 2, value |-> 2, delta |-> 1, layer |-> 1],
   [base |-> 2, value |-> 4, delta |-> 2, layer |-> 2],
   [base |-> 2, value |-> 8, delta |-> 4, layer |-> 3],
   [base |-> 2, value |-> 16, delta |-> 8, layer |-> 4],
   [base |-> 2, value |-> 32, delta |-> 10, layer |-> 5],
   [base |-> 2, value |-> 64, delta |-> 10, layer |-> 6],
   [base |-> 2, value |-> 128, delta |-> 10, layer |-> 7],
   [base |-> 2, value |-> 256, delta |-> 20, layer |-> 8],
   [base |-> 2, value |-> 512, delta |-> 40, layer |-> 9],
   [base |-> 2, value |-> 1024, delta |-> 100, layer |-> 10],
   [base |-> 3, value |-> 3, delta |-> 1, layer |-> 1],
   [base |-> 3, value |-> 9, delta |-> 2, layer |-> 2],
   [base |-> 3, value |-> 27, delta |-> 8, layer |-> 3],
   [base |-> 3, value |-> 81, delta |-> 15, layer |-> 4],
   [base |-> 3, value |-> 243, delta |-> 20, layer |-> 5],
   [base |-> 3, value |-> 729, delta |-> 50, layer |-> 6],
   [base |-> 3, value |-> 2187, delta |-> 150, layer |-> 7]}

Layer0 == <<0, 0>>
NotIdentified == <<255, 255>>

\* The rows of the table for a logical size that is stored as a physical one.
RowsFor(logical, physical) ==
  {row \in LayerTable :
     /\ physical > 0
     /\ 10 * logical >= (10 * row.value - row.delta) * physical
     /\ 10 * logical <= (10 * row.value + row.delta) * physical}

\* The minification is that of the larger of the stored sides.
LayerOf(entry) ==
  LET rows == IF entry.storedWidth > entry.storedHeight
              THEN RowsFor(entry.x.size, entry.storedWidth)
              ELSE RowsFor(entry.y.size, entry.storedHeight)
  IN  IF IsStoredSizeEqualLogicalSize(entry) THEN Layer0
      ELSE IF rows = {} THEN NotIdentified
      ELSE LET row == CHOOSE r \in rows : TRUE IN <<row.base, row.layer>>

\* Where an entry counts in the statistics of the pyramid.
CellOf(entry) == <<SceneOf(entry), LayerOf(entry)>>
Cells == {CellOf(entry) : entry \in Entries}

-----------------------------------------------------------------------------
(* CSbBlkStatisticsUpdater. *)

NoBox == [x |-> [start |-> 0, size |-> -1], y |-> [start |-> 0, size |-> -1]]
IsValidBox(box) == box.x.size >= 0 /\ box.y.size >= 0

\* Mutant: an entry to the left or above moves the box and keeps its size.
ExtendMoving(a, b) ==
  [start |-> IF b.start < a.start THEN b.start ELSE a.start,
   size |-> IF a.start + a.size < b.start + b.size
            THEN b.start + b.size - a.start ELSE a.size]

\* The least span that contains both.
Extend(a, b) ==
  LET start == IF b.start < a.start THEN b.start ELSE a.start
      end == IF a.start + a.size < b.start + b.size
             THEN b.start + b.size ELSE a.start + a.size
  IN  [start |-> start, size |-> end - start]

UpdateBoundingBox(box, entry) ==
  IF IsValidBox(box)
  THEN [x |-> Extend(box.x, entry.x), y |-> Extend(box.y, entry.y)]
  ELSE [x |-> entry.x, y |-> entry.y]

\* The same for a box of the entries of layer 0 only.
UpdateLayer0Box(box, entry) ==
  IF IsStoredSizeEqualLogicalSize(entry)
  THEN UpdateBoundingBox(box, entry) ELSE box

UpdateDimBounds(bounds, coordinate) ==
  [d \in DOMAIN bounds \cup DOMAIN coordinate |->
     IF d \notin DOMAIN coordinate THEN bounds[d]
     ELSE LET value == [start |-> coordinate[d], size |-> 1]
          IN  IF d \in DOMAIN bounds THEN Extend(bounds[d], value) ELSE value]

UpdateScenes(scenes, entry) ==
  LET scene == SceneOf(entry)
      old == IF scene \in DOMAIN scenes
             THEN scenes[scene] ELSE [box |-> NoBox, layer0 |-> NoBox]
  IN  IF "S" \notin DOMAIN entry.coordinate THEN scenes
      ELSE [s \in DOMAIN scenes \cup {scene} |->
              IF s = scene
              THEN [box |-> UpdateBoundingBox(old.box, entry),
                    layer0 |-> UpdateLayer0Box(old.layer0, entry)]
              ELSE scenes[s]]

\* The M-index is looked at once for each dimension of the coordinate, so never
\* for an entry without any.
CountsM(entry) == IsMIndexValid(entry) /\ DOMAIN entry.coordinate # {}

ClearedStatistics ==
  [subBlockCount |-> 0, minMindex |-> IntMax, maxMindex |-> IntMin,
   boundingBox |-> NoBox, boundingBoxLayer0Only |-> NoBox,
   dimBounds |-> [d \in {} |-> NoBox.x],
   sceneBoundingBoxes |-> [s \in {} |-> [box |-> NoBox, layer0 |-> NoBox]]]

UpdatedStatistics(st, entry) ==
  [subBlockCount |-> st.subBlockCount + 1,
   minMindex |-> IF CountsM(entry) /\ entry.mIndex < st.minMindex
                 THEN entry.mIndex ELSE st.minMindex,
   maxMindex |-> IF CountsM(entry) /\ entry.mIndex > st.maxMindex
                 THEN entry.mIndex ELSE st.maxMindex,
   boundingBox |-> UpdateBoundingBox(st.boundingBox, entry),
   boundingBoxLayer0Only |-> UpdateLayer0Box(st.boundingBoxLayer0Only, entry),
   dimBounds |-> UpdateDimBounds(st.dimBounds, entry.coordinate),
   sceneBoundingBoxes |-> UpdateScenes(st.sceneBoundingBoxes, entry)]

\* Mutant: an entry without a scene is not counted in the pyramid.
UpdateStatisticsOfScenes(entry) ==
  /\ statistics' = UpdatedStatistics(statistics, entry)
  /\ pyramidStatistics' =
       IF "S" \in DOMAIN entry.coordinate
       THEN [pyramidStatistics EXCEPT ![CellOf(entry)] = @ + 1]
       ELSE pyramidStatistics

UpdateStatistics(entry) ==
  /\ statistics' = UpdatedStatistics(statistics, entry)
  /\ pyramidStatistics' = [pyramidStatistics EXCEPT ![CellOf(entry)] = @ + 1]

-----------------------------------------------------------------------------
DirectoryInit ==
  /\ subBlks = [key \in {} |-> CHOOSE entry \in Entries : TRUE]
  /\ nextSbBlkIndex = 0
  /\ isModified = FALSE
  /\ sbBlkStatisticsCurrent = TRUE
  /\ sbBlkStatisticsConsolidated = FALSE
  /\ statistics = ClearedStatistics
  /\ pyramidStatistics = [cell \in Cells |-> 0]
  /\ loading = TRUE
  /\ recreating = FALSE
  /\ visited = {}
  /\ recreations = 0

\* No call is running on the directory of an open document.
Ready == ~loading /\ ~recreating

AddSubBlock(entry) ==
  /\ nextSbBlkIndex < MaxKeys
  /\ subBlks' = [key \in DOMAIN subBlks \cup {nextSbBlkIndex} |->
                   IF key = nextSbBlkIndex THEN entry ELSE subBlks[key]]
  /\ nextSbBlkIndex' = nextSbBlkIndex + 1
  /\ isModified' = TRUE
  /\ IF sbBlkStatisticsCurrent
     THEN /\ UpdateStatistics(entry)
          /\ sbBlkStatisticsConsolidated' = FALSE
     ELSE UNCHANGED <<statistics, pyramidStatistics,
                      sbBlkStatisticsConsolidated>>
  /\ UNCHANGED <<sbBlkStatisticsCurrent, loading, recreating, visited,
                 recreations>>

\* Opening a document adds what its directory has, ...
LoadSubBlock(entry) == loading /\ AddSubBlock(entry)

\* ... which is no modification.
LoadDone ==
  /\ loading
  /\ loading' = FALSE
  /\ isModified' = FALSE
  /\ UNCHANGED <<subBlks, nextSbBlkIndex, sbBlkStatisticsCurrent,
                 sbBlkStatisticsConsolidated, statistics, pyramidStatistics,
                 recreating, visited, recreations>>

\* Two entries of the same coordinate, if both are of layer 0 and have an
\* M-index.
CompareForEquality_Coordinate(a, b) ==
  /\ a.coordinate = b.coordinate
  /\ IsMIndexValid(a) /\ IsMIndexValid(b) /\ a.mIndex = b.mIndex
  /\ IsStoredSizeEqualLogicalSize(a) /\ IsStoredSizeEqualLogicalSize(b)

TryAddSubBlock(entry) ==
  /\ Ready
  /\ \A key \in DOMAIN subBlks :
       ~CompareForEquality_Coordinate(subBlks[key], entry)
  /\ AddSubBlock(entry)

\* What makes the statistics out of date happens only as long as they may be
\* recreated, within the bound.
WithinBound == recreations < MaxRecreations

\* Mutant: the statistics are taken to be current still.
ModifySilently(key, entry) ==
  /\ Ready
  /\ WithinBound
  /\ subBlks' = [subBlks EXCEPT ![key] = entry]
  /\ isModified' = TRUE
  /\ UNCHANGED <<nextSbBlkIndex, sbBlkStatisticsCurrent,
                 sbBlkStatisticsConsolidated, statistics, pyramidStatistics,
                 loading, recreating, visited, recreations>>

TryModifySubBlock(key, entry) ==
  /\ Ready
  /\ WithinBound
  /\ subBlks' = [subBlks EXCEPT ![key] = entry]
  /\ isModified' = TRUE
  /\ sbBlkStatisticsCurrent' = FALSE
  /\ sbBlkStatisticsConsolidated' = FALSE
  /\ UNCHANGED <<nextSbBlkIndex, statistics, pyramidStatistics, loading,
                 recreating, visited, recreations>>

\* Mutant: the pyramid's statistics are still taken for consolidated.
RemoveKeepingConsolidated(key) ==
  /\ Ready
  /\ WithinBound
  /\ subBlks' = [k \in DOMAIN subBlks \ {key} |-> subBlks[k]]
  /\ isModified' = TRUE
  /\ sbBlkStatisticsCurrent' = FALSE
  /\ UNCHANGED <<nextSbBlkIndex, sbBlkStatisticsConsolidated, statistics,
                 pyramidStatistics, loading, recreating, visited, recreations>>

TryRemoveSubBlock(key) ==
  /\ Ready
  /\ WithinBound
  /\ subBlks' = [k \in DOMAIN subBlks \ {key} |-> subBlks[k]]
  /\ isModified' = TRUE
  /\ sbBlkStatisticsCurrent' = FALSE
  /\ sbBlkStatisticsConsolidated' = FALSE
  /\ UNCHANGED <<nextSbBlkIndex, statistics, pyramidStatistics, loading,
                 recreating, visited, recreations>>

\* GetStatistics, and GetPyramidStatistics, begin to recreate what is not
\* current: Clear leaves the statistics of the pyramid as they are.
RecreateSubBlockStatistics ==
  /\ Ready
  /\ ~sbBlkStatisticsCurrent
  /\ WithinBound
  /\ statistics' = ClearedStatistics
  /\ recreating' = TRUE
  /\ visited' = {}
  /\ recreations' = recreations + 1
  /\ UNCHANGED <<subBlks, nextSbBlkIndex, isModified, sbBlkStatisticsCurrent,
                 sbBlkStatisticsConsolidated, pyramidStatistics, loading>>

\* One turn of the loop, in the order of the keys.
RecreateVisit ==
  \E key \in DOMAIN subBlks \ visited :
    /\ recreating
    /\ \A other \in DOMAIN subBlks \ visited : key <= other
    /\ UpdateStatistics(subBlks[key])
    /\ visited' = visited \cup {key}
    /\ UNCHANGED <<subBlks, nextSbBlkIndex, isModified,
                   sbBlkStatisticsCurrent, sbBlkStatisticsConsolidated,
                   loading, recreating, recreations>>

RecreateDone ==
  /\ recreating
  /\ visited = DOMAIN subBlks
  /\ sbBlkStatisticsCurrent' = TRUE
  /\ sbBlkStatisticsConsolidated' = FALSE
  /\ recreating' = FALSE
  /\ visited' = {}
  /\ UNCHANGED <<subBlks, nextSbBlkIndex, isModified, statistics,
                 pyramidStatistics, loading, recreations>>

\* The end of GetPyramidStatistics, once the statistics are current.
EnsureSbBlkStatisticsConsolidated ==
  /\ Ready
  /\ sbBlkStatisticsCurrent
  /\ ~sbBlkStatisticsConsolidated
  /\ sbBlkStatisticsConsolidated' = TRUE
  /\ UNCHANGED <<subBlks, nextSbBlkIndex, isModified, sbBlkStatisticsCurrent,
                 statistics, pyramidStatistics, loading, recreating, visited,
                 recreations>>

Edit ==
  \/ \E entry \in Entries : LoadSubBlock(entry) \/ TryAddSubBlock(entry)
  \/ LoadDone
  \/ \E key \in DOMAIN subBlks, entry \in Entries : TryModifySubBlock(key, entry)
  \/ \E key \in DOMAIN subBlks : TryRemoveSubBlock(key)

Recreate == RecreateSubBlockStatistics \/ RecreateVisit \/ RecreateDone

DirectoryNext == Edit \/ Recreate \/ EnsureSbBlkStatisticsConsolidated

DirectorySpec == DirectoryInit /\ [][DirectoryNext]_directoryVars

-----------------------------------------------------------------------------
(* Properties. *)

\* Box is the least one around the boxes of the entries in E, and none if there
\* are none.
IsHull(box, E) ==
  IF E = {} THEN box = NoBox
  ELSE /\ IsValidBox(box)
       /\ \A e \in E :
            /\ box.x.start <= e.x.start /\ box.y.start <= e.y.start
            /\ e.x.start + e.x.size <= box.x.start + box.x.size
            /\ e.y.start + e.y.size <= box.y.start + box.y.size
       /\ \E e \in E : e.x.start = box.x.start
       /\ \E e \in E : e.y.start = box.y.start
       /\ \E e \in E : e.x.start + e.x.size = box.x.start + box.x.size
       /\ \E e \in E : e.y.start + e.y.size = box.y.start + box.y.size

OfLayer0(E) == {e \in E : IsStoredSizeEqualLogicalSize(e)}
WithDimension(E, d) == {e \in E : d \in DOMAIN e.coordinate}
InScene(E, s) == {e \in WithDimension(E, "S") : e.coordinate["S"] = s}
WithMIndex(E) == {e \in E : IsMIndexValid(e)}
HaveDimensions(E) == \A e \in E : DOMAIN e.coordinate # {}

\* Span is the least one around the values of dimension d.
IsSpanOf(span, E, d) ==
  /\ \A e \in E : /\ span.start <= e.coordinate[d]
                  /\ e.coordinate[d] < span.start + span.size
  /\ \E e \in E : e.coordinate[d] = span.start
  /\ \E e \in E : e.coordinate[d] = span.start + span.size - 1

AreMIndicesOf(least, greatest, E) ==
  /\ \A e \in E : least <= e.mIndex /\ e.mIndex <= greatest
  /\ IF E = {} THEN least = IntMax /\ greatest = IntMin
     ELSE /\ \E e \in E : least = e.mIndex
          /\ \E e \in E : greatest = e.mIndex

\* St is what the statistics should say of the entries in E.
AreStatisticsOf(st, E) ==
  /\ HaveDimensions(WithMIndex(E)) =>
       AreMIndicesOf(st.minMindex, st.maxMindex, WithMIndex(E))
  /\ IsHull(st.boundingBox, E)
  /\ IsHull(st.boundingBoxLayer0Only, OfLayer0(E))
  /\ DOMAIN st.dimBounds = UNION {DOMAIN e.coordinate : e \in E}
  /\ \A d \in DOMAIN st.dimBounds :
       IsSpanOf(st.dimBounds[d], WithDimension(E, d), d)
  /\ DOMAIN st.sceneBoundingBoxes
       = {e.coordinate["S"] : e \in WithDimension(E, "S")}
  /\ \A s \in DOMAIN st.sceneBoundingBoxes :
       /\ IsHull(st.sceneBoundingBoxes[s].box, InScene(E, s))
       /\ IsHull(st.sceneBoundingBoxes[s].layer0, OfLayer0(InScene(E, s)))

\* What GetStatistics returns takes "into consideration the current state"
\* (libCZI_ReadWrite.h): after any sequence of adding, modifying, removing and
\* asking, the statistics that count as current are those of the entries that
\* are there.  The bounds of the M-index are "determined from all sub-blocks in
\* the document with a valid M-index" (libCZI.h), as long as each of those has
\* a dimension: UpdateStatistics overlooks the M-index of an entry without any,
\* so that nothing is claimed of the two bounds while there is one.
StatisticsAreOfTheEntries ==
  sbBlkStatisticsCurrent =>
    /\ statistics.subBlockCount = Cardinality(DOMAIN subBlks)
    /\ AreStatisticsOf(statistics, {subBlks[key] : key \in DOMAIN subBlks})

EntriesOf(cell) == {key \in DOMAIN subBlks : CellOf(subBlks[key]) = cell}

\* The statistics of the pyramid never miss an entry, and are exact as long
\* as nothing made the directory recreate them.
PyramidMissesNothing ==
  sbBlkStatisticsCurrent =>
    \A cell \in Cells :
      /\ pyramidStatistics[cell] >= Cardinality(EntriesOf(cell))
      /\ recreations = 0 =>
           pyramidStatistics[cell] = Cardinality(EntriesOf(cell))

\* The documented meaning of the counts: "The number of sub-blocks which are
\* present in the pyramid-layer" (libCZI.h), whenever they are consolidated.
PyramidCountsTheEntries ==
  sbBlkStatisticsConsolidated =>
    \A cell \in Cells :
      pyramidStatistics[cell] = Cardinality(EntriesOf(cell))

\* The types of the members, and what the flags and keys mean to each other:
\* keys are those given out, consolidated statistics are current.
DirectoryTypeOK ==
  /\ DOMAIN subBlks \subseteq 0 .. nextSbBlkIndex - 1
  /\ \A key \in DOMAIN subBlks : subBlks[key] \in Entries
  /\ nextSbBlkIndex \in 0 .. MaxKeys
  /\ isModified \in BOOLEAN
  /\ sbBlkStatisticsCurrent \in BOOLEAN
  /\ sbBlkStatisticsConsolidated \in BOOLEAN
  /\ sbBlkStatisticsConsolidated => sbBlkStatisticsCurrent
  /\ statistics.subBlockCount \in Nat
  /\ pyramidStatistics \in [Cells -> Nat]
  /\ loading \in BOOLEAN
  /\ recreating \in BOOLEAN
  /\ visited \subseteq DOMAIN subBlks
  /\ recreations \in 0 .. MaxRecreations

=============================================================================
