------------------------- MODULE TileAccessorProofs -------------------------
(***************************************************************************)
(* What a picture shows: the tiles that are wanted, of each pixel the one  *)
(* on top, with and without the check of visibility.  Before that, the     *)
(* directory the tiles are from: when it is edited, its statistics are     *)
(* those of its entries, and the pyramid's miss none.                      *)
(*                                                                         *)
(*   DirectoryInv  While the statistics are recreated, they are those of   *)
(*             the entries visited so far.                                 *)
(*   IInv      The rectangles that the check keeps do not overlap and      *)
(*             cover what the tiles cover (and DirectoryInv).              *)
(*   CallInv   A call has tiles of the directory, and counts the pixels of *)
(*             the region that those it has looked at cover.               *)
(*   PictureInv  What is still to be painted makes of the picture the one  *)
(*             of all tiles so far.                                        *)
(*   OrderInv  A group is in the order it was sorted.                      *)
(*   WantedInv The groups that are done, sorted and left are what a filter *)
(*             and the zoom ask for.                                       *)
(*                                                                         *)
(* A tile is left out when the area of the rectangles did not grow.  So    *)
(* areas are shown to count pixels, and a tile that adds none to the count *)
(* has none of its own.                                                    *)
(***************************************************************************)
EXTENDS TileAccessor, FiniteSetTheorems, WellFoundedInduction, TLAPS

(* Types of the statistics, and of entries. *)

Boxes == [x : [start : Int, size : Int], y : [start : Int, size : Int]]

StatisticsType(st) ==
  /\ st.subBlockCount \in Nat
  /\ st.minMindex \in Int /\ st.maxMindex \in Int
  /\ st.boundingBox \in Boxes /\ st.boundingBoxLayer0Only \in Boxes
  /\ \A d \in DOMAIN st.dimBounds : st.dimBounds[d] \in Spans
  /\ \A s \in DOMAIN st.sceneBoundingBoxes :
       st.sceneBoundingBoxes[s] \in [box : Boxes, layer0 : Boxes]

\* What the assumption says of one entry.
LEMMA EntryType ==
  ASSUME NEW e \in Entries
  PROVE  /\ e.x \in Spans /\ e.y \in Spans
         /\ \A d \in DOMAIN e.coordinate : e.coordinate[d] \in Int
         /\ e.mIndex \in Int /\ IntMin <= e.mIndex /\ e.mIndex <= IntMax
<1>1. IntMin \in Int /\ IntMax \in Int
  BY SMT DEF IntMin, IntMax
<1>2. e.mIndex \in IntMin .. IntMax
  BY DirectoryAssumption
<1> QED BY <1>1, <1>2, DirectoryAssumption

\* Extend gives the least span around two.
LEMMA ExtendIsLeast ==
  ASSUME NEW a \in Spans, NEW b \in Spans
  PROVE  /\ Extend(a, b) \in Spans
         /\ Extend(a, b).start <= a.start /\ Extend(a, b).start <= b.start
         /\ Extend(a, b).start \in {a.start, b.start}
         /\ a.start + a.size <= Extend(a, b).start + Extend(a, b).size
         /\ b.start + b.size <= Extend(a, b).start + Extend(a, b).size
         /\ Extend(a, b).start + Extend(a, b).size
              \in {a.start + a.size, b.start + b.size}
BY DEF Extend, Spans

-----------------------------------------------------------------------------
(* One entry more. *)

\* A bounding box of entries follows one more of them (UpdateBoundingBox).
LEMMA HullFollows ==
  ASSUME NEW E \in SUBSET Entries, NEW e \in Entries, NEW box \in Boxes,
         IsHull(box, E)
  PROVE  /\ UpdateBoundingBox(box, e) \in Boxes
         /\ IsHull(UpdateBoundingBox(box, e), E \cup {e})
<1> DEFINE new == UpdateBoundingBox(box, e)
<1>1. e.x \in Spans /\ e.y \in Spans
  BY EntryType
<1>2. CASE E = {}
  <2>1. new = [x |-> e.x, y |-> e.y]
    BY <1>2 DEF IsHull, NoBox, IsValidBox, UpdateBoundingBox
  <2>2. new \in Boxes /\ IsValidBox(new)
    BY <1>1, <2>1 DEF Boxes, IsValidBox, Spans
  <2>3. E \cup {e} = {e}
    BY <1>2
  <2> QED BY <1>1, <2>1, <2>2, <2>3 DEF IsHull, Spans
<1>3. CASE E # {}
  <2>1. IsValidBox(box) /\ box.x \in Spans /\ box.y \in Spans
    BY <1>3 DEF IsHull, IsValidBox, Boxes, Spans
  <2>2. new = [x |-> Extend(box.x, e.x), y |-> Extend(box.y, e.y)]
    BY <2>1 DEF UpdateBoundingBox
  <2>3. new.x \in Spans /\ new.y \in Spans
    BY <1>1, <2>1, <2>2, ExtendIsLeast
  <2>4. new \in Boxes /\ IsValidBox(new)
    BY <2>2, <2>3 DEF Boxes, IsValidBox, Spans
  <2>5. /\ new.x.start <= box.x.start /\ new.x.start <= e.x.start
        /\ new.x.start \in {box.x.start, e.x.start}
        /\ box.x.start + box.x.size <= new.x.start + new.x.size
        /\ e.x.start + e.x.size <= new.x.start + new.x.size
        /\ new.x.start + new.x.size
             \in {box.x.start + box.x.size, e.x.start + e.x.size}
    BY <1>1, <2>1, <2>2, ExtendIsLeast
  <2>6. /\ new.y.start <= box.y.start /\ new.y.start <= e.y.start
        /\ new.y.start \in {box.y.start, e.y.start}
        /\ box.y.start + box.y.size <= new.y.start + new.y.size
        /\ e.y.start + e.y.size <= new.y.start + new.y.size
        /\ new.y.start + new.y.size
             \in {box.y.start + box.y.size, e.y.start + e.y.size}
    BY <1>1, <2>1, <2>2, ExtendIsLeast
  <2>7. ASSUME NEW f \in E \cup {e}
        PROVE  /\ new.x.start <= f.x.start /\ new.y.start <= f.y.start
               /\ f.x.start + f.x.size <= new.x.start + new.x.size
               /\ f.y.start + f.y.size <= new.y.start + new.y.size
    BY <1>1, <1>3, <2>1, <2>3, <2>5, <2>6, EntryType DEF IsHull, Spans
  <2>8. /\ \E f \in E \cup {e} : f.x.start = new.x.start
        /\ \E f \in E \cup {e} : f.y.start = new.y.start
        /\ \E f \in E \cup {e} :
             f.x.start + f.x.size = new.x.start + new.x.size
        /\ \E f \in E \cup {e} :
             f.y.start + f.y.size = new.y.start + new.y.size
    BY <1>3, <2>5, <2>6 DEF IsHull
  <2> HIDE DEF new
  <2>9. IsHull(new, E \cup {e})
    BY <2>4, <2>7, <2>8 DEF IsHull
  <2> QED BY <2>4, <2>9 DEF new
<1> QED BY <1>2, <1>3

\* The box of layer 0 follows the entries of layer 0.
LEMMA Layer0HullFollows ==
  ASSUME NEW E \in SUBSET Entries, NEW e \in Entries, NEW box \in Boxes,
         IsHull(box, OfLayer0(E))
  PROVE  /\ UpdateLayer0Box(box, e) \in Boxes
         /\ IsHull(UpdateLayer0Box(box, e), OfLayer0(E \cup {e}))
<1>1. CASE IsStoredSizeEqualLogicalSize(e)
  <2>1. OfLayer0(E \cup {e}) = OfLayer0(E) \cup {e}
    BY <1>1 DEF OfLayer0
  <2>2. OfLayer0(E) \in SUBSET Entries
    BY DEF OfLayer0
  <2> QED BY <1>1, <2>1, <2>2, HullFollows DEF UpdateLayer0Box
<1>2. CASE ~IsStoredSizeEqualLogicalSize(e)
  <2>1. OfLayer0(E \cup {e}) = OfLayer0(E)
    BY <1>2 DEF OfLayer0
  <2> QED BY <1>2, <2>1 DEF UpdateLayer0Box
<1> QED BY <1>1, <1>2

\* The interval of a dimension follows the values of one more entry.
LEMMA SpanFollows ==
  ASSUME NEW E \in SUBSET Entries, NEW e \in Entries,
         NEW d \in DOMAIN e.coordinate, NEW span \in Spans,
         \A f \in E : d \in DOMAIN f.coordinate,
         IsSpanOf(span, E, d)
  PROVE  IsSpanOf(Extend(span, [start |-> e.coordinate[d], size |-> 1]),
                  E \cup {e}, d)
<1> DEFINE value == [start |-> e.coordinate[d], size |-> 1]
           new == Extend(span, value)
<1>1. value \in Spans /\ \A f \in E : f.coordinate[d] \in Int
  BY EntryType DEF Spans
<1>2. /\ new \in Spans
      /\ new.start <= span.start /\ new.start <= value.start
      /\ new.start \in {span.start, value.start}
      /\ span.start + span.size <= new.start + new.size
      /\ value.start + value.size <= new.start + new.size
      /\ new.start + new.size
           \in {span.start + span.size, value.start + value.size}
  BY <1>1, ExtendIsLeast
<1>3. value.start = e.coordinate[d] /\ value.size = 1
  OBVIOUS
<1> HIDE DEF new, value
<1>4. ASSUME NEW f \in E \cup {e}
      PROVE  /\ new.start <= f.coordinate[d]
             /\ f.coordinate[d] < new.start + new.size
  BY <1>1, <1>2, <1>3 DEF IsSpanOf, Spans
<1>5. \E f \in E \cup {e} : f.coordinate[d] = new.start
  BY <1>2, <1>3 DEF IsSpanOf
<1>6. \E f \in E \cup {e} : f.coordinate[d] = new.start + new.size - 1
  <2>1. CASE new.start + new.size = span.start + span.size
    BY <1>1, <1>2, <2>1 DEF IsSpanOf, Spans
  <2>2. CASE new.start + new.size = value.start + value.size
    BY <1>1, <1>2, <1>3, <2>2 DEF Spans
  <2> QED BY <1>2, <2>1, <2>2
<1>7. IsSpanOf(new, E \cup {e}, d)
  BY <1>4, <1>5, <1>6 DEF IsSpanOf
<1> QED BY <1>7 DEF new, value

\* The bounds of the M-index follow the entries that have one, as long as all
\* of these have a dimension.
LEMMA MIndicesFollow ==
  ASSUME NEW E \in SUBSET Entries, NEW e \in Entries,
         NEW least \in Int, NEW greatest \in Int,
         HaveDimensions(WithMIndex(E)) =>
           AreMIndicesOf(least, greatest, WithMIndex(E))
  PROVE  LET l == IF CountsM(e) /\ e.mIndex < least THEN e.mIndex ELSE least
             g == IF CountsM(e) /\ e.mIndex > greatest
                  THEN e.mIndex ELSE greatest
         IN  /\ l \in Int /\ g \in Int
             /\ HaveDimensions(WithMIndex(E \cup {e})) =>
                  AreMIndicesOf(l, g, WithMIndex(E \cup {e}))
<1>1. \A f \in E \cup {e} :
        f.mIndex \in Int /\ IntMin <= f.mIndex /\ f.mIndex <= IntMax
  BY EntryType
<1>2. CASE ~HaveDimensions(WithMIndex(E \cup {e}))
  BY <1>2, EntryType
<1>3. ASSUME HaveDimensions(WithMIndex(E \cup {e}))
      PROVE  /\ AreMIndicesOf(least, greatest, WithMIndex(E))
             /\ CountsM(e) <=> IsMIndexValid(e)
  BY <1>3 DEF HaveDimensions, WithMIndex, CountsM
<1>4. CASE HaveDimensions(WithMIndex(E \cup {e})) /\ ~CountsM(e)
  <2>1. WithMIndex(E \cup {e}) = WithMIndex(E)
    BY <1>4, <1>3 DEF WithMIndex
  <2> QED BY <1>4, <1>3, <2>1
<1>5. CASE HaveDimensions(WithMIndex(E \cup {e})) /\ CountsM(e)
  <2>1. WithMIndex(E \cup {e}) = WithMIndex(E) \cup {e}
    BY <1>5, <1>3 DEF WithMIndex
  <2>2. WithMIndex(E) \subseteq E
    BY DEF WithMIndex
  <2>3. IntMin \in Int /\ IntMax \in Int
    BY SMT DEF IntMin, IntMax
  <2> DEFINE l == IF e.mIndex < least THEN e.mIndex ELSE least
             g == IF e.mIndex > greatest THEN e.mIndex ELSE greatest
  <2>4. /\ l \in Int /\ l <= least /\ l <= e.mIndex /\ l \in {least, e.mIndex}
        /\ g \in Int /\ greatest <= g /\ e.mIndex <= g
        /\ g \in {greatest, e.mIndex}
    BY <1>1
  <2>5. CASE WithMIndex(E) = {}
    <3>1. l = e.mIndex /\ g = e.mIndex
      BY <1>5, <1>3, <1>1, <2>3, <2>5 DEF AreMIndicesOf
    <3>2. WithMIndex(E \cup {e}) = {e}
      BY <2>1, <2>5
    <3> HIDE DEF l, g
    <3>3. AreMIndicesOf(l, g, {e})
      BY <1>1, <3>1 DEF AreMIndicesOf
    <3> QED BY <1>5, <2>4, <3>2, <3>3 DEF l, g
  <2>6. CASE WithMIndex(E) # {}
    <3> HIDE DEF l, g
    <3>1. \A f \in WithMIndex(E) \cup {e} : l <= f.mIndex /\ f.mIndex <= g
      BY <1>5, <1>3, <1>1, <2>2, <2>4, <2>6 DEF AreMIndicesOf
    <3>2. /\ \E f \in WithMIndex(E) \cup {e} : l = f.mIndex
          /\ \E f \in WithMIndex(E) \cup {e} : g = f.mIndex
      BY <1>5, <1>3, <2>4, <2>6 DEF AreMIndicesOf
    <3>3. AreMIndicesOf(l, g, WithMIndex(E \cup {e}))
      BY <2>1, <3>1, <3>2 DEF AreMIndicesOf
    <3> QED BY <1>5, <2>4, <3>3 DEF l, g
  <2> QED BY <2>5, <2>6
<1> QED BY <1>2, <1>4, <1>5

\* The bounds of the dimensions follow the coordinate of one more entry.
LEMMA DimBoundsFollow ==
  ASSUME NEW E \in SUBSET Entries, NEW e \in Entries, NEW bounds,
         DOMAIN bounds = UNION {DOMAIN f.coordinate : f \in E},
         \A d \in DOMAIN bounds :
           /\ bounds[d] \in Spans
           /\ IsSpanOf(bounds[d], WithDimension(E, d), d)
  PROVE  LET new == UpdateDimBounds(bounds, e.coordinate)
         IN  /\ DOMAIN new = UNION {DOMAIN f.coordinate : f \in E \cup {e}}
             /\ \A d \in DOMAIN new :
                  /\ new[d] \in Spans
                  /\ IsSpanOf(new[d], WithDimension(E \cup {e}, d), d)
<1> DEFINE new == UpdateDimBounds(bounds, e.coordinate)
           value(d) == [start |-> e.coordinate[d], size |-> 1]
<1>1. DOMAIN new = DOMAIN bounds \cup DOMAIN e.coordinate
  BY DEF UpdateDimBounds
<1>2. DOMAIN new = UNION {DOMAIN f.coordinate : f \in E \cup {e}}
  BY <1>1
<1>3. ASSUME NEW d \in DOMAIN new
      PROVE  /\ new[d] \in Spans
             /\ IsSpanOf(new[d], WithDimension(E \cup {e}, d), d)
  <2>1. CASE d \notin DOMAIN e.coordinate
    <3>1. d \in DOMAIN bounds /\ new[d] = bounds[d]
      BY <1>1, <2>1 DEF UpdateDimBounds
    <3>2. WithDimension(E \cup {e}, d) = WithDimension(E, d)
      BY <2>1 DEF WithDimension
    <3> QED BY <3>1, <3>2
  <2>2. CASE d \in DOMAIN e.coordinate /\ d \notin DOMAIN bounds
    <3>1. new[d] = value(d)
      BY <1>1, <2>2 DEF UpdateDimBounds
    <3>2. WithDimension(E \cup {e}, d) = {e}
      BY <2>2 DEF WithDimension
    <3>3. e.coordinate[d] \in Int
      BY <2>2, EntryType
    <3>4. value(d) \in Spans /\ IsSpanOf(value(d), {e}, d)
      BY <3>3 DEF IsSpanOf, Spans
    <3> QED BY <3>1, <3>2, <3>4
  <2>3. CASE d \in DOMAIN e.coordinate /\ d \in DOMAIN bounds
    <3>1. new[d] = Extend(bounds[d], value(d))
      BY <1>1, <2>3 DEF UpdateDimBounds
    <3>2. WithDimension(E \cup {e}, d) = WithDimension(E, d) \cup {e}
      BY <2>3 DEF WithDimension
    <3>3. /\ WithDimension(E, d) \in SUBSET Entries
          /\ \A f \in WithDimension(E, d) : d \in DOMAIN f.coordinate
      BY DEF WithDimension
    <3>4. value(d) \in Spans
      BY <2>3, EntryType DEF Spans
    <3>5. bounds[d] \in Spans /\ IsSpanOf(bounds[d], WithDimension(E, d), d)
      BY <2>3
    <3>6. IsSpanOf(Extend(bounds[d], value(d)), WithDimension(E, d) \cup {e}, d)
      BY <2>3, <3>3, <3>5, SpanFollows
    <3>7. Extend(bounds[d], value(d)) \in Spans
      BY <3>4, <3>5, ExtendIsLeast
    <3> QED BY <3>1, <3>2, <3>6, <3>7
  <2> QED BY <1>1, <2>1, <2>2, <2>3
<1> QED BY <1>2, <1>3

\* The boxes of the scenes follow the scene of one more entry.
LEMMA ScenesFollow ==
  ASSUME NEW E \in SUBSET Entries, NEW e \in Entries, NEW scenes,
         DOMAIN scenes = {f.coordinate["S"] : f \in WithDimension(E, "S")},
         \A s \in DOMAIN scenes :
           /\ scenes[s] \in [box : Boxes, layer0 : Boxes]
           /\ IsHull(scenes[s].box, InScene(E, s))
           /\ IsHull(scenes[s].layer0, OfLayer0(InScene(E, s)))
  PROVE  LET new == UpdateScenes(scenes, e)
         IN  /\ DOMAIN new = {f.coordinate["S"] :
                                f \in WithDimension(E \cup {e}, "S")}
             /\ \A s \in DOMAIN new :
                  /\ new[s] \in [box : Boxes, layer0 : Boxes]
                  /\ IsHull(new[s].box, InScene(E \cup {e}, s))
                  /\ IsHull(new[s].layer0, OfLayer0(InScene(E \cup {e}, s)))
<1> DEFINE new == UpdateScenes(scenes, e)
           scene == e.coordinate["S"]
<1>1. CASE "S" \notin DOMAIN e.coordinate
  <2>1. WithDimension(E \cup {e}, "S") = WithDimension(E, "S")
    BY <1>1 DEF WithDimension
  <2>2. \A s : InScene(E \cup {e}, s) = InScene(E, s)
    BY <2>1 DEF InScene
  <2>3. new = scenes
    BY <1>1 DEF UpdateScenes
  <2> QED BY <2>1, <2>2, <2>3
<1>2. CASE "S" \in DOMAIN e.coordinate
  <2> DEFINE old == IF scene \in DOMAIN scenes
                    THEN scenes[scene] ELSE [box |-> NoBox, layer0 |-> NoBox]
  <2>1. WithDimension(E \cup {e}, "S") = WithDimension(E, "S") \cup {e}
    BY <1>2 DEF WithDimension
  <2>2. SceneOf(e) = scene
    BY <1>2 DEF SceneOf
  <2>3. /\ DOMAIN new = DOMAIN scenes \cup {scene}
        /\ new[scene] = [box |-> UpdateBoundingBox(old.box, e),
                         layer0 |-> UpdateLayer0Box(old.layer0, e)]
        /\ \A s \in DOMAIN new : s # scene => new[s] = scenes[s]
    BY <1>2, <2>2 DEF UpdateScenes
  <2>4. DOMAIN new = {f.coordinate["S"] :
                        f \in WithDimension(E \cup {e}, "S")}
    BY <2>1, <2>3
  <2>5. /\ InScene(E \cup {e}, scene) = InScene(E, scene) \cup {e}
        /\ \A s : s # scene => InScene(E \cup {e}, s) = InScene(E, s)
    BY <2>1 DEF InScene
  <2>6. InScene(E, scene) \in SUBSET Entries
    BY DEF InScene, WithDimension
  <2>7. /\ old.box \in Boxes /\ old.layer0 \in Boxes
        /\ IsHull(old.box, InScene(E, scene))
        /\ IsHull(old.layer0, OfLayer0(InScene(E, scene)))
    <3>1. CASE scene \in DOMAIN scenes
      BY <3>1
    <3>2. CASE scene \notin DOMAIN scenes
      <4>1. InScene(E, scene) = {} /\ OfLayer0({}) = {}
        BY <3>2 DEF InScene, OfLayer0
      <4>2. NoBox \in Boxes
        BY DEF NoBox, Boxes
      <4> QED BY <3>2, <4>1, <4>2 DEF IsHull
    <3> QED BY <3>1, <3>2
  <2> HIDE DEF old
  <2>8. /\ UpdateBoundingBox(old.box, e) \in Boxes
        /\ IsHull(UpdateBoundingBox(old.box, e), InScene(E, scene) \cup {e})
    BY <2>6, <2>7, HullFollows
  <2>9. /\ UpdateLayer0Box(old.layer0, e) \in Boxes
        /\ IsHull(UpdateLayer0Box(old.layer0, e),
                  OfLayer0(InScene(E, scene) \cup {e}))
    BY <2>6, <2>7, Layer0HullFollows
  <2>10. ASSUME NEW s \in DOMAIN new
         PROVE  /\ new[s] \in [box : Boxes, layer0 : Boxes]
                /\ IsHull(new[s].box, InScene(E \cup {e}, s))
                /\ IsHull(new[s].layer0, OfLayer0(InScene(E \cup {e}, s)))
    <3> HIDE DEF new, scene
    <3>1. CASE s = scene
      <4>1. /\ new[s].box = UpdateBoundingBox(old.box, e)
            /\ new[s].layer0 = UpdateLayer0Box(old.layer0, e)
            /\ new[s] = [box |-> new[s].box, layer0 |-> new[s].layer0]
        BY <2>3, <3>1
      <4>2. new[s] \in [box : Boxes, layer0 : Boxes]
        BY <2>8, <2>9, <4>1
      <4> QED BY <2>5, <2>8, <2>9, <3>1, <4>1, <4>2
    <3>2. CASE s # scene
      <4>1. s \in DOMAIN scenes /\ new[s] = scenes[s]
        BY <2>3, <3>2
      <4> QED BY <2>5, <3>2, <4>1
    <3> QED BY <3>1, <3>2
  <2> QED BY <2>4, <2>10
<1> QED BY <1>1, <1>2

\* What holds of the statistics of some entries holds of the updated statistics
\* of these and one more.
LEMMA StatisticsFollow ==
  ASSUME NEW E \in SUBSET Entries, NEW e \in Entries, NEW st,
         StatisticsType(st), AreStatisticsOf(st, E)
  PROVE  LET new == UpdatedStatistics(st, e)
         IN  /\ StatisticsType(new)
             /\ new.subBlockCount = st.subBlockCount + 1
             /\ AreStatisticsOf(new, E \cup {e})
<1> DEFINE new == UpdatedStatistics(st, e)
<1>1. /\ new.minMindex \in Int /\ new.maxMindex \in Int
      /\ HaveDimensions(WithMIndex(E \cup {e})) =>
           AreMIndicesOf(new.minMindex, new.maxMindex, WithMIndex(E \cup {e}))
  BY MIndicesFollow DEF StatisticsType, AreStatisticsOf, UpdatedStatistics
<1>2. new.boundingBox \in Boxes /\ IsHull(new.boundingBox, E \cup {e})
  BY HullFollows DEF StatisticsType, AreStatisticsOf, UpdatedStatistics
<1>3. /\ new.boundingBoxLayer0Only \in Boxes
      /\ IsHull(new.boundingBoxLayer0Only, OfLayer0(E \cup {e}))
  BY Layer0HullFollows DEF StatisticsType, AreStatisticsOf, UpdatedStatistics
<1>4. /\ DOMAIN new.dimBounds = UNION {DOMAIN f.coordinate : f \in E \cup {e}}
      /\ \A d \in DOMAIN new.dimBounds :
           /\ new.dimBounds[d] \in Spans
           /\ IsSpanOf(new.dimBounds[d], WithDimension(E \cup {e}, d), d)
  BY DimBoundsFollow DEF StatisticsType, AreStatisticsOf, UpdatedStatistics
<1>5. /\ DOMAIN new.sceneBoundingBoxes
           = {f.coordinate["S"] : f \in WithDimension(E \cup {e}, "S")}
      /\ \A s \in DOMAIN new.sceneBoundingBoxes :
           /\ new.sceneBoundingBoxes[s] \in [box : Boxes, layer0 : Boxes]
           /\ IsHull(new.sceneBoundingBoxes[s].box, InScene(E \cup {e}, s))
           /\ IsHull(new.sceneBoundingBoxes[s].layer0,
                     OfLayer0(InScene(E \cup {e}, s)))
  BY ScenesFollow DEF StatisticsType, AreStatisticsOf, UpdatedStatistics
<1>6. new.subBlockCount = st.subBlockCount + 1 /\ new.subBlockCount \in Nat
  BY DEF StatisticsType, UpdatedStatistics
<1> HIDE DEF new
<1>7. StatisticsType(new)
  BY <1>1, <1>2, <1>3, <1>4, <1>5, <1>6 DEF StatisticsType
<1>8. AreStatisticsOf(new, E \cup {e})
  BY <1>1, <1>2, <1>3, <1>4, <1>5 DEF AreStatisticsOf
<1> QED BY <1>6, <1>7, <1>8 DEF new

\* Cleared statistics are those of no entry.
LEMMA ClearedAreOfNone ==
  /\ StatisticsType(ClearedStatistics)
  /\ ClearedStatistics.subBlockCount = 0
  /\ AreStatisticsOf(ClearedStatistics, {})
<1>1. NoBox \in Boxes
  BY DEF NoBox, Boxes
<1>2. IntMin \in Int /\ IntMax \in Int
  BY SMT DEF IntMin, IntMax
<1>3. OfLayer0({}) = {} /\ WithMIndex({}) = {} /\ WithDimension({}, "S") = {}
  BY DEF OfLayer0, WithMIndex, WithDimension
<1> QED
  BY <1>1, <1>2, <1>3
    DEF ClearedStatistics, StatisticsType, AreStatisticsOf, AreMIndicesOf, IsHull

-----------------------------------------------------------------------------
(* The inductive invariant. *)

\* The keys that the statistics are of, if they are of any: while they are
\* recreated, those that the loop has visited.
CountedKeys == IF recreating THEN visited ELSE DOMAIN subBlks
Counting == recreating \/ sbBlkStatisticsCurrent
CountedEntries == {subBlks[key] : key \in CountedKeys}
CountedOf(cell) == {key \in CountedKeys : CellOf(subBlks[key]) = cell}

FlagsInv ==
  IF recreating THEN ~sbBlkStatisticsCurrent /\ ~loading /\ recreations > 0
  ELSE visited = {}

StatisticsInv ==
  /\ StatisticsType(statistics)
  /\ Counting =>
       /\ statistics.subBlockCount = Cardinality(CountedKeys)
       /\ AreStatisticsOf(statistics, CountedEntries)

PyramidInv ==
  Counting =>
    \A cell \in Cells :
      /\ pyramidStatistics[cell] >= Cardinality(CountedOf(cell))
      /\ recreations = 0 =>
           pyramidStatistics[cell] = Cardinality(CountedOf(cell))

DirectoryInv ==
  DirectoryTypeOK /\ FlagsInv /\ StatisticsInv /\ PyramidInv

\* The keys are finitely many.
LEMMA KeysAreFinite ==
  ASSUME DirectoryTypeOK
  PROVE  /\ IsFiniteSet(CountedKeys) /\ CountedKeys \subseteq DOMAIN subBlks
         /\ \A cell : IsFiniteSet(CountedOf(cell))
         /\ \A cell : Cardinality(CountedOf(cell)) \in Nat
<1>1. CountedKeys \subseteq DOMAIN subBlks
  BY DEF DirectoryTypeOK, CountedKeys
<1>2. nextSbBlkIndex - 1 \in Int /\ 0 \in Int
  BY DirectoryAssumption DEF DirectoryTypeOK
<1>3. IsFiniteSet(0 .. nextSbBlkIndex - 1)
  BY <1>2, FS_Interval
<1>4. IsFiniteSet(CountedKeys)
  BY <1>1, <1>3, FS_Subset DEF DirectoryTypeOK
<1>5. \A cell : CountedOf(cell) \subseteq CountedKeys
  BY DEF CountedOf
<1> QED BY <1>1, <1>4, <1>5, FS_Subset, FS_CardinalityType

\* UpdateStatistics for the entry of one more key keeps what the invariant says
\* of the statistics.
LEMMA OneMoreCounted ==
  ASSUME DirectoryInv, Counting,
         NEW key \in Int, NEW e \in Entries,
         UpdateStatistics(e), UNCHANGED recreations,
         key \notin CountedKeys, CountedKeys' = CountedKeys \cup {key},
         subBlks'[key] = e, \A k \in CountedKeys : subBlks'[k] = subBlks[k]
  PROVE  /\ StatisticsInv' /\ PyramidInv'
         /\ statistics'.subBlockCount \in Nat
         /\ pyramidStatistics' \in [Cells -> Nat]
<1> USE DEF DirectoryInv
<1>1. CountedEntries \in SUBSET Entries
  BY KeysAreFinite DEF CountedEntries, DirectoryTypeOK
<1>2. CountedEntries' = CountedEntries \cup {e}
  BY DEF CountedEntries
<1>3. Cardinality(CountedKeys') = Cardinality(CountedKeys) + 1
  BY KeysAreFinite, FS_AddElement
<1>4. StatisticsInv' /\ statistics'.subBlockCount \in Nat
  <2>1. /\ StatisticsType(statistics')
        /\ statistics'.subBlockCount = statistics.subBlockCount + 1
        /\ AreStatisticsOf(statistics', CountedEntries \cup {e})
    BY <1>1, StatisticsFollow DEF StatisticsInv, UpdateStatistics
  <2> QED BY <1>2, <1>3, <2>1 DEF StatisticsInv, StatisticsType
<1>5. CellOf(e) \in Cells
  BY DEF Cells
<1>6. /\ pyramidStatistics' = [pyramidStatistics EXCEPT ![CellOf(e)] = @ + 1]
      /\ pyramidStatistics' \in [Cells -> Nat]
  BY <1>5 DEF UpdateStatistics, DirectoryTypeOK
<1>7. PyramidInv'
  <2> SUFFICES ASSUME NEW cell \in Cells
               PROVE  /\ pyramidStatistics'[cell] >= Cardinality(CountedOf(cell)')
                      /\ recreations' = 0 =>
                           pyramidStatistics'[cell] = Cardinality(CountedOf(cell)')
    BY DEF PyramidInv
  <2>1. CASE cell = CellOf(e)
    <3>1. key \notin CountedOf(cell) /\ CountedOf(cell)' = CountedOf(cell) \cup {key}
      BY <2>1 DEF CountedOf
    <3>2. Cardinality(CountedOf(cell)') = Cardinality(CountedOf(cell)) + 1
      BY <3>1, KeysAreFinite, FS_AddElement
    <3>3. pyramidStatistics'[cell] = pyramidStatistics[cell] + 1
      BY <1>5, <1>6, <2>1 DEF DirectoryTypeOK
    <3> QED BY <3>2, <3>3, KeysAreFinite DEF PyramidInv, DirectoryTypeOK
  <2>2. CASE cell # CellOf(e)
    <3>1. CountedOf(cell)' = CountedOf(cell)
      BY <2>2 DEF CountedOf
    <3>2. pyramidStatistics'[cell] = pyramidStatistics[cell]
      BY <1>6, <2>2 DEF DirectoryTypeOK
    <3> QED BY <3>1, <3>2 DEF PyramidInv
  <2> QED BY <2>1, <2>2
<1> QED BY <1>4, <1>6, <1>7

\* Nothing is claimed of statistics that are not current, so a step that only
\* makes or leaves them so keeps the invariant.
LEMMA NotCounting ==
  ASSUME DirectoryInv, UNCHANGED statistics, ~Counting'
  PROVE  StatisticsInv' /\ PyramidInv'
BY DEF DirectoryInv, StatisticsInv, PyramidInv

\* A step that changes neither the keys nor what is counted of them keeps it.
LEMMA SameCounted ==
  ASSUME DirectoryInv,
         UNCHANGED <<statistics, pyramidStatistics, CountedKeys, subBlks,
                     recreations>>,
         Counting' => Counting
  PROVE  StatisticsInv' /\ PyramidInv'
<1>1. CountedEntries' = CountedEntries /\ \A cell : CountedOf(cell)' = CountedOf(cell)
  BY DEF CountedEntries, CountedOf
<1> QED BY <1>1 DEF DirectoryInv, StatisticsInv, PyramidInv

-----------------------------------------------------------------------------
(* The first state, and the steps. *)

LEMMA DirectoryInitInv == DirectoryInit => DirectoryInv
<1> SUFFICES ASSUME DirectoryInit PROVE DirectoryInv
  OBVIOUS
<1>1. CountedKeys = {} /\ CountedEntries = {} /\ \A cell : CountedOf(cell) = {}
  BY DEF DirectoryInit, CountedKeys, CountedEntries, CountedOf
<1>2. StatisticsInv
  BY <1>1, ClearedAreOfNone, FS_EmptySet DEF DirectoryInit, StatisticsInv
<1>3. PyramidInv
  BY <1>1, FS_EmptySet DEF DirectoryInit, PyramidInv
<1>4. DirectoryTypeOK
  <2>1. DOMAIN subBlks = {} /\ nextSbBlkIndex \in 0 .. MaxKeys
    BY DirectoryAssumption DEF DirectoryInit
  <2>2. recreations \in 0 .. MaxRecreations
    BY DirectoryAssumption DEF DirectoryInit
  <2>3. statistics.subBlockCount \in Nat
    BY ClearedAreOfNone DEF DirectoryInit
  <2> QED BY <2>1, <2>2, <2>3 DEF DirectoryInit, DirectoryTypeOK
<1>5. FlagsInv
  BY DEF DirectoryInit, FlagsInv
<1> QED BY <1>2, <1>3, <1>4, <1>5 DEF DirectoryInv

\* An entry is added, and counted if the statistics are current.
LEMMA AddKeepsInv ==
  ASSUME DirectoryInv, ~recreating, NEW e \in Entries, AddSubBlock(e)
  PROVE  DirectoryInv'
<1> USE DEF DirectoryInv
<1> DEFINE key == nextSbBlkIndex
<1>1. key \in Int /\ key \notin DOMAIN subBlks
  BY DirectoryAssumption DEF DirectoryTypeOK
<1>2. /\ DOMAIN subBlks' = DOMAIN subBlks \cup {key} /\ subBlks'[key] = e
      /\ \A k \in DOMAIN subBlks : subBlks'[k] = subBlks[k]
  BY <1>1 DEF AddSubBlock
<1>3. CountedKeys = DOMAIN subBlks /\ CountedKeys' = DOMAIN subBlks'
  BY DEF CountedKeys, AddSubBlock
<1>4. FlagsInv'
  BY DEF FlagsInv, AddSubBlock
<1>5. /\ StatisticsInv' /\ PyramidInv'
      /\ statistics'.subBlockCount \in Nat
      /\ pyramidStatistics' \in [Cells -> Nat]
  <2>1. CASE sbBlkStatisticsCurrent
    <3>1. Counting /\ UpdateStatistics(e) /\ UNCHANGED recreations
      BY <2>1 DEF AddSubBlock, Counting
    <3> QED BY <1>1, <1>2, <1>3, <3>1, OneMoreCounted
  <2>2. CASE ~sbBlkStatisticsCurrent
    <3>1. UNCHANGED <<statistics, pyramidStatistics>> /\ ~Counting'
      BY <2>2 DEF AddSubBlock, Counting
    <3> QED BY <3>1, NotCounting DEF DirectoryTypeOK
  <2> QED BY <2>1, <2>2
<1>6. DirectoryTypeOK'
  <2>1. \A k \in DOMAIN subBlks' : subBlks'[k] \in Entries
    BY <1>2 DEF DirectoryTypeOK
  <2>2. nextSbBlkIndex' \in 0 .. MaxKeys
    BY DirectoryAssumption DEF DirectoryTypeOK, AddSubBlock
  <2>3. DOMAIN subBlks' \subseteq 0 .. nextSbBlkIndex' - 1
    BY <1>2, DirectoryAssumption DEF DirectoryTypeOK, AddSubBlock
  <2>4. visited' \subseteq DOMAIN subBlks'
    BY <1>2 DEF DirectoryTypeOK, AddSubBlock
  <2> QED BY <1>5, <2>1, <2>2, <2>3, <2>4 DEF DirectoryTypeOK, AddSubBlock
<1> QED BY <1>4, <1>5, <1>6

\* Modifying and removing leave statistics that do not count as current.
LEMMA ModifyKeepsInv ==
  ASSUME DirectoryInv, NEW key \in DOMAIN subBlks, NEW e \in Entries,
         TryModifySubBlock(key, e) \/ TryRemoveSubBlock(key)
  PROVE  DirectoryInv'
<1> USE DEF DirectoryInv, TryModifySubBlock, TryRemoveSubBlock, Ready
<1>1. DirectoryTypeOK'
  <2>1. visited = {}
    BY DEF FlagsInv
  <2>2. CASE TryModifySubBlock(key, e)
    BY <2>1, <2>2 DEF DirectoryTypeOK
  <2>3. CASE TryRemoveSubBlock(key)
    BY <2>1, <2>3 DEF DirectoryTypeOK
  <2> QED BY <2>2, <2>3
<1>2. UNCHANGED statistics /\ ~Counting' /\ FlagsInv'
  BY DEF Counting, FlagsInv
<1> QED BY <1>1, <1>2, NotCounting

\* The loop begins with cleared statistics, which are those of no entry, ...
LEMMA RecreateBegins ==
  ASSUME DirectoryInv, RecreateSubBlockStatistics
  PROVE  DirectoryInv'
<1> USE DEF DirectoryInv, RecreateSubBlockStatistics
<1>1. CountedKeys' = {} /\ CountedEntries' = {} /\ \A cell : CountedOf(cell)' = {}
  BY DEF CountedKeys, CountedEntries, CountedOf
<1>2. StatisticsInv'
  BY <1>1, ClearedAreOfNone, FS_EmptySet DEF StatisticsInv
<1>3. recreations' \in 0 .. MaxRecreations /\ recreations' > 0
  BY DirectoryAssumption DEF DirectoryTypeOK, WithinBound
<1>4. PyramidInv'
  <2>1. ASSUME NEW cell \in Cells
        PROVE  pyramidStatistics'[cell] >= Cardinality(CountedOf(cell)')
    BY <1>1, FS_EmptySet DEF DirectoryTypeOK
  <2> QED BY <1>3, <2>1 DEF PyramidInv
<1>5. DirectoryTypeOK'
  BY <1>3, ClearedAreOfNone DEF DirectoryTypeOK
<1>6. FlagsInv'
  BY <1>3 DEF FlagsInv, Ready
<1> QED BY <1>2, <1>4, <1>5, <1>6

\* ... counts one key with each turn, ...
LEMMA RecreateGoesOn ==
  ASSUME DirectoryInv, RecreateVisit
  PROVE  DirectoryInv'
<1> USE DEF DirectoryInv
<1>1. PICK key \in DOMAIN subBlks \ visited :
        /\ recreating
        /\ UpdateStatistics(subBlks[key])
        /\ visited' = visited \cup {key}
        /\ UNCHANGED <<subBlks, nextSbBlkIndex, isModified,
                       sbBlkStatisticsCurrent, sbBlkStatisticsConsolidated,
                       loading, recreating, recreations>>
  BY DEF RecreateVisit
<1>2. key \in Int /\ subBlks[key] \in Entries
  BY DirectoryAssumption DEF DirectoryTypeOK
<1>3. CountedKeys = visited /\ CountedKeys' = visited \cup {key} /\ Counting
  BY <1>1 DEF CountedKeys, Counting
<1>4. /\ StatisticsInv' /\ PyramidInv'
      /\ statistics'.subBlockCount \in Nat
      /\ pyramidStatistics' \in [Cells -> Nat]
  BY <1>1, <1>2, <1>3, OneMoreCounted
<1>5. DirectoryTypeOK' /\ FlagsInv'
  BY <1>1, <1>4 DEF DirectoryTypeOK, FlagsInv
<1> QED BY <1>4, <1>5

\* ... and ends when it has counted all.
LEMMA RecreateEnds ==
  ASSUME DirectoryInv, RecreateDone
  PROVE  DirectoryInv'
<1> USE DEF DirectoryInv, RecreateDone
<1>1. UNCHANGED CountedKeys /\ Counting
  BY DEF CountedKeys, Counting
<1>2. StatisticsInv' /\ PyramidInv'
  BY <1>1, SameCounted
<1>3. DirectoryTypeOK' /\ FlagsInv'
  BY DEF DirectoryTypeOK, FlagsInv
<1> QED BY <1>2, <1>3

\* The other steps change flags only.
LEMMA FlagsKeepInv ==
  ASSUME DirectoryInv,
         LoadDone \/ EnsureSbBlkStatisticsConsolidated \/ UNCHANGED directoryVars
  PROVE  DirectoryInv'
<1> USE DEF DirectoryInv, LoadDone, EnsureSbBlkStatisticsConsolidated,
      directoryVars, Ready
<1>1. UNCHANGED CountedKeys /\ (Counting' => Counting)
  BY DEF CountedKeys, Counting
<1>2. StatisticsInv' /\ PyramidInv'
  BY <1>1, SameCounted
<1>3. FlagsInv'
  BY DEF FlagsInv
<1>4. DirectoryTypeOK'
  <2>1. CASE LoadDone
    BY <2>1 DEF DirectoryTypeOK
  <2>2. CASE EnsureSbBlkStatisticsConsolidated
    BY <2>2 DEF DirectoryTypeOK
  <2>3. CASE UNCHANGED directoryVars
    BY <2>3 DEF DirectoryTypeOK
  <2> QED BY <2>1, <2>2, <2>3
<1> QED BY <1>2, <1>3, <1>4

LEMMA DirectoryStepInv ==
  DirectoryInv /\ [DirectoryNext]_directoryVars => DirectoryInv'
<1> SUFFICES ASSUME DirectoryInv, [DirectoryNext]_directoryVars
             PROVE  DirectoryInv'
  OBVIOUS
<1>1. ASSUME NEW e \in Entries, LoadSubBlock(e) \/ TryAddSubBlock(e)
      PROVE  DirectoryInv'
  <2>1. ~recreating /\ AddSubBlock(e)
    BY <1>1 DEF LoadSubBlock, TryAddSubBlock, Ready, DirectoryInv, FlagsInv
  <2> QED BY <2>1, AddKeepsInv
<1>2. ASSUME NEW key \in DOMAIN subBlks, NEW e \in Entries,
             TryModifySubBlock(key, e)
      PROVE  DirectoryInv'
  BY <1>2, ModifyKeepsInv
<1>3. ASSUME NEW key \in DOMAIN subBlks, TryRemoveSubBlock(key)
      PROVE  DirectoryInv'
  <2>1. subBlks[key] \in Entries
    BY DEF DirectoryInv, DirectoryTypeOK
  <2> QED BY <1>3, <2>1, ModifyKeepsInv
<1>4. CASE Recreate
  BY <1>4, RecreateBegins, RecreateGoesOn, RecreateEnds DEF Recreate
<1>5. CASE LoadDone \/ EnsureSbBlkStatisticsConsolidated
             \/ UNCHANGED directoryVars
  BY <1>5, FlagsKeepInv
<1> QED BY <1>1, <1>2, <1>3, <1>4, <1>5 DEF DirectoryNext, Edit

\* What the invariant says of statistics that count as current.
LEMMA InvImpliesProperties ==
  DirectoryInv => /\ DirectoryTypeOK
                  /\ StatisticsAreOfTheEntries
                  /\ PyramidMissesNothing
<1> SUFFICES ASSUME DirectoryInv, sbBlkStatisticsCurrent
             PROVE  StatisticsAreOfTheEntries /\ PyramidMissesNothing
  BY DEF DirectoryInv, StatisticsAreOfTheEntries, PyramidMissesNothing
<1>1. Counting /\ CountedKeys = DOMAIN subBlks
  BY DEF DirectoryInv, FlagsInv, Counting, CountedKeys
<1>2. \A cell : EntriesOf(cell) = CountedOf(cell)
  BY <1>1 DEF EntriesOf, CountedOf
<1>3. StatisticsAreOfTheEntries
  BY <1>1 DEF DirectoryInv, StatisticsInv, StatisticsAreOfTheEntries,
    CountedEntries
<1>4. PyramidMissesNothing
  BY <1>1, <1>2 DEF DirectoryInv, PyramidInv, PyramidMissesNothing
<1> QED BY <1>3, <1>4

-----------------------------------------------------------------------------
(* Rectangles. *)

\* Two rectangles overlap if each begins before the other ends.
LEMMA OverlapMeans ==
  ASSUME NEW a \in Rectangles, NEW b \in Rectangles
  PROVE  IntersectsWith(a, b) <=>
           /\ a.w > 0 /\ a.h > 0 /\ b.w > 0 /\ b.h > 0
           /\ a.x < Right(b) /\ b.x < Right(a)
           /\ a.y < Bottom(b) /\ b.y < Bottom(a)
BY DEF IntersectsWith, Intersect, Larger, Smaller, Rect, Rectangles, Right,
  Bottom

\* The pixels of a rectangle are those inside of it.
LEMMA PixelsAreInside ==
  ASSUME NEW r \in Rectangles
  PROVE  /\ PixelsOf(r) \subseteq Int \X Int
         /\ \A px, py \in Int : <<px, py>> \in PixelsOf(r) <=> Inside(px, py, r)
<1>1. r.x \in Int /\ r.y \in Int /\ Right(r) \in Int /\ Bottom(r) \in Int
  BY DEF Rectangles, Right, Bottom
<1> QED BY <1>1 DEF PixelsOf, Inside

\* A rectangle that is inside of another has no pixels of its own.
LEMMA ContainedPixels ==
  ASSUME NEW a \in Rectangles, NEW b \in Rectangles, IsCompletelyContained(a, b)
  PROVE  PixelsOf(b) \subseteq PixelsOf(a)
<1>1. \A px, py \in Int : Inside(px, py, b) => Inside(px, py, a)
  BY DEF IsCompletelyContained, Inside, Rectangles, Right, Bottom
<1> QED BY <1>1, PixelsAreInside

\* The pieces above and below a between two positions of b.
LEMMA AboveAndBelow ==
  ASSUME NEW a \in Rectangles, NEW b \in Rectangles, IntersectsWith(a, b),
         NEW left \in Int, NEW right \in Int, left <= right
  PROVE  /\ Above(a, b, left, right) \subseteq Rectangles
         /\ Below(a, b, left, right) \subseteq Rectangles
         /\ \A px, py \in Int :
              (\E r \in Above(a, b, left, right) : Inside(px, py, r))
                <=> left <= px /\ px < right /\ b.y <= py /\ py < a.y
         /\ \A px, py \in Int :
              (\E r \in Below(a, b, left, right) : Inside(px, py, r))
                <=> left <= px /\ px < right /\ Bottom(a) <= py /\ py < Bottom(b)
<1>1. /\ b.x \in Int /\ b.y \in Int /\ a.y \in Int
      /\ Bottom(a) \in Int /\ Bottom(b) \in Int
      /\ a.y < Bottom(b) /\ b.y < Bottom(a) /\ a.y < Bottom(a)
  BY OverlapMeans DEF Rectangles, Bottom
<1> DEFINE above == Rect(left, b.y, right - left, a.y - b.y)
           below == Rect(left, Bottom(a), right - left, Bottom(b) - Bottom(a))
<1>2. /\ Above(a, b, left, right) \subseteq Rectangles
      /\ \A px, py \in Int :
           (\E r \in Above(a, b, left, right) : Inside(px, py, r))
             <=> left <= px /\ px < right /\ b.y <= py /\ py < a.y
  <2>1. CASE b.y < a.y
    <3>1. Above(a, b, left, right) = {above}
      BY <2>1 DEF Above
    <3>2. above \in Rectangles
      BY <1>1, <2>1 DEF Rect, Rectangles
    <3>3. \A px, py \in Int :
            Inside(px, py, above)
              <=> left <= px /\ px < right /\ b.y <= py /\ py < a.y
      BY <1>1 DEF Rect, Inside, Right, Bottom
    <3> QED BY <3>1, <3>2, <3>3
  <2>2. CASE ~(b.y < a.y)
    <3>1. Above(a, b, left, right) = {}
      BY <2>2 DEF Above
    <3> QED BY <1>1, <2>2, <3>1
  <2> QED BY <2>1, <2>2
<1>3. /\ Below(a, b, left, right) \subseteq Rectangles
      /\ \A px, py \in Int :
           (\E r \in Below(a, b, left, right) : Inside(px, py, r))
             <=> left <= px /\ px < right /\ Bottom(a) <= py /\ py < Bottom(b)
  <2>1. CASE Bottom(b) > Bottom(a)
    <3>1. Below(a, b, left, right) = {below}
      BY <2>1 DEF Below
    <3>2. below \in Rectangles
      BY <1>1, <2>1 DEF Rect, Rectangles
    <3>3. \A px, py \in Int :
            Inside(px, py, below)
              <=> left <= px /\ px < right /\ Bottom(a) <= py /\ py < Bottom(b)
      BY <1>1 DEF Rect, Inside, Right, Bottom
    <3> QED BY <3>1, <3>2, <3>3
  <2>2. CASE ~(Bottom(b) > Bottom(a))
    <3>1. Below(a, b, left, right) = {}
      BY <2>2 DEF Below
    <3> QED BY <1>1, <2>2, <3>1
  <2> QED BY <2>1, <2>2
<1> QED BY <1>2, <1>3

\* SplitUpIntoNonOverlapping cuts exactly: the pieces of b are rectangles with
\* the pixels of b that are not a's, in each of the four ways to lie (also the
\* last, where it cuts only above or only below).
LEMMA SplitUpIsExact ==
  ASSUME NEW a \in Rectangles, NEW b \in Rectangles, IntersectsWith(a, b),
         ~IsCompletelyContained(a, b), ~IsCompletelyContained(b, a)
  PROVE  /\ SplitUp(a, b) \subseteq Rectangles
         /\ \A px, py \in Int :
              (\E r \in SplitUp(a, b) : Inside(px, py, r))
                <=> Inside(px, py, b) /\ ~Inside(px, py, a)
<1>1. /\ a.x \in Int /\ a.y \in Int /\ b.x \in Int /\ b.y \in Int
      /\ Right(a) \in Int /\ Right(b) \in Int
      /\ Bottom(a) \in Int /\ Bottom(b) \in Int
      /\ a.x < Right(a) /\ a.y < Bottom(a) /\ b.x < Right(b) /\ b.y < Bottom(b)
      /\ a.x < Right(b) /\ b.x < Right(a) /\ a.y < Bottom(b) /\ b.y < Bottom(a)
  BY OverlapMeans DEF Rectangles, Right, Bottom
<1>2. ~StartsInside(a, b) =>
        /\ LeftOf(a, b) \in Rectangles
        /\ \A px, py \in Int : Inside(px, py, LeftOf(a, b)) <=>
             b.x <= px /\ px < a.x /\ b.y <= py /\ py < Bottom(b)
  BY <1>1 DEF StartsInside, LeftOf, Rect, Rectangles, Inside, Right, Bottom
<1>3. ~EndsInside(a, b) =>
        /\ RightOf(a, b) \in Rectangles
        /\ \A px, py \in Int : Inside(px, py, RightOf(a, b)) <=>
             Right(a) <= px /\ px < Right(b) /\ b.y <= py /\ py < Bottom(b)
  BY <1>1 DEF EndsInside, RightOf, Rect, Rectangles, Inside, Right, Bottom
<1>4. CASE StartsInside(a, b) /\ EndsInside(a, b)
  <2>1. b.x <= Right(b)
    BY <1>1
  <2>2. SplitUp(a, b) = Above(a, b, b.x, Right(b)) \cup Below(a, b, b.x, Right(b))
    BY <1>4 DEF SplitUp
  <2> QED
    BY <1>1, <1>4, <2>1, <2>2, AboveAndBelow
      DEF StartsInside, EndsInside, Inside
<1>5. CASE ~StartsInside(a, b) /\ EndsInside(a, b)
  <2>1. a.x <= Right(b)
    BY <1>1
  <2>2. SplitUp(a, b) = {LeftOf(a, b)} \cup Above(a, b, a.x, Right(b))
                                       \cup Below(a, b, a.x, Right(b))
    BY <1>5 DEF SplitUp
  <2> QED
    BY <1>1, <1>2, <1>5, <2>1, <2>2, AboveAndBelow
      DEF StartsInside, EndsInside, Inside
<1>6. CASE StartsInside(a, b) /\ ~EndsInside(a, b)
  <2>1. b.x <= Right(a)
    BY <1>1
  <2>2. SplitUp(a, b) = {RightOf(a, b)} \cup Above(a, b, b.x, Right(a))
                                        \cup Below(a, b, b.x, Right(a))
    BY <1>6 DEF SplitUp
  <2> QED
    BY <1>1, <1>3, <1>6, <2>1, <2>2, AboveAndBelow
      DEF StartsInside, EndsInside, Inside
<1>7. CASE ~StartsInside(a, b) /\ ~EndsInside(a, b)
  <2>1. a.x <= Right(a)
    BY <1>1
  <2>2. SplitUp(a, b) = {LeftOf(a, b), RightOf(a, b)}
                          \cup (IF b.y < a.y THEN Above(a, b, a.x, Right(a))
                                ELSE Below(a, b, a.x, Right(a)))
    BY <1>7 DEF SplitUp
  <2>3. b.y < a.y => Bottom(b) <= Bottom(a)
    BY <1>1, <1>7 DEF StartsInside, EndsInside, IsCompletelyContained
  <2>4. CASE b.y < a.y
    BY <1>1, <1>2, <1>3, <1>7, <2>1, <2>2, <2>3, <2>4, AboveAndBelow
      DEF StartsInside, EndsInside, Inside
  <2>5. CASE ~(b.y < a.y)
    BY <1>1, <1>2, <1>3, <1>7, <2>1, <2>2, <2>5, AboveAndBelow
      DEF StartsInside, EndsInside, Inside
  <2> QED BY <2>4, <2>5
<1> QED BY <1>4, <1>5, <1>6, <1>7

\* The same in pixels: with a, the pieces cover what b did.
LEMMA SplitUpPixels ==
  ASSUME NEW a \in Rectangles, NEW b \in Rectangles, IntersectsWith(a, b),
         ~IsCompletelyContained(a, b), ~IsCompletelyContained(b, a)
  PROVE  PixelsOf(a) \cup UNION {PixelsOf(r) : r \in SplitUp(a, b)}
           = PixelsOf(a) \cup PixelsOf(b)
<1>1. \A r \in SplitUp(a, b) : r \in Rectangles
  BY SplitUpIsExact
<1>2. ASSUME NEW p \in Int \X Int
      PROVE  (p \in PixelsOf(a) \/ \E r \in SplitUp(a, b) : p \in PixelsOf(r))
               <=> p \in PixelsOf(a) \cup PixelsOf(b)
  BY <1>1, SplitUpIsExact, PixelsAreInside
<1>3. PixelsOf(a) \subseteq Int \X Int /\ PixelsOf(b) \subseteq Int \X Int
  BY PixelsAreInside
<1>4. \A r \in SplitUp(a, b) : PixelsOf(r) \subseteq Int \X Int
  BY <1>1, PixelsAreInside
<1> QED BY <1>2, <1>3, <1>4

-----------------------------------------------------------------------------
(* One turn of AddRectangle. *)

\* What a set of rectangles covers.
Covered(S) == UNION {PixelsOf(r) : r \in S}

LEMMA SameCovered ==
  ASSUME NEW S, NEW T,
         \A p : (\E q \in S : p \in PixelsOf(q)) <=> (\E q \in T : p \in PixelsOf(q))
  PROVE  Covered(S) = Covered(T)
BY DEF Covered

\* It keeps what is covered, by splitters that do not overlap.
LEMMA AddKeepsCoverage ==
  ASSUME splitters \subseteq Rectangles, pending \subseteq Rectangles,
         SplittersAreDisjoint, NEW r \in pending, AddRectangle(r)
  PROVE  /\ splitters' \subseteq Rectangles /\ pending' \subseteq Rectangles
         /\ SplittersAreDisjoint'
         /\ Covered(splitters' \cup pending') = Covered(splitters \cup pending)
<1>1. CASE AddDisjoint(r)
  <2>1. SplittersAreDisjoint'
    BY <1>1, OverlapMeans DEF SplittersAreDisjoint, AddDisjoint
  <2>2. splitters' \cup pending' = splitters \cup pending
    BY <1>1 DEF AddDisjoint
  <2> QED BY <1>1, <2>1, <2>2 DEF AddDisjoint
<1>2. CASE AddContained(r)
  <2>1. PICK s \in splitters : /\ IsCompletelyContained(s, r)
                               /\ pending' = pending \ {r}
                               /\ UNCHANGED splitters
    BY <1>2 DEF AddContained
  <2>2. PixelsOf(r) \subseteq PixelsOf(s)
    BY <2>1, ContainedPixels
  <2>3. ASSUME NEW p
        PROVE  (\E q \in splitters' \cup pending' : p \in PixelsOf(q))
                 <=> \E q \in splitters \cup pending : p \in PixelsOf(q)
    BY <2>1, <2>2
  <2>4. Covered(splitters' \cup pending') = Covered(splitters \cup pending)
    BY <2>3, SameCovered
  <2> QED BY <2>1, <2>4 DEF SplittersAreDisjoint
<1>3. CASE AddAround(r)
  <2>1. PICK s \in splitters : /\ IsCompletelyContained(r, s)
                               /\ splitters' = splitters \ {s}
                               /\ UNCHANGED pending
    BY <1>3 DEF AddAround
  <2>2. PixelsOf(s) \subseteq PixelsOf(r)
    BY <2>1, ContainedPixels
  <2>3. ASSUME NEW p
        PROVE  (\E q \in splitters' \cup pending' : p \in PixelsOf(q))
                 <=> \E q \in splitters \cup pending : p \in PixelsOf(q)
    BY <2>1, <2>2
  <2>4. Covered(splitters' \cup pending') = Covered(splitters \cup pending)
    BY <2>3, SameCovered
  <2> QED BY <2>1, <2>4 DEF SplittersAreDisjoint
<1>4. CASE AddSplit(r)
  <2>1. PICK s \in splitters :
          /\ IntersectsWith(s, r)
          /\ ~IsCompletelyContained(s, r) /\ ~IsCompletelyContained(r, s)
          /\ pending' = (pending \ {r}) \cup SplitUp(s, r)
          /\ UNCHANGED splitters
    BY <1>4 DEF AddSplit
  <2>2. SplitUp(s, r) \subseteq Rectangles
    BY <2>1, SplitUpIsExact
  <2>3. PixelsOf(s) \cup UNION {PixelsOf(q) : q \in SplitUp(s, r)}
          = PixelsOf(s) \cup PixelsOf(r)
    BY <2>1, SplitUpPixels
  <2>4. ASSUME NEW p
        PROVE  (\E q \in splitters' \cup pending' : p \in PixelsOf(q))
                 <=> \E q \in splitters \cup pending : p \in PixelsOf(q)
    <3>1. (p \in PixelsOf(s) \/ \E q \in SplitUp(s, r) : p \in PixelsOf(q))
            <=> p \in PixelsOf(s) \/ p \in PixelsOf(r)
      BY <2>3
    <3> QED BY <2>1, <3>1
  <2>5. Covered(splitters' \cup pending') = Covered(splitters \cup pending)
    BY <2>4, SameCovered
  <2> QED BY <2>1, <2>2, <2>5 DEF SplittersAreDisjoint
<1> QED BY <1>1, <1>2, <1>3, <1>4 DEF AddRectangle

-----------------------------------------------------------------------------
(* The invariant: the tiles that a call goes through are in the directory,  *)
(* and rectangles are kept and pending only as long as they are looked at.  *)

CallTyped ==
  /\ splitters \subseteq Rectangles
  /\ pending \subseteq Rectangles
  /\ pc \in {"idle", "look", "add", "paint"}
  /\ pc # "add" => pending = {}
  /\ pc \notin {"look", "add"} => splitters = {}
  /\ pc # "idle" => groups \in Seq(SUBSET DOMAIN subBlks)
  /\ pc \in {"look", "add"} =>
       order \in Seq(DOMAIN subBlks) /\ remaining \in 1 .. Len(order)

IInv ==
  /\ DirectoryInv
  /\ CallTyped
  /\ SplittersAreDisjoint
  /\ CoverageIsOfTheTiles

LEMMA BoxesAreRectangles ==
  ASSUME DirectoryInv, NEW key \in DOMAIN subBlks
  PROVE  BoxOf(key) \in Rectangles
<1>1. subBlks[key].x \in Spans /\ subBlks[key].y \in Spans
  BY DirectoryAssumption DEF DirectoryInv, DirectoryTypeOK
<1> QED BY <1>1 DEF BoxOf, Rect, Rectangles, Spans

LEMMA InitInv == Init => IInv
<1> SUFFICES ASSUME Init PROVE IInv
  OBVIOUS
<1>1. DirectoryInv
  BY DirectoryInitInv DEF Init
<1> QED
  BY <1>1 DEF Init, CoverageInit, IInv, CallTyped, SplittersAreDisjoint,
    CoverageIsOfTheTiles

\* A call begins with groups of tiles, and with nothing covered.
LEMMA BeginKeepsInv ==
  ASSUME IInv, NEW r \in Requests, NEW gs \in Seq(SUBSET DOMAIN subBlks),
         Begin(r, gs)
  PROVE  IInv'
<1> USE DEF IInv, Begin
<1>1. DirectoryInv'
  BY DirectoryStepInv
<1>2. /\ pending = {} /\ splitters = {} /\ pending' = {} /\ splitters' = {}
      /\ pc' = "paint" /\ UNCHANGED subBlks
  BY DEF CallTyped, coverageVars, directoryVars
<1>3. CallTyped'
  BY <1>2 DEF CallTyped
<1>4. SplittersAreDisjoint' /\ CoverageIsOfTheTiles'
  BY <1>2 DEF SplittersAreDisjoint, CoverageIsOfTheTiles
<1> QED BY <1>1, <1>3, <1>4

\* The keys are finitely many, and so are the scenes that the statistics know.
LEMMA KeysAndScenesAreFinite ==
  ASSUME DirectoryInv
  PROVE  /\ IsFiniteSet(DOMAIN subBlks)
         /\ sbBlkStatisticsCurrent =>
              IsFiniteSet(DOMAIN statistics.sceneBoundingBoxes)
<1> USE DEF DirectoryInv
<1>1. IsFiniteSet(DOMAIN subBlks)
  <2>1. nextSbBlkIndex - 1 \in Int /\ 0 \in Int
    BY DirectoryAssumption DEF DirectoryTypeOK
  <2> QED BY <2>1, FS_Interval, FS_Subset DEF DirectoryTypeOK
<1>2. ASSUME sbBlkStatisticsCurrent
      PROVE  IsFiniteSet(DOMAIN statistics.sceneBoundingBoxes)
  <2> DEFINE E == {subBlks[key] : key \in DOMAIN subBlks}
             scenes == DOMAIN statistics.sceneBoundingBoxes
             SceneOfKey(key) == subBlks[key].coordinate["S"]
  <2>1. AreStatisticsOf(statistics, E)
    BY <1>2, InvImpliesProperties DEF StatisticsAreOfTheEntries
  <2>2. scenes \subseteq {SceneOfKey(key) : key \in DOMAIN subBlks}
    BY <2>1 DEF AreStatisticsOf, WithDimension
  <2>3. IsFiniteSet({SceneOfKey(key) : key \in DOMAIN subBlks})
    <3> DEFINE T == {SceneOfKey(key) : key \in DOMAIN subBlks}
               f == [key \in DOMAIN subBlks |-> SceneOfKey(key)]
    <3>1. f \in [DOMAIN subBlks -> T] /\ \A t \in T : \E key \in DOMAIN subBlks : f[key] = t
      OBVIOUS
    <3>2. f \in Surjection(DOMAIN subBlks, T)
      BY <3>1, Zenon DEF Surjection
    <3> QED BY <1>1, <3>2, FS_Surjection
  <2> QED BY <2>2, <2>3, FS_Subset
<1> QED BY <1>1, <1>2

\* The tiles a call may go through: where visibility is checked, each has a
\* pixel.
TilesOf(r) ==
  {key \in DOMAIN subBlks : r.check => BoxOf(key).w > 0 /\ BoxOf(key).h > 0}

LEMMA SubsetHasTiles ==
  ASSUME DirectoryInv, NEW r \in Requests, NEW plane, NEW without
  PROVE  /\ Subset(plane, r.roi, without) \subseteq TilesOf(r)
         /\ \A region : r.accessor = "level" =>
                          Subset(plane, region, without) \subseteq TilesOf(r)
<1>1. ASSUME NEW key \in Subset(plane, r.roi, without) PROVE key \in TilesOf(r)
  <2>1. key \in DOMAIN subBlks /\ IntersectsWith(r.roi, BoxOf(key))
    BY DEF Subset
  <2>2. r.roi \in Rectangles
    BY AccessorAssumption
  <2>3. BoxOf(key) \in Rectangles
    BY <2>1, BoxesAreRectangles
  <2>4. BoxOf(key).w > 0 /\ BoxOf(key).h > 0
    BY <2>1, <2>2, <2>3, OverlapMeans
  <2> QED BY <2>1, <2>4 DEF TilesOf
<1>2. r.accessor = "level" => ~r.check
  BY AccessorAssumption
<1>3. ASSUME NEW region, r.accessor = "level"
      PROVE  Subset(plane, region, without) \subseteq TilesOf(r)
  BY <1>2, <1>3 DEF Subset, TilesOf
<1> QED BY <1>1, <1>3

\* Each accessor begins with groups of such tiles.
LEMMA GetBegins ==
  ASSUME DirectoryInv, NEW r \in Requests,
         GetTiles(r) \/ GetLevel(r) \/ GetScaled(r)
  PROVE  \E gs \in Seq(SUBSET TilesOf(r)) : Begin(r, gs)
<1>1. \A keys, zoom : LayerAbove(keys, zoom) \subseteq keys
  BY DEF LayerAbove
<1>2. \A keys \in SUBSET TilesOf(r) : <<keys>> \in Seq(SUBSET TilesOf(r))
  OBVIOUS
<1>3. CASE GetTiles(r)
  <2>1. PICK keys \in SUBSET TilesOf(r) : Begin(r, <<keys>>)
    BY <1>3, SubsetHasTiles DEF GetTiles
  <2> QED BY <1>2, <2>1
<1>4. CASE GetLevel(r)
  <2> DEFINE keys == Subset(r.plane, NormalizePyramidRect(r), r.without)
             ofLayer == {key \in keys : CalcPyramidLayerNo(key, r.factor) = r.layer}
  <2>1. Begin(r, <<ofLayer>>)
    BY <1>4 DEF GetLevel
  <2>2. keys \subseteq TilesOf(r)
    BY <1>4, SubsetHasTiles DEF GetLevel
  <2>3. ofLayer \in SUBSET TilesOf(r)
    BY <2>2
  <2> QED BY <1>2, <2>1, <2>3
<1>5. CASE GetScaled(r)
  <2> DEFINE scenes == DetermineInvolvedScenes(r)
             keys == Subset(r.plane, r.roi, {})
             OfScene(s) == {key \in keys : HasScene(key)
                                           /\ SceneOf(subBlks[key]) = s}
             allowed == {key \in keys : HasScene(key)
                                          => SceneOf(subBlks[key]) \in scenes}
  <2>1. keys \subseteq TilesOf(r)
    BY SubsetHasTiles
  <2>2. CASE Begin(r, <<LayerAbove(allowed, r.zoom)>>)
    <3>1. LayerAbove(allowed, r.zoom) \in SUBSET TilesOf(r)
      BY <1>1, <2>1
    <3> QED BY <1>2, <2>2, <3>1
  <2>3. CASE \E s \in Ascending(scenes) :
               Begin(r, [i \in DOMAIN s |-> LayerAbove(OfScene(s[i]), r.zoom)])
    <3>1. PICK s \in Ascending(scenes) :
               Begin(r, [i \in DOMAIN s |-> LayerAbove(OfScene(s[i]), r.zoom)])
      BY <2>3
    <3> DEFINE gs == [i \in DOMAIN s |-> LayerAbove(OfScene(s[i]), r.zoom)]
               n == Cardinality(scenes)
    <3>2. n \in Nat
      <4>1. sbBlkStatisticsCurrent
        BY <3>1 DEF Begin
      <4>2. scenes \subseteq DOMAIN statistics.sceneBoundingBoxes
        BY DEF DetermineInvolvedScenes
      <4> QED
        BY <4>1, <4>2, KeysAndScenesAreFinite, FS_Subset, FS_CardinalityType
    <3>3. DOMAIN s = 1 .. n
      BY DEF Ascending
    <3>4. \A i \in DOMAIN s : gs[i] \in SUBSET TilesOf(r)
      BY <1>1, <2>1
    <3>5. gs = [i \in 1 .. n |-> gs[i]]
      BY <3>3
    <3> HIDE DEF gs, n
    <3>6. gs \in [1 .. n -> SUBSET TilesOf(r)]
      BY <3>3, <3>4, <3>5, Zenon
    <3>7. gs \in Seq(SUBSET TilesOf(r))
      BY <3>2, <3>6
    <3> QED BY <3>1, <3>7 DEF gs
  <2> QED BY <1>5, <2>2, <2>3 DEF GetScaled
<1> QED BY <1>3, <1>4, <1>5

LEMMA GetKeepsInv ==
  ASSUME IInv, NEW r \in Requests, GetTiles(r) \/ GetLevel(r) \/ GetScaled(r)
  PROVE  IInv'
<1> DEFINE T == TilesOf(r)
           D == DOMAIN subBlks
<1>1. PICK gs \in Seq(SUBSET T) : Begin(r, gs)
  BY GetBegins DEF IInv
<1>2. T \subseteq D
  BY DEF TilesOf
<1> HIDE DEF T, D
<1>3. gs \in Seq(SUBSET D)
  BY <1>2
<1> QED BY <1>1, <1>3, BeginKeepsInv DEF D

\* A group is sorted, with nothing covered.
LEMMA NextGroupKeepsInv ==
  ASSUME IInv, NextGroup
  PROVE  IInv'
<1> USE DEF IInv
<1>1. DirectoryInv'
  BY DirectoryStepInv DEF NextGroup
<1>2. /\ pending = {} /\ splitters = {} /\ pending' = {} /\ splitters' = {}
      /\ pc = "paint" /\ UNCHANGED subBlks
  BY DEF NextGroup, CallTyped, coverageVars, directoryVars
<1>3. PICK s \in Sortings(Head(groups), request) :
        /\ order' = s
        /\ IF request.check /\ s # <<>>
           THEN pc' = "look" /\ remaining' = Len(s) /\ UNCHANGED visible
           ELSE visible' = s /\ UNCHANGED <<pc, remaining>>
  BY DEF NextGroup
<1>4. /\ groups \in Seq(SUBSET DOMAIN subBlks) /\ groups # <<>>
      /\ groups' = Tail(groups)
  BY <1>2 DEF CallTyped, NextGroup
<1>5. s \in Seq(DOMAIN subBlks)
  <2> DEFINE keys == Head(groups)
  <2>1. keys \subseteq DOMAIN subBlks
    BY <1>4
  <2>2. Cardinality(keys) \in Nat
    BY <2>1, KeysAndScenesAreFinite, FS_Subset, FS_CardinalityType
  <2>3. s \in [1 .. Cardinality(keys) -> keys]
    BY DEF Sortings
  <2> HIDE DEF keys
  <2> QED BY <2>1, <2>2, <2>3
<1>6. groups' \in Seq(SUBSET DOMAIN subBlks)
  BY <1>4
<1>7. pc' \in {"look", "paint"} /\ (pc' = "look" => remaining' \in 1 .. Len(order'))
  BY <1>2, <1>3, <1>5
<1>8. CallTyped'
  BY <1>2, <1>3, <1>5, <1>6, <1>7 DEF CallTyped
<1>9. SplittersAreDisjoint'
  BY <1>2 DEF SplittersAreDisjoint
<1>10. CoverageIsOfTheTiles'
  <2>1. CASE pc' = "look"
    <3>1. remaining' = Len(order') /\ Len(order') \in Nat
      BY <1>2, <1>3, <1>5, <2>1
    <3>2. LookedAt' = {}
      BY <3>1 DEF LookedAt
    <3> QED BY <1>2, <2>1, <3>2 DEF CoverageIsOfTheTiles
  <2>2. CASE pc' = "paint"
    BY <2>2 DEF CoverageIsOfTheTiles
  <2> QED BY <1>7, <2>1, <2>2
<1> QED BY <1>1, <1>8, <1>9, <1>10

\* The next tile is pending, ...
LEMMA LookKeepsInv ==
  ASSUME IInv, Look
  PROVE  IInv'
<1> USE DEF IInv, Look
<1>1. DirectoryInv'
  BY DirectoryStepInv
<1> DEFINE box == BoxOf(order[remaining])
<1>2. order[remaining] \in DOMAIN subBlks
  BY DEF CallTyped
<1>3. box \in Rectangles
  BY <1>2, BoxesAreRectangles
<1>4. UNCHANGED <<subBlks, splitters, groups, order, remaining>> /\ pending' = {box}
  BY DEF directoryVars
<1>5. CallTyped'
  BY <1>3, <1>4 DEF CallTyped
<1>6. SplittersAreDisjoint'
  BY <1>4 DEF SplittersAreDisjoint
<1>7. CoverageIsOfTheTiles'
  <2>1. pending = {}
    BY DEF CallTyped
  <2>2. UNION {PixelsOf(r) : r \in splitters}
          = UNION {PixelsOf(BoxOf(key)) : key \in LookedAt}
    BY <2>1 DEF CoverageIsOfTheTiles
  <2>3. LookedAt' = LookedAt
    BY <1>4 DEF LookedAt
  <2>4. /\ \A key : BoxOf(key)' = BoxOf(key)
        /\ order'[remaining'] = order[remaining]
    BY <1>4 DEF BoxOf
  <2>5. UNION {PixelsOf(r) : r \in splitters \cup {box}}
          = UNION {PixelsOf(BoxOf(key)) : key \in LookedAt \cup {order[remaining]}}
    <3>1. \A p : p \in UNION {PixelsOf(r) : r \in splitters \cup {box}}
            <=> p \in UNION {PixelsOf(r) : r \in splitters} \/ p \in PixelsOf(box)
      OBVIOUS
    <3>2. \A p : p \in UNION {PixelsOf(BoxOf(key)) :
                               key \in LookedAt \cup {order[remaining]}}
            <=> \/ p \in UNION {PixelsOf(BoxOf(key)) : key \in LookedAt}
                \/ p \in PixelsOf(box)
      OBVIOUS
    <3> QED BY <2>2, <3>1, <3>2
  <2> QED BY <1>4, <2>3, <2>4, <2>5 DEF CoverageIsOfTheTiles
<1> QED BY <1>1, <1>5, <1>6, <1>7

\* ... is added, which keeps what is covered, ...
LEMMA AddStepKeepsInv ==
  ASSUME IInv, Add
  PROVE  IInv'
<1> USE DEF IInv, Add
<1>1. DirectoryInv'
  BY DirectoryStepInv
<1>2. PICK r \in pending : AddRectangle(r)
  OBVIOUS
<1>3. /\ splitters' \subseteq Rectangles /\ pending' \subseteq Rectangles
      /\ SplittersAreDisjoint'
      /\ Covered(splitters' \cup pending') = Covered(splitters \cup pending)
  BY <1>2, AddKeepsCoverage DEF CallTyped
<1>4. UNCHANGED <<subBlks, pc, groups, order, remaining>>
  BY DEF directoryVars, callVars
<1>5. CallTyped'
  BY <1>3, <1>4 DEF CallTyped
<1>6. CoverageIsOfTheTiles'
  <2>1. /\ LookedAt' = LookedAt /\ \A key : BoxOf(key)' = BoxOf(key)
        /\ order'[remaining'] = order[remaining]
    BY <1>4 DEF LookedAt, BoxOf
  <2>2. Covered(splitters \cup pending)
          = UNION {PixelsOf(BoxOf(key)) : key \in LookedAt \cup {order[remaining]}}
    BY DEF CoverageIsOfTheTiles, Covered
  <2> QED BY <1>3, <1>4, <2>1, <2>2 DEF CoverageIsOfTheTiles, Covered
<1> QED BY <1>1, <1>3, <1>5, <1>6

\* ... and has been looked at.
LEMMA JudgeKeepsInv ==
  ASSUME IInv, Judge
  PROVE  IInv'
<1> USE DEF IInv
<1>1. /\ pc = "add" /\ pending = {} /\ pending' = {}
      /\ UNCHANGED <<directoryVars, subBlks, groups, order>>
      /\ \/ pc' = "paint" /\ splitters' = {}
         \/ /\ pc' = "look" /\ splitters' = splitters
            /\ remaining' = remaining - 1 /\ remaining # 1
  BY DEF Judge, directoryVars
<1>2. DirectoryInv'
  BY <1>1, DirectoryStepInv
<1>3. order \in Seq(DOMAIN subBlks) /\ remaining \in 1 .. Len(order)
  BY <1>1 DEF CallTyped
<1>4. CASE pc' = "paint" /\ splitters' = {}
  BY <1>1, <1>2, <1>4
    DEF CallTyped, SplittersAreDisjoint, CoverageIsOfTheTiles
<1>5. CASE /\ pc' = "look" /\ splitters' = splitters
           /\ remaining' = remaining - 1 /\ remaining # 1
  <2>1. CallTyped'
    BY <1>1, <1>3, <1>5 DEF CallTyped
  <2>2. SplittersAreDisjoint'
    BY <1>5 DEF SplittersAreDisjoint
  <2>3. LookedAt' = LookedAt \cup {order[remaining]}
    <3>1. (remaining - 1) + 1 .. Len(order)
            = (remaining + 1 .. Len(order)) \cup {remaining}
      BY <1>3
    <3>2. LookedAt' = {order[i] : i \in (remaining - 1) + 1 .. Len(order)}
      BY <1>1, <1>5 DEF LookedAt
    <3> QED BY <3>1, <3>2 DEF LookedAt
  <2>4. \A key : BoxOf(key)' = BoxOf(key)
    BY <1>1 DEF BoxOf
  <2>5. UNION {PixelsOf(r) : r \in splitters \cup pending}
          = UNION {PixelsOf(BoxOf(key)) : key \in LookedAt \cup {order[remaining]}}
    BY <1>1 DEF CoverageIsOfTheTiles
  <2>6. CoverageIsOfTheTiles'
    BY <1>1, <1>5, <2>3, <2>4, <2>5 DEF CoverageIsOfTheTiles
  <2> QED BY <1>2, <2>1, <2>2, <2>6
<1> QED BY <1>1, <1>4, <1>5

\* Painting and returning leave the directory, and nothing is covered.
LEMMA PaintKeepsInv ==
  ASSUME IInv, Paint \/ PaintFails \/ GetReturns
  PROVE  IInv'
<1> USE DEF IInv, Paint, PaintFails, GetReturns, Return
<1>1. /\ UNCHANGED <<directoryVars, splitters, pending>>
      /\ pc = "paint" /\ pc' \in {"paint", "idle"}
      /\ UNCHANGED subBlks /\ (pc' = "paint" => UNCHANGED groups)
  BY DEF coverageVars, directoryVars
<1>2. DirectoryInv'
  BY <1>1, DirectoryStepInv
<1>3. CallTyped'
  BY <1>1 DEF CallTyped
<1>4. SplittersAreDisjoint' /\ CoverageIsOfTheTiles'
  BY <1>1 DEF SplittersAreDisjoint, CoverageIsOfTheTiles
<1> QED BY <1>2, <1>3, <1>4

\* Between calls, the directory may change; otherwise nothing does.
LEMMA EditKeepsInv ==
  ASSUME IInv,
         \/ pc = "idle" /\ DirectoryNext /\ UNCHANGED <<coverageVars, callVars>>
         \/ UNCHANGED vars
  PROVE  IInv'
<1> USE DEF IInv, vars, coverageVars, callVars
<1>1. DirectoryInv'
  BY DirectoryStepInv
<1>2. UNCHANGED <<splitters, pending, pc, groups, order, remaining>>
      /\ (pc = "idle" \/ UNCHANGED subBlks)
  BY DEF directoryVars
<1>3. CallTyped' /\ SplittersAreDisjoint'
  BY <1>2 DEF CallTyped, SplittersAreDisjoint
<1>4. CoverageIsOfTheTiles'
  <2>1. CASE pc = "idle"
    BY <1>2, <2>1 DEF CoverageIsOfTheTiles
  <2>2. CASE UNCHANGED subBlks
    <3>1. LookedAt' = LookedAt /\ \A key : BoxOf(key)' = BoxOf(key)
      BY <1>2, <2>2 DEF LookedAt, BoxOf
    <3> QED BY <1>2, <3>1 DEF CoverageIsOfTheTiles
  <2> QED BY <1>2, <2>1, <2>2
<1> QED BY <1>1, <1>3, <1>4

LEMMA StepInv == IInv /\ [Next]_vars => IInv'
<1> SUFFICES ASSUME IInv, [Next]_vars PROVE IInv'
  OBVIOUS
<1>1. CASE \E r \in Requests : GetTiles(r) \/ GetLevel(r) \/ GetScaled(r)
  BY <1>1, GetKeepsInv
<1>2. CASE GetStep
  BY <1>2, NextGroupKeepsInv, LookKeepsInv, AddStepKeepsInv, JudgeKeepsInv, PaintKeepsInv
    DEF GetStep
<1>3. CASE \/ pc = "idle" /\ DirectoryNext /\ UNCHANGED <<coverageVars, callVars>>
           \/ UNCHANGED vars
  BY <1>3, EditKeepsInv
<1> QED BY <1>1, <1>2, <1>3 DEF Next

LEMMA Invariance == Spec => []IInv
BY InitInv, StepInv, PTL DEF Spec

-----------------------------------------------------------------------------
(* Sums.  MapThenSumSet is a recursive function over the subsets of a set;   *)
(* what it computes is shown by looking at a least subset where it would not.*)

\* G sums weights as MapThenSumSet does.
IsSum(g, weight, S) ==
  g = [s \in SUBSET S |->
         IF s = {} THEN 0
         ELSE weight[CHOOSE x \in s : TRUE] + g[s \ {CHOOSE x \in s : TRUE}]]

Members(P, T) == UNION {P[x] : x \in T}

\* Each element stands for as many members of a set as it weighs, and no two
\* elements for the same ones.
Measures(P, weight, S) ==
  /\ \A x \in S : IsFiniteSet(P[x]) /\ Cardinality(P[x]) = weight[x]
  /\ \A x, y \in S : x # y => P[x] \cap P[y] = {}

\* Among subsets of a finite set, there is one that contains no other.
LEMMA LeastSubset ==
  ASSUME NEW S, IsFiniteSet(S), NEW B, B \subseteq SUBSET S, B # {}
  PROVE  \E T \in B : \A U \in B : U \subseteq T => U = T
<1>1. IsWellFoundedOn(StrictSubsetOrdering(S), SUBSET S)
  BY FS_StrictSubsetOrderingWellFounded, FS_FiniteSubsetsOfFinite
<1>2. PICK T \in B : \A U \in B : <<U, T>> \notin StrictSubsetOrdering(S)
  BY <1>1, WFMin
<1> QED BY <1>2 DEF StrictSubsetOrdering

\* One more element adds its weight.
LEMMA OneMoreMeasured ==
  ASSUME NEW S, NEW P, NEW weight, Measures(P, weight, S), NEW T \in SUBSET S,
         NEW x \in T, IsFiniteSet(Members(P, T \ {x}))
  PROVE  /\ IsFiniteSet(Members(P, T))
         /\ Cardinality(Members(P, T))
              = weight[x] + Cardinality(Members(P, T \ {x}))
<1>1. Members(P, T) = Members(P, T \ {x}) \cup P[x]
  BY DEF Members
<1>2. Members(P, T \ {x}) \cap P[x] = {}
  BY DEF Measures, Members
<1>3. IsFiniteSet(P[x]) /\ Cardinality(P[x]) = weight[x]
  BY DEF Measures
<1> DEFINE U == Members(P, T \ {x})
<1> HIDE DEF U
<1>4. /\ IsFiniteSet(U \cup P[x])
      /\ Cardinality(U \cup P[x])
           = Cardinality(U) + Cardinality(P[x]) - Cardinality(U \cap P[x])
  BY <1>3, FS_Union DEF U
<1>5. Cardinality(U) \in Nat /\ Cardinality(P[x]) \in Nat
  BY <1>3, FS_CardinalityType DEF U
<1>6. Cardinality(U \cap P[x]) = 0
  BY <1>2, FS_EmptySet DEF U
<1>7. Cardinality(U \cup P[x]) = weight[x] + Cardinality(U)
  BY <1>3, <1>4, <1>5, <1>6
<1> QED BY <1>1, <1>4, <1>7 DEF U

LEMMA MeasuredIsFinite ==
  ASSUME NEW S, IsFiniteSet(S), NEW P, NEW weight, Measures(P, weight, S)
  PROVE  \A T \in SUBSET S : IsFiniteSet(Members(P, T))
<1> DEFINE B == {T \in SUBSET S : ~IsFiniteSet(Members(P, T))}
<1> SUFFICES ASSUME B # {} PROVE FALSE
  OBVIOUS
<1>1. B \subseteq SUBSET S /\ \A T \in B : ~IsFiniteSet(Members(P, T))
  OBVIOUS
<1>2. \A T \in SUBSET S : T \notin B => IsFiniteSet(Members(P, T))
  OBVIOUS
<1> HIDE DEF B
<1>3. PICK T \in B : \A U \in B : U \subseteq T => U = T
  BY <1>1, LeastSubset
<1>4. T # {}
  BY <1>1, FS_EmptySet DEF Members
<1>5. PICK x \in T : TRUE
  BY <1>4
<1>6. IsFiniteSet(Members(P, T \ {x}))
  BY <1>1, <1>2, <1>3
<1>7. T \in SUBSET S
  BY <1>1
<1>8. IsFiniteSet(Members(P, T))
  BY <1>6, <1>7, OneMoreMeasured
<1> QED BY <1>1, <1>8

\* There is such a sum, and it counts the members.
LEMMA SumCounts ==
  ASSUME NEW S, IsFiniteSet(S), NEW P, NEW weight, Measures(P, weight, S)
  PROVE  /\ \E g : IsSum(g, weight, S)
         /\ \A g : IsSum(g, weight, S) => g[S] = Cardinality(Members(P, S))
<1> DEFINE Count(s) == Cardinality(Members(P, s))
           pick(s) == CHOOSE x \in s : TRUE
<1>1. ASSUME NEW T \in SUBSET S, T # {}
      PROVE  /\ pick(T) \in T
             /\ Count(T) = weight[pick(T)] + Count(T \ {pick(T)})
  <2>1. PICK x \in T : x = pick(T)
    BY <1>1
  <2>2. IsFiniteSet(Members(P, T \ {x}))
    BY MeasuredIsFinite
  <2>3. Count(T) = weight[x] + Count(T \ {x})
    BY <2>2, OneMoreMeasured
  <2> QED BY <2>1, <2>3
<1>2. Count({}) = 0
  BY FS_EmptySet DEF Members
<1> HIDE DEF Count
<1>3. \E g : IsSum(g, weight, S)
  <2> DEFINE c == [s \in SUBSET S |-> Count(s)]
  <2>1. \A s \in SUBSET S :
          c[s] = IF s = {} THEN 0 ELSE weight[pick(s)] + c[s \ {pick(s)}]
    BY <1>1, <1>2
  <2> HIDE DEF pick
  <2>2. c = [s \in SUBSET S |->
               IF s = {} THEN 0 ELSE weight[pick(s)] + c[s \ {pick(s)}]]
    BY <2>1
  <2> QED BY <2>2 DEF IsSum, pick
<1>4. ASSUME NEW g, IsSum(g, weight, S) PROVE g[S] = Count(S)
  <2> DEFINE B == {T \in SUBSET S : g[T] # Count(T)}
  <2>1. \A s \in SUBSET S :
          g[s] = IF s = {} THEN 0 ELSE weight[pick(s)] + g[s \ {pick(s)}]
    BY <1>4, Zenon DEF IsSum
  <2>2. SUFFICES ASSUME B # {} PROVE FALSE
    OBVIOUS
  <2>3. /\ B \subseteq SUBSET S /\ \A T \in B : g[T] # Count(T)
        /\ \A T \in SUBSET S : T \notin B => g[T] = Count(T)
    OBVIOUS
  <2> HIDE DEF B
  <2>4. PICK T \in B : \A U \in B : U \subseteq T => U = T
    BY <2>2, <2>3, LeastSubset
  <2>5. T # {} /\ T \in SUBSET S
    BY <1>2, <2>1, <2>3
  <2>6. pick(T) \in T /\ Count(T) = weight[pick(T)] + Count(T \ {pick(T)})
    BY <1>1, <2>5
  <2> HIDE DEF pick
  <2>7. g[T \ {pick(T)}] = Count(T \ {pick(T)})
    BY <2>3, <2>4, <2>5, <2>6
  <2> QED BY <2>1, <2>3, <2>5, <2>6, <2>7
<1> QED BY <1>3, <1>4 DEF Count

-----------------------------------------------------------------------------
(* Areas. *)

LEMMA PixelsAreCounted ==
  ASSUME NEW r \in Rectangles
  PROVE  IsFiniteSet(PixelsOf(r)) /\ Cardinality(PixelsOf(r)) = r.w * r.h
<1>1. /\ r.x \in Int /\ r.y \in Int /\ r.w \in Nat /\ r.h \in Nat
      /\ Right(r) = r.x + r.w /\ Bottom(r) = r.y + r.h
  BY DEF Rectangles, Right, Bottom
<1> DEFINE columns == r.x .. Right(r) - 1
           rows == r.y .. Bottom(r) - 1
<1>2. IsFiniteSet(columns) /\ Cardinality(columns) = r.w
  <2>1. r.x \in Int /\ Right(r) - 1 \in Int
    BY <1>1
  <2>2. /\ IsFiniteSet(columns)
        /\ Cardinality(columns)
             = IF r.x > Right(r) - 1 THEN 0 ELSE (Right(r) - 1) - r.x + 1
    BY <2>1, FS_Interval
  <2> HIDE DEF columns
  <2> QED BY <1>1, <2>2
<1>3. IsFiniteSet(rows) /\ Cardinality(rows) = r.h
  <2>1. r.y \in Int /\ Bottom(r) - 1 \in Int
    BY <1>1
  <2>2. /\ IsFiniteSet(rows)
        /\ Cardinality(rows)
             = IF r.y > Bottom(r) - 1 THEN 0 ELSE (Bottom(r) - 1) - r.y + 1
    BY <2>1, FS_Interval
  <2> HIDE DEF rows
  <2> QED BY <1>1, <2>2
<1>4. PixelsOf(r) = columns \X rows
  BY DEF PixelsOf
<1> HIDE DEF columns, rows
<1> QED BY <1>2, <1>3, <1>4, FS_Product

LEMMA IntersectionIsExact ==
  ASSUME NEW a \in Rectangles, NEW b \in Rectangles
  PROVE  /\ Intersect(a, b) \in Rectangles
         /\ PixelsOf(Intersect(a, b)) = PixelsOf(a) \cap PixelsOf(b)
<1>1. Intersect(a, b) \in Rectangles
  BY DEF Intersect, Larger, Smaller, Rect, Rectangles, Right, Bottom
<1>2. \A px, py \in Int :
        Inside(px, py, Intersect(a, b)) <=> Inside(px, py, a) /\ Inside(px, py, b)
  BY DEF Inside, Intersect, Larger, Smaller, Rect, Rectangles, Right, Bottom
<1>3. ASSUME NEW px \in Int, NEW py \in Int
      PROVE  <<px, py>> \in PixelsOf(Intersect(a, b))
               <=> <<px, py>> \in PixelsOf(a) \cap PixelsOf(b)
  <2>1. <<px, py>> \in PixelsOf(Intersect(a, b))
          <=> Inside(px, py, Intersect(a, b))
    BY <1>1, PixelsAreInside, Zenon
  <2>2. /\ <<px, py>> \in PixelsOf(a) <=> Inside(px, py, a)
        /\ <<px, py>> \in PixelsOf(b) <=> Inside(px, py, b)
    BY PixelsAreInside, Zenon
  <2> QED BY <1>2, <2>1, <2>2, Zenon
<1>4. /\ PixelsOf(a) \subseteq Int \X Int
      /\ PixelsOf(Intersect(a, b)) \subseteq Int \X Int
  BY <1>1, PixelsAreInside
<1> QED BY <1>1, <1>3, <1>4

LEMMA DisjointPixels ==
  ASSUME NEW a \in Rectangles, NEW b \in Rectangles, ~IntersectsWith(a, b)
  PROVE  PixelsOf(a) \cap PixelsOf(b) = {}
<1>1. \A px, py \in Int : ~(Inside(px, py, a) /\ Inside(px, py, b))
  BY OverlapMeans DEF Inside, Rectangles, Right, Bottom
<1> QED BY <1>1, PixelsAreInside

\* The area is the number of pixels of the query that the splitters cover.
LEMMA AreaCountsPixels ==
  ASSUME splitters \subseteq Rectangles, IsFiniteSet(splitters),
         SplittersAreDisjoint, NEW query \in Rectangles
  PROVE  CalcAreaOfIntersectionWithRectangle(query)
           = Cardinality(PixelsOf(query) \cap Covered(splitters))
<1> DEFINE S == splitters
           area(s) == Intersect(s, query).w * Intersect(s, query).h
           weight == [s \in S |-> area(s)]
           P == [s \in S |-> PixelsOf(s) \cap PixelsOf(query)]
           pick(s) == CHOOSE x \in s : TRUE
           Body(g) == [s \in SUBSET S |->
                         IF s = {} THEN 0
                         ELSE area(pick(s)) + g[s \ {pick(s)}]]
           G == CHOOSE g : g = Body(g)
<1>1. CalcAreaOfIntersectionWithRectangle(query) = G[S]
  BY DEF CalcAreaOfIntersectionWithRectangle, MapThenSumSet, MapThenFoldSet
<1>2. Measures(P, weight, S)
  <2>1. ASSUME NEW s \in S
        PROVE  IsFiniteSet(P[s]) /\ Cardinality(P[s]) = weight[s]
    <3>1. /\ Intersect(s, query) \in Rectangles
          /\ PixelsOf(Intersect(s, query)) = PixelsOf(s) \cap PixelsOf(query)
      BY IntersectionIsExact
    <3>2. /\ IsFiniteSet(PixelsOf(Intersect(s, query)))
          /\ Cardinality(PixelsOf(Intersect(s, query))) = area(s)
      BY <3>1, PixelsAreCounted
    <3> HIDE DEF area
    <3> QED BY <3>1, <3>2
  <2>2. \A s, t \in S : s # t => P[s] \cap P[t] = {}
    BY DisjointPixels DEF SplittersAreDisjoint
  <2> HIDE DEF P, weight
  <2> QED BY <2>1, <2>2 DEF Measures
<1>3. Members(P, S) = PixelsOf(query) \cap Covered(S)
  BY DEF Members, Covered
<1>4. \A g : IsSum(g, weight, S) <=> g = Body(g)
  <2>1. \A s \in (SUBSET S) \ {{}} : weight[pick(s)] = area(pick(s))
    BY DEF weight
  <2> HIDE DEF area, weight
  <2> QED BY <2>1 DEF IsSum
<1> HIDE DEF P, weight, area, Body
<1>5. \E g : IsSum(g, weight, S)
  BY <1>2, SumCounts
<1>6. \E g : g = Body(g)
  BY <1>4, <1>5
<1>7. G = Body(G)
  BY <1>6, Zenon
<1>8. IsSum(G, weight, S)
  BY <1>4, <1>7
<1> HIDE DEF G
<1>9. G[S] = Cardinality(Members(P, S))
  BY <1>2, <1>8, SumCounts
<1> QED BY <1>1, <1>3, <1>9

\* The rectangles with their pixels
Tagged(S) == UNION {{r} \X PixelsOf(r) : r \in S}

LEMMA AreasCountPixels ==
  ASSUME NEW S, S \subseteq Rectangles, IsFiniteSet(S)
  PROVE  /\ IsFiniteSet(Tagged(S))
         /\ SumOfAreas(S) = Cardinality(Tagged(S))
<1> DEFINE area(r) == r.w * r.h
           weight == [r \in S |-> area(r)]
           P == [r \in S |-> {r} \X PixelsOf(r)]
           pick(s) == CHOOSE x \in s : TRUE
           Body(g) == [s \in SUBSET S |->
                         IF s = {} THEN 0
                         ELSE area(pick(s)) + g[s \ {pick(s)}]]
           G == CHOOSE g : g = Body(g)
<1>1. SumOfAreas(S) = G[S]
  BY DEF SumOfAreas, MapThenSumSet, MapThenFoldSet
<1>2. Measures(P, weight, S)
  <2>1. ASSUME NEW r \in S
        PROVE  IsFiniteSet(P[r]) /\ Cardinality(P[r]) = weight[r]
    <3>1. IsFiniteSet(PixelsOf(r)) /\ Cardinality(PixelsOf(r)) = area(r)
      BY PixelsAreCounted
    <3>2. IsFiniteSet({r}) /\ Cardinality({r}) = 1
      BY FS_Singleton
    <3>3. Cardinality({r} \X PixelsOf(r)) = 1 * area(r)
      BY <3>1, <3>2, FS_Product
    <3>4. area(r) \in Int
      BY DEF Rectangles
    <3> HIDE DEF area
    <3>5. IsFiniteSet({r} \X PixelsOf(r))
      BY <3>1, <3>2, FS_Product
    <3> QED BY <3>3, <3>4, <3>5
  <2>2. \A r, t \in S : r # t => P[r] \cap P[t] = {}
    OBVIOUS
  <2> HIDE DEF P, weight
  <2> QED BY <2>1, <2>2 DEF Measures
<1>3. Members(P, S) = Tagged(S)
  BY DEF Members, Tagged
<1>4. \A g : IsSum(g, weight, S) <=> g = Body(g)
  <2>1. \A s \in (SUBSET S) \ {{}} : weight[pick(s)] = area(pick(s))
    BY DEF weight
  <2> HIDE DEF area, weight
  <2> QED BY <2>1 DEF IsSum
<1> HIDE DEF P, weight, area, Body
<1>5. \E g : IsSum(g, weight, S)
  BY <1>2, SumCounts
<1>6. \E g : g = Body(g)
  BY <1>4, <1>5
<1>7. G = Body(G)
  BY <1>6, Zenon
<1>8. IsSum(G, weight, S)
  BY <1>4, <1>7
<1> HIDE DEF G
<1>9. G[S] = Cardinality(Members(P, S)) /\ IsFiniteSet(Members(P, S))
  BY <1>2, <1>8, SumCounts, MeasuredIsFinite
<1>10. G[S] = Cardinality(Tagged(S))
  BY <1>3, <1>9, Zenon
<1>11. SumOfAreas(S) = Cardinality(Tagged(S))
  BY <1>1, <1>10, Zenon
<1>12. IsFiniteSet(Tagged(S))
  BY <1>3, <1>9, Zenon
<1> QED BY <1>11, <1>12, Zenon

\* The pieces have at least a pixel each, and lie apart.
LEMMA PiecesLieApart ==
  ASSUME NEW a \in Rectangles, NEW b \in Rectangles, IntersectsWith(a, b)
  PROVE  /\ IsFiniteSet(SplitUp(a, b))
         /\ \A r \in SplitUp(a, b) : r.w > 0 /\ r.h > 0
         /\ \A r, s \in SplitUp(a, b) :
              \A px, py \in Int :
                Inside(px, py, r) /\ Inside(px, py, s) => r = s
<1>1. /\ a.x \in Int /\ a.y \in Int /\ b.x \in Int /\ b.y \in Int
      /\ Right(a) \in Int /\ Right(b) \in Int
      /\ Bottom(a) \in Int /\ Bottom(b) \in Int /\ b.h \in Int /\ b.h > 0
      /\ a.x < Right(a) /\ a.y < Bottom(a) /\ b.x < Right(b) /\ b.y < Bottom(b)
      /\ a.x < Right(b) /\ b.x < Right(a) /\ a.y < Bottom(b) /\ b.y < Bottom(a)
  BY OverlapMeans DEF Rectangles, Right, Bottom
<1> DEFINE above(left, right) == Rect(left, b.y, right - left, a.y - b.y)
           below(left, right) ==
             Rect(left, Bottom(a), right - left, Bottom(b) - Bottom(a))
<1>2. ASSUME NEW left, NEW right
      PROVE  /\ Above(a, b, left, right) \subseteq {above(left, right)}
             /\ Below(a, b, left, right) \subseteq {below(left, right)}
             /\ \A r \in Above(a, b, left, right) : b.y < a.y
             /\ \A r \in Below(a, b, left, right) : Bottom(a) < Bottom(b)
  BY <1>1 DEF Above, Below
<1>3. \A left, right \in Int :
        /\ above(left, right).w = right - left
        /\ above(left, right).h = a.y - b.y
        /\ below(left, right).w = right - left
        /\ below(left, right).h = Bottom(b) - Bottom(a)
        /\ \A px, py \in Int :
             /\ Inside(px, py, above(left, right)) =>
                  left <= px /\ px < right /\ py < a.y
             /\ Inside(px, py, below(left, right)) =>
                  left <= px /\ px < right /\ Bottom(a) <= py
  BY <1>1 DEF Rect, Inside, Right, Bottom
<1>4. /\ LeftOf(a, b).w = a.x - b.x /\ LeftOf(a, b).h = b.h
      /\ RightOf(a, b).w = Right(b) - Right(a) /\ RightOf(a, b).h = b.h
      /\ \A px, py \in Int :
           /\ Inside(px, py, LeftOf(a, b)) => px < a.x
           /\ Inside(px, py, RightOf(a, b)) => Right(a) <= px
  BY <1>1 DEF LeftOf, RightOf, Rect, Inside, Right, Bottom
<1> DEFINE L == IF StartsInside(a, b) THEN b.x ELSE a.x
           R == IF EndsInside(a, b) THEN Right(b) ELSE Right(a)
<1>5. L \in Int /\ R \in Int /\ a.x <= L /\ R <= Right(a) /\ L < R
  BY <1>1 DEF StartsInside, EndsInside
<1>6. SplitUp(a, b)
        \subseteq {r \in {LeftOf(a, b)} : b.x < a.x}
                    \cup {r \in {RightOf(a, b)} : Right(a) < Right(b)}
                    \cup Above(a, b, L, R) \cup Below(a, b, L, R)
  <2>1. ~StartsInside(a, b) => b.x < a.x
    BY <1>1 DEF StartsInside
  <2>2. ~EndsInside(a, b) => Right(a) < Right(b)
    BY <1>1 DEF EndsInside
  <2> QED BY <2>1, <2>2 DEF SplitUp
<1> HIDE DEF L, R
<1>7. ASSUME NEW r \in SplitUp(a, b)
      PROVE  \/ r = LeftOf(a, b) /\ b.x < a.x
             \/ r = RightOf(a, b) /\ Right(a) < Right(b)
             \/ r = above(L, R) /\ b.y < a.y
             \/ r = below(L, R) /\ Bottom(a) < Bottom(b)
  <2> HIDE DEF above, below
  <2> QED BY <1>2, <1>6
<1>8. IsFiniteSet(SplitUp(a, b))
  <2> HIDE DEF above, below
  <2>1. SplitUp(a, b) \subseteq ({LeftOf(a, b)} \cup {RightOf(a, b)})
                                  \cup ({above(L, R)} \cup {below(L, R)})
    BY <1>7
  <2>2. IsFiniteSet(({LeftOf(a, b)} \cup {RightOf(a, b)})
                      \cup ({above(L, R)} \cup {below(L, R)}))
    BY FS_Singleton, FS_Union
  <2> QED BY <2>1, <2>2, FS_Subset
<1>9. \A px, py \in Int :
        /\ Inside(px, py, LeftOf(a, b)) => px < a.x
        /\ Inside(px, py, RightOf(a, b)) => Right(a) <= px
        /\ Inside(px, py, above(L, R)) => a.x <= px /\ px < Right(a) /\ py < a.y
        /\ Inside(px, py, below(L, R)) =>
             a.x <= px /\ px < Right(a) /\ Bottom(a) <= py
  <2> SUFFICES ASSUME NEW px \in Int, NEW py \in Int
               PROVE  /\ Inside(px, py, LeftOf(a, b)) => px < a.x
                      /\ Inside(px, py, RightOf(a, b)) => Right(a) <= px
                      /\ Inside(px, py, above(L, R)) =>
                           a.x <= px /\ px < Right(a) /\ py < a.y
                      /\ Inside(px, py, below(L, R)) =>
                           a.x <= px /\ px < Right(a) /\ Bottom(a) <= py
    OBVIOUS
  <2>1. /\ Inside(px, py, above(L, R)) => L <= px /\ px < R /\ py < a.y
        /\ Inside(px, py, below(L, R)) => L <= px /\ px < R /\ Bottom(a) <= py
    BY <1>3, <1>5
  <2> HIDE DEF above, below
  <2> QED BY <1>1, <1>4, <1>5, <2>1
<1>10. \A r \in SplitUp(a, b) : r.w > 0 /\ r.h > 0
  <2> SUFFICES ASSUME NEW r \in SplitUp(a, b) PROVE r.w > 0 /\ r.h > 0
    OBVIOUS
  <2>1. above(L, R).w = R - L /\ above(L, R).h = a.y - b.y
        /\ below(L, R).w = R - L /\ below(L, R).h = Bottom(b) - Bottom(a)
    BY <1>3, <1>5
  <2> HIDE DEF above, below
  <2> QED BY <1>1, <1>4, <1>5, <1>7, <2>1
<1>11. ASSUME NEW r \in SplitUp(a, b), NEW s \in SplitUp(a, b),
              NEW px \in Int, NEW py \in Int,
              Inside(px, py, r), Inside(px, py, s)
       PROVE  r = s
  <2> HIDE DEF above, below
  <2>1. /\ r = LeftOf(a, b) \/ r = RightOf(a, b) \/ r = above(L, R)
             \/ r = below(L, R)
        /\ s = LeftOf(a, b) \/ s = RightOf(a, b) \/ s = above(L, R)
             \/ s = below(L, R)
    BY <1>7
  <2>2. /\ Inside(px, py, LeftOf(a, b)) => px < a.x
        /\ Inside(px, py, RightOf(a, b)) => Right(a) <= px
        /\ Inside(px, py, above(L, R)) => a.x <= px /\ px < Right(a) /\ py < a.y
        /\ Inside(px, py, below(L, R)) =>
             a.x <= px /\ px < Right(a) /\ Bottom(a) <= py
    BY <1>9
  <2> QED BY <1>1, <1>11, <2>1, <2>2
<1> QED BY <1>8, <1>10, <1>11

\* A cut leaves less to be added: each piece has its own pixels of b, and those
\* that b shares with a are in none.
LEMMA SplitLeavesLess ==
  ASSUME NEW a \in Rectangles, NEW b \in Rectangles, IntersectsWith(a, b),
         ~IsCompletelyContained(a, b), ~IsCompletelyContained(b, a)
  PROVE  /\ IsFiniteSet(Tagged(SplitUp(a, b)))
         /\ Cardinality(Tagged(SplitUp(a, b))) < Cardinality(PixelsOf(b))
<1> DEFINE T == Tagged(SplitUp(a, b))
           D == PixelsOf(b) \ PixelsOf(a)
           f == [t \in T |-> t[2]]
<1>1. /\ \A r \in SplitUp(a, b) : r \in Rectangles
      /\ \A px, py \in Int :
           (\E r \in SplitUp(a, b) : Inside(px, py, r))
             <=> Inside(px, py, b) /\ ~Inside(px, py, a)
  BY SplitUpIsExact
<1>2. \A t \in T : \E r \in SplitUp(a, b), px, py \in Int :
        t = <<r, <<px, py>>>> /\ Inside(px, py, r)
  <2> SUFFICES ASSUME NEW t \in T
               PROVE  \E r \in SplitUp(a, b), px, py \in Int :
                        t = <<r, <<px, py>>>> /\ Inside(px, py, r)
    OBVIOUS
  <2>1. PICK r \in SplitUp(a, b) : t \in {r} \X PixelsOf(r)
    BY DEF Tagged
  <2>2. PICK p \in PixelsOf(r) : t = <<r, p>>
    BY <2>1
  <2>3. r \in Rectangles
    BY <1>1
  <2>4. PixelsOf(r) \subseteq Int \X Int
    BY <2>3, PixelsAreInside
  <2>5. PICK px \in Int, py \in Int : p = <<px, py>>
    BY <2>4
  <2>6. Inside(px, py, r)
    BY <2>3, <2>5, PixelsAreInside, Zenon
  <2> QED BY <2>2, <2>5, <2>6
<1>3. \A t \in T : t[2] \in D
  <2> SUFFICES ASSUME NEW t \in T PROVE t[2] \in D
    OBVIOUS
  <2>1. PICK r \in SplitUp(a, b), px \in Int, py \in Int :
          t = <<r, <<px, py>>>> /\ Inside(px, py, r)
    BY <1>2, Zenon
  <2>2. Inside(px, py, b) /\ ~Inside(px, py, a)
    BY <1>1, <2>1, Zenon
  <2>3. <<px, py>> \in PixelsOf(b) /\ <<px, py>> \notin PixelsOf(a)
    BY <2>2, PixelsAreInside, Zenon
  <2> QED BY <2>1, <2>3
<1>4. \A t, u \in T : t[2] = u[2] => t = u
  <2> SUFFICES ASSUME NEW t \in T, NEW u \in T, t[2] = u[2] PROVE t = u
    OBVIOUS
  <2>1. PICK r \in SplitUp(a, b), px \in Int, py \in Int :
          t = <<r, <<px, py>>>> /\ Inside(px, py, r)
    BY <1>2, Zenon
  <2>2. PICK s \in SplitUp(a, b), qx \in Int, qy \in Int :
          u = <<s, <<qx, qy>>>> /\ Inside(qx, qy, s)
    BY <1>2, Zenon
  <2>3. qx = px /\ qy = py
    BY <2>1, <2>2
  <2>4. r = s
    BY <2>1, <2>2, <2>3, PiecesLieApart, Zenon
  <2> QED BY <2>1, <2>2, <2>3, <2>4
<1>5. f \in Injection(T, D)
  <2> HIDE DEF T, D
  <2>1. f \in [T -> D] /\ \A t, u \in T : f[t] = f[u] => t = u
    BY <1>3, <1>4
  <2>2. DOMAIN f = T
    OBVIOUS
  <2> HIDE DEF f
  <2> QED BY <2>1, <2>2 DEF Injection, IsInjective
<1>6. IsFiniteSet(PixelsOf(b))
  BY PixelsAreCounted
<1>7. D # PixelsOf(b) /\ D \subseteq PixelsOf(b)
  <2> DEFINE px == Larger(a.x, b.x)
             py == Larger(a.y, b.y)
  <2>1. /\ px \in Int /\ py \in Int /\ Inside(px, py, a) /\ Inside(px, py, b)
    BY OverlapMeans DEF Inside, Larger, Rectangles, Right, Bottom
  <2> HIDE DEF px, py
  <2>2. <<px, py>> \in PixelsOf(a) /\ <<px, py>> \in PixelsOf(b)
    BY <2>1, PixelsAreInside, Zenon
  <2> QED BY <2>2
<1> HIDE DEF D, T, f
<1>8. /\ IsFiniteSet(D) /\ Cardinality(D) <= Cardinality(PixelsOf(b))
      /\ Cardinality(D) # Cardinality(PixelsOf(b))
  BY <1>6, <1>7, FS_Subset
<1>9. IsFiniteSet(T) /\ Cardinality(T) <= Cardinality(D)
  BY <1>5, <1>8, FS_Injection
<1>10. Cardinality(T) \in Nat /\ Cardinality(D) \in Nat
       /\ Cardinality(PixelsOf(b)) \in Nat
  BY <1>6, <1>8, <1>9, FS_CardinalityType
<1>11. Cardinality(T) < Cardinality(PixelsOf(b))
  BY <1>8, <1>9, <1>10
<1> QED BY <1>9, <1>11 DEF T

\* Without one of its members, there is less by its area.
LEMMA OneLessTagged ==
  ASSUME NEW S, S \subseteq Rectangles, IsFiniteSet(S), NEW r \in S
  PROVE  /\ IsFiniteSet(Tagged(S)) /\ IsFiniteSet(Tagged(S \ {r}))
         /\ Cardinality(Tagged(S))
              = Cardinality(Tagged(S \ {r})) + Cardinality(PixelsOf(r))
<1> DEFINE U == Tagged(S \ {r})
           V == {r} \X PixelsOf(r)
<1>1. Tagged(S) = U \cup V /\ U \cap V = {}
  BY DEF Tagged
<1>2. IsFiniteSet(S \ {r}) /\ S \ {r} \subseteq Rectangles
  BY FS_RemoveElement
<1>3. IsFiniteSet(U) /\ IsFiniteSet(Tagged(S))
  BY <1>2, AreasCountPixels
<1>4. IsFiniteSet(V) /\ Cardinality(V) = Cardinality(PixelsOf(r))
  <2>1. IsFiniteSet(PixelsOf(r)) /\ Cardinality(PixelsOf(r)) \in Nat
    BY PixelsAreCounted, FS_CardinalityType
  <2>2. IsFiniteSet({r}) /\ Cardinality({r}) = 1
    BY FS_Singleton
  <2>3. IsFiniteSet(V) /\ Cardinality(V) = 1 * Cardinality(PixelsOf(r))
    BY <2>1, <2>2, FS_Product
  <2> QED BY <2>1, <2>3
<1> HIDE DEF U, V
<1>5. Cardinality(U \cup V)
        = Cardinality(U) + Cardinality(V) - Cardinality(U \cap V)
  BY <1>3, <1>4, FS_Union
<1>6. Cardinality(U \cap V) = 0
  BY <1>1, FS_EmptySet
<1>7. Cardinality(U) \in Nat /\ Cardinality(V) \in Nat
  BY <1>3, <1>4, FS_CardinalityType
<1>8. Cardinality(Tagged(S)) = Cardinality(U) + Cardinality(PixelsOf(r))
  BY <1>1, <1>4, <1>5, <1>6, <1>7
<1> QED BY <1>3, <1>8 DEF U

\* The sets are finite, and no pending rectangle is empty.
NothingEmptyIsPending ==
  /\ IsFiniteSet(splitters)
  /\ IsFiniteSet(pending)
  /\ \A r \in pending : r.w > 0 /\ r.h > 0

\* A turn of AddRectangle leaves less effort.
LEMMA AddLeavesLess ==
  ASSUME splitters \subseteq Rectangles, pending \subseteq Rectangles,
         NothingEmptyIsPending, NEW r \in pending, AddRectangle(r)
  PROVE  NothingEmptyIsPending' /\ Effort' < Effort
<1> DEFINE A == Cardinality(Tagged(pending))
           B == Cardinality(Tagged(pending'))
           rest == Cardinality(Tagged(pending \ {r}))
           m == Cardinality(splitters)
           n == Cardinality(splitters')
           area == Cardinality(PixelsOf(r))
<1>1. /\ IsFiniteSet(Tagged(pending)) /\ IsFiniteSet(Tagged(pending \ {r}))
      /\ A = rest + area
  BY OneLessTagged DEF NothingEmptyIsPending
<1>2. area \in Nat /\ area > 0
  <2>1. IsFiniteSet(PixelsOf(r)) /\ area = r.w * r.h
    BY PixelsAreCounted
  <2>2. r.w \in Nat /\ r.h \in Nat /\ r.w > 0 /\ r.h > 0
    BY DEF NothingEmptyIsPending, Rectangles
  <2>3. r.w * r.h > 0 /\ r.w * r.h \in Nat
    BY <2>2
  <2> HIDE DEF area
  <2> QED BY <2>1, <2>3
<1>3. A \in Nat /\ rest \in Nat
  BY <1>1, FS_CardinalityType
<1>4. IsFiniteSet(splitters) /\ m \in Nat
  BY FS_CardinalityType DEF NothingEmptyIsPending
<1>5. IsFiniteSet(pending \ {r}) /\ IsFiniteSet(pending)
  BY FS_RemoveElement DEF NothingEmptyIsPending
<1>6. /\ pending' \subseteq Rectangles /\ NothingEmptyIsPending'
      /\ n \in Nat /\ B \in Nat
      /\ \/ B = rest /\ n <= m + 1
         \/ B = A /\ n < m
         \/ B < A /\ n = m
  <2>1. CASE AddDisjoint(r)
    <3>1. pending' = pending \ {r} /\ splitters' = splitters \cup {r}
      BY <2>1 DEF AddDisjoint
    <3>2. IsFiniteSet(splitters') /\ (n = m \/ n = m + 1)
      BY <1>4, <3>1, FS_AddElement
    <3> QED BY <1>3, <1>4, <1>5, <3>1, <3>2 DEF NothingEmptyIsPending
  <2>2. CASE AddContained(r)
    <3>1. pending' = pending \ {r} /\ splitters' = splitters
      BY <2>2 DEF AddContained
    <3> QED BY <1>3, <1>4, <1>5, <3>1 DEF NothingEmptyIsPending
  <2>3. CASE AddAround(r)
    <3>1. PICK s \in splitters : pending' = pending /\ splitters' = splitters \ {s}
      BY <2>3 DEF AddAround
    <3>2. IsFiniteSet(splitters') /\ n = m - 1
      BY <1>4, <3>1, FS_RemoveElement
    <3>3. n \in Nat
      BY <3>2, FS_CardinalityType
    <3> QED BY <1>3, <1>4, <1>5, <3>1, <3>2, <3>3 DEF NothingEmptyIsPending
  <2>4. CASE AddSplit(r)
    <3>1. PICK s \in splitters :
            /\ IntersectsWith(s, r)
            /\ ~IsCompletelyContained(s, r) /\ ~IsCompletelyContained(r, s)
            /\ pending' = (pending \ {r}) \cup SplitUp(s, r)
            /\ splitters' = splitters
      BY <2>4 DEF AddSplit
    <3>2. /\ SplitUp(s, r) \subseteq Rectangles
          /\ IsFiniteSet(SplitUp(s, r))
          /\ \A q \in SplitUp(s, r) : q.w > 0 /\ q.h > 0
      BY <3>1, SplitUpIsExact, PiecesLieApart
    <3>3. IsFiniteSet(pending') /\ pending' \subseteq Rectangles
      BY <1>5, <3>1, <3>2, FS_Union
    <3>4. NothingEmptyIsPending'
      BY <1>4, <3>1, <3>2, <3>3 DEF NothingEmptyIsPending
    <3> DEFINE U == Tagged(pending \ {r})
               V == Tagged(SplitUp(s, r))
    <3>5. Tagged(pending') = U \cup V
      BY <3>1 DEF Tagged
    <3>6. IsFiniteSet(V) /\ Cardinality(V) < area
      BY <3>1, SplitLeavesLess
    <3> HIDE DEF area
    <3>7. B \in Nat /\ B < A
      <4> DEFINE W == U \cap V
      <4>1. IsFiniteSet(U) /\ Cardinality(U) = rest
        BY <1>1
      <4> HIDE DEF U, V, rest
      <4>2. /\ IsFiniteSet(U \cup V)
            /\ Cardinality(U \cup V)
                 = Cardinality(U) + Cardinality(V) - Cardinality(W)
        BY <3>6, <4>1, FS_Union
      <4>3. IsFiniteSet(W)
        BY <4>1, FS_Intersection
      <4> HIDE DEF W
      <4>4. Cardinality(W) \in Nat /\ Cardinality(V) \in Nat
        BY <3>6, <4>3, FS_CardinalityType
      <4>5. B = Cardinality(U \cup V) /\ B \in Nat
        BY <3>5, <4>2, FS_CardinalityType
      <4> HIDE DEF A, B
      <4> QED BY <1>1, <1>2, <1>3, <3>6, <4>1, <4>2, <4>4, <4>5
    <3>8. n = m
      BY <3>1
    <3> HIDE DEF A, B, m, n
    <3> QED BY <1>4, <3>3, <3>4, <3>7, <3>8
  <2> QED BY <2>1, <2>2, <2>3, <2>4 DEF AddRectangle
<1>7. Effort = 2 * A + m
  <2>1. SumOfAreas(pending) = A
    BY <1>5, AreasCountPixels
  <2> QED BY <2>1 DEF Effort
<1>8. Effort' = 2 * B + n
  <2>1. IsFiniteSet(pending')
    BY <1>6 DEF NothingEmptyIsPending
  <2>2. SumOfAreas(pending') = B
    BY <1>6, <2>1, AreasCountPixels
  <2> QED BY <2>2 DEF Effort
<1> HIDE DEF A, B, rest, m, n, area
<1>9. 2 * B + n < 2 * A + m
  BY <1>1, <1>2, <1>3, <1>4, <1>6
<1> QED BY <1>6, <1>7, <1>8, <1>9

-----------------------------------------------------------------------------
(* A call. *)

\* Between calls nothing is left of the last one, and during one all is of tiles.
CallState ==
  IF pc = "idle"
  THEN /\ request = NoRequest /\ groups = <<>> /\ before = <<>>
       /\ order = <<>> /\ remaining = 0 /\ coveredPixels = 0
       /\ visible = <<>> /\ picture = <<>>
  ELSE /\ Ready
       /\ request \in Requests
       /\ groups \in Seq(SUBSET TilesOf(request))
       /\ before \in Seq(TilesOf(request))
       /\ order \in Seq(TilesOf(request))
       /\ visible \in Seq(TilesOf(request))
       /\ remaining \in 0 .. Len(order)
       /\ pc = "paint" => remaining = 0
       /\ DOMAIN picture = PicturePixels(request)
       /\ \A pixel \in DOMAIN picture :
            picture[pixel] \in TilesOf(request) \cup {Background}

CoveredByTiles(keys) == UNION {PixelsOf(BoxOf(key)) : key \in keys}

\* The count is that of the pixels of the region that the tiles looked at cover.
CountsCovered ==
  /\ coveredPixels \in 0 .. request.roi.w * request.roi.h
  /\ pc \in {"look", "add"} =>
       /\ request.check
       /\ coveredPixels
            = Cardinality(PixelsOf(request.roi) \cap CoveredByTiles(LookedAt))

CallInv == CallState /\ NothingEmptyIsPending /\ CountsCovered

\* A sorting has the tiles of the group, each once, in order.
LEMMA SortingsAreOrders ==
  ASSUME DirectoryInv, NEW keys, keys \subseteq DOMAIN subBlks, NEW r,
         NEW s \in Sortings(keys, r)
  PROVE  /\ s \in Seq(keys)
         /\ \A key \in keys : \E i \in 1 .. Len(s) : s[i] = key
         /\ \A i, j \in 1 .. Len(s) : i < j => MayPrecede(s[i], s[j], r)
<1> DEFINE n == Cardinality(keys)
<1>1. IsFiniteSet(keys) /\ n \in Nat
  BY KeysAndScenesAreFinite, FS_Subset, FS_CardinalityType
<1>2. /\ s \in [1 .. n -> keys]
      /\ \A i, j \in 1 .. n : i < j => s[i] # s[j] /\ MayPrecede(s[i], s[j], r)
  BY DEF Sortings
<1>3. s \in Injection(1 .. n, keys)
  <2>1. \A i, j \in DOMAIN s : s[i] = s[j] => i = j
    BY <1>1, <1>2
  <2> QED BY <1>2, <2>1 DEF Injection, IsInjective
<1>4. IsFiniteSet(1 .. n) /\ Cardinality(1 .. n) = n
  <2> HIDE DEF n
  <2>1. /\ IsFiniteSet(1 .. n)
        /\ Cardinality(1 .. n) = IF 1 > n THEN 0 ELSE n - 1 + 1
    BY <1>1, FS_Interval
  <2> QED BY <1>1, <2>1
<1>5. s \in Surjection(1 .. n, keys)
  BY <1>1, <1>3, <1>4, FS_Injection
<1> HIDE DEF n
<1>6. \A key \in keys : \E i \in 1 .. n : s[i] = key
  BY <1>5 DEF Surjection
<1>7. s \in Seq(keys) /\ Len(s) = n
  BY <1>1, <1>2
<1> QED BY <1>2, <1>6, <1>7

LEMMA CallInitInv == Init => CallInv
<1> SUFFICES ASSUME Init PROVE CallInv
  OBVIOUS
<1>1. CallState
  BY DEF Init, CallState
<1>2. NothingEmptyIsPending
  BY FS_EmptySet DEF Init, CoverageInit, NothingEmptyIsPending
<1>3. CountsCovered
  BY DEF Init, CountsCovered, NoRequest, Rect
<1> QED BY <1>1, <1>2, <1>3 DEF CallInv

\* The region's pixels are counted.
LEMMA RegionIsCounted ==
  ASSUME NEW r \in Requests, NEW S
  PROVE  /\ IsFiniteSet(PixelsOf(r.roi) \cap S)
         /\ Cardinality(PixelsOf(r.roi) \cap S) \in 0 .. r.roi.w * r.roi.h
         /\ Cardinality(PixelsOf(r.roi) \cap S) = r.roi.w * r.roi.h =>
              PixelsOf(r.roi) \subseteq S
<1> DEFINE R == PixelsOf(r.roi)
           area == r.roi.w * r.roi.h
<1>1. r.roi \in Rectangles
  BY AccessorAssumption
<1>2. IsFiniteSet(R) /\ Cardinality(R) = area
  BY <1>1, PixelsAreCounted
<1> HIDE DEF R, area
<1>3. /\ IsFiniteSet(R \cap S) /\ Cardinality(R \cap S) <= Cardinality(R)
      /\ Cardinality(R) = Cardinality(R \cap S) => R = R \cap S
  BY <1>2, FS_Subset
<1>4. Cardinality(R \cap S) \in Nat /\ Cardinality(R) \in Nat
  BY <1>2, <1>3, FS_CardinalityType
<1> QED BY <1>2, <1>3, <1>4 DEF R, area

\* When a tile has been added, the splitters' area is that of the region which
\* it and those above it cover.
LEMMA AreaOfTheTiles ==
  ASSUME IInv, CallInv, pc = "add", pending = {}
  PROVE  CalcAreaOfIntersectionWithRectangle(request.roi)
           = Cardinality(PixelsOf(request.roi)
                           \cap CoveredByTiles(LookedAt \cup {order[remaining]}))
<1>1. request.roi \in Rectangles
  BY AccessorAssumption DEF CallInv, CallState
<1>2. Covered(splitters) = CoveredByTiles(LookedAt \cup {order[remaining]})
  BY DEF IInv, CoverageIsOfTheTiles, Covered, CoveredByTiles
<1>3. CalcAreaOfIntersectionWithRectangle(request.roi)
        = Cardinality(PixelsOf(request.roi) \cap Covered(splitters))
  BY <1>1, AreaCountsPixels DEF IInv, CallTyped, CallInv, NothingEmptyIsPending
<1> QED BY <1>2, <1>3

\* What depends on nothing but the call and the directory.
LEMMA SameTiles ==
  ASSUME UNCHANGED <<subBlks, loading, recreating, request>>
  PROVE  /\ TilesOf(request)' = TilesOf(request)
         /\ PicturePixels(request)' = PicturePixels(request)
         /\ PixelsOf(request.roi)' = PixelsOf(request.roi)
         /\ Ready' = Ready
<1>1. \A key : BoxOf(key)' = BoxOf(key)
  BY DEF BoxOf
<1>2. TilesOf(request)' = TilesOf(request)
  BY <1>1, Zenon DEF TilesOf
<1>3. PixelsOf(request.roi)' = PixelsOf(request.roi)
  BY Zenon DEF PixelsOf
<1>4. PicturePixels(request)' = PicturePixels(request)
  BY Zenon DEF PicturePixels
<1>5. Ready' = Ready
  BY DEF Ready
<1> QED BY <1>2, <1>3, <1>4, <1>5

LEMMA SameLookedAt ==
  ASSUME UNCHANGED <<subBlks, order, remaining>>
  PROVE  LookedAt' = LookedAt /\ CoveredByTiles(LookedAt)' = CoveredByTiles(LookedAt)
<1>1. \A key : BoxOf(key)' = BoxOf(key)
  BY DEF BoxOf
<1>2. LookedAt' = LookedAt
  BY DEF LookedAt
<1> QED BY <1>1, <1>2, Zenon DEF CoveredByTiles

LEMMA BeginKeepsCall ==
  ASSUME IInv, CallInv, NEW r \in Requests, NEW gs \in Seq(SUBSET TilesOf(r)),
         Begin(r, gs)
  PROVE  CallInv'
<1> USE DEF Begin
<1>1. /\ UNCHANGED <<subBlks, loading, recreating, splitters, pending, before,
                     order, remaining, coveredPixels, visible>>
      /\ pc = "idle" /\ pc' = "paint" /\ request' = r /\ groups' = gs
      /\ picture' = [pixel \in PicturePixels(r) |-> Background] /\ Ready
  BY DEF directoryVars, coverageVars
<1>2. /\ before' = <<>> /\ order' = <<>> /\ visible' = <<>>
      /\ remaining' = 0 /\ coveredPixels' = 0
  BY <1>1 DEF CallInv, CallState
<1>3. TilesOf(request)' = TilesOf(r)
  <2>1. \A key : BoxOf(key)' = BoxOf(key)
    BY <1>1 DEF BoxOf
  <2> QED BY <1>1, <2>1 DEF TilesOf
<1>4. CallState'
  <2>1. Ready'
    BY <1>1 DEF Ready
  <2>2. PicturePixels(request)' = PicturePixels(r)
    BY <1>1
  <2> HIDE DEF Begin
  <2> QED BY <1>1, <1>2, <1>3, <2>1, <2>2 DEF CallState
<1>5. NothingEmptyIsPending'
  BY <1>1 DEF CallInv, NothingEmptyIsPending
<1>6. CountsCovered'
  <2>1. Cardinality(PixelsOf(r.roi) \cap {}) \in 0 .. r.roi.w * r.roi.h
    BY RegionIsCounted
  <2>2. r.roi.w \in Nat /\ r.roi.h \in Nat
    BY AccessorAssumption DEF Rectangles
  <2>3. r.roi.w * r.roi.h \in Nat
    BY <2>2
  <2> QED BY <1>1, <1>2, <2>3 DEF CountsCovered
<1> QED BY <1>4, <1>5, <1>6 DEF CallInv

LEMMA NextGroupKeepsCall ==
  ASSUME IInv, CallInv, NextGroup
  PROVE  CallInv'
<1>1. /\ UNCHANGED <<subBlks, loading, recreating, splitters, pending, request,
                     picture>>
      /\ pc = "paint" /\ visible = <<>> /\ groups # <<>>
      /\ groups' = Tail(groups) /\ before' = before \o order
      /\ coveredPixels' = 0
  BY DEF NextGroup, directoryVars, coverageVars
<1>2. PICK s \in Sortings(Head(groups), request) :
        /\ order' = s
        /\ IF request.check /\ s # <<>>
           THEN pc' = "look" /\ remaining' = Len(s) /\ UNCHANGED visible
           ELSE visible' = s /\ UNCHANGED <<pc, remaining>>
  BY DEF NextGroup
<1> DEFINE T == TilesOf(request)
<1>3. /\ Ready /\ request \in Requests /\ groups \in Seq(SUBSET T)
      /\ before \in Seq(T) /\ order \in Seq(T) /\ visible \in Seq(T)
      /\ remaining = 0
      /\ DOMAIN picture = PicturePixels(request)
      /\ \A pixel \in DOMAIN picture : picture[pixel] \in T \cup {Background}
  BY <1>1 DEF CallInv, CallState
<1>4. T' = T /\ Ready' /\ PicturePixels(request)' = PicturePixels(request)
  BY <1>1, <1>3, SameTiles
<1>5. Head(groups) \subseteq T /\ Tail(groups) \in Seq(SUBSET T)
  BY <1>1, <1>3
<1>6. s \in Seq(T) /\ Len(s) \in Nat
  <2>1. T \subseteq DOMAIN subBlks
    BY DEF TilesOf
  <2>2. s \in Seq(Head(groups))
    BY <1>5, <2>1, SortingsAreOrders DEF IInv
  <2> HIDE DEF T
  <2> QED BY <1>5, <2>2
<1> HIDE DEF T
<1>7. /\ order' \in Seq(T) /\ visible' \in Seq(T) /\ before' \in Seq(T)
      /\ remaining' \in 0 .. Len(order')
      /\ (pc' = "paint" => remaining' = 0)
      /\ pc' \in {"look", "paint"}
      /\ (pc' = "look" => request.check /\ remaining' = Len(order'))
  <2>1. before \o order \in Seq(T)
    BY <1>3
  <2>2. CASE request.check /\ s # <<>>
    BY <1>1, <1>2, <1>3, <1>6, <2>1, <2>2
  <2>3. CASE ~(request.check /\ s # <<>>)
    BY <1>1, <1>2, <1>3, <1>6, <2>1, <2>3
  <2> QED BY <2>2, <2>3
<1>8. CallState'
  BY <1>1, <1>3, <1>4, <1>5, <1>7 DEF CallState, T
<1>9. NothingEmptyIsPending'
  BY <1>1 DEF CallInv, NothingEmptyIsPending
<1>10. CountsCovered'
  <2>1. request.roi.w \in Nat /\ request.roi.h \in Nat
    BY <1>3, AccessorAssumption DEF Rectangles
  <2>2. request.roi.w * request.roi.h \in Nat
    BY <2>1
  <2>3. CASE pc' = "look"
    <3>1. LookedAt' = {}
      <4>1. remaining' = Len(order') /\ Len(order') \in Nat
        BY <1>2, <1>6, <1>7, <2>3
      <4>2. remaining' + 1 .. Len(order') = {}
        BY <4>1
      <4> QED BY <4>2 DEF LookedAt
    <3>2. PixelsOf(request.roi) \cap CoveredByTiles(LookedAt)' = {}
      BY <3>1 DEF CoveredByTiles
    <3>3. Cardinality((PixelsOf(request.roi) \cap CoveredByTiles(LookedAt))') = 0
      BY <1>1, <3>2, FS_EmptySet DEF PixelsOf
    <3> QED BY <1>1, <1>7, <2>2, <2>3, <3>3 DEF CountsCovered
  <2>4. CASE pc' = "paint"
    BY <1>1, <2>2, <2>4 DEF CountsCovered
  <2> QED BY <1>7, <2>3, <2>4
<1> QED BY <1>8, <1>9, <1>10 DEF CallInv

LEMMA LookKeepsCall ==
  ASSUME IInv, CallInv, Look
  PROVE  CallInv'
<1>1. /\ UNCHANGED <<subBlks, loading, recreating, splitters, request, groups,
                     before, order, remaining, coveredPixels, visible, picture>>
      /\ pc = "look" /\ pc' = "add"
      /\ pending' = {BoxOf(order[remaining])}
  BY DEF Look, directoryVars
<1>2. CallState'
  BY <1>1, SameTiles DEF CallInv, CallState
<1>3. NothingEmptyIsPending'
  <2>1. order[remaining] \in TilesOf(request) /\ request.check
    BY <1>1 DEF CallInv, CallState, IInv, CallTyped, CountsCovered
  <2>2. BoxOf(order[remaining]).w > 0 /\ BoxOf(order[remaining]).h > 0
    BY <2>1 DEF TilesOf
  <2>3. IsFiniteSet(splitters) /\ IsFiniteSet(pending')
    BY <1>1, FS_Singleton DEF CallInv, NothingEmptyIsPending
  <2> QED BY <1>1, <2>2, <2>3 DEF NothingEmptyIsPending
<1>4. CountsCovered'
  <2>1. /\ LookedAt' = LookedAt /\ CoveredByTiles(LookedAt)' = CoveredByTiles(LookedAt)
        /\ PixelsOf(request.roi)' = PixelsOf(request.roi)
    BY <1>1, SameTiles, SameLookedAt
  <2> QED BY <1>1, <2>1 DEF CallInv, CountsCovered
<1> QED BY <1>2, <1>3, <1>4 DEF CallInv

LEMMA AddKeepsCall ==
  ASSUME IInv, CallInv, Add
  PROVE  CallInv' /\ (pending # {} => Effort' < Effort)
<1>1. /\ UNCHANGED <<subBlks, loading, recreating, pc, request, groups, before,
                     order, remaining, coveredPixels, visible, picture>>
      /\ \E r \in pending : AddRectangle(r)
  BY DEF Add, directoryVars, callVars
<1>2. CallState'
  BY <1>1, SameTiles DEF CallInv, CallState
<1>3. NothingEmptyIsPending' /\ Effort' < Effort
  BY <1>1, AddLeavesLess DEF CallInv, IInv, CallTyped
<1>4. CountsCovered'
  <2>1. /\ LookedAt' = LookedAt /\ CoveredByTiles(LookedAt)' = CoveredByTiles(LookedAt)
        /\ PixelsOf(request.roi)' = PixelsOf(request.roi)
    BY <1>1, SameTiles, SameLookedAt
  <2> QED BY <1>1, <2>1 DEF CallInv, CountsCovered
<1> QED BY <1>2, <1>3, <1>4 DEF CallInv

\* What Judge does: the tile is kept if more of the region is covered with it,
\* and it is the last if all is, or no other is left.
LEMMA WhatJudgeDoes ==
  ASSUME IInv, CallInv, Judge
  PROVE  LET tile == order[remaining]
             with == CoveredByTiles(LookedAt \cup {tile})
             area == Cardinality(PixelsOf(request.roi) \cap with)
         IN  /\ UNCHANGED <<subBlks, loading, recreating, request, groups, before,
                            order, picture, pending>>
             /\ pc = "add" /\ pc' \in {"look", "paint"}
             /\ request \in Requests /\ request.check
             /\ order \in Seq(TilesOf(request)) /\ remaining \in 1 .. Len(order)
             /\ tile \in TilesOf(request)
             /\ visible \in Seq(TilesOf(request))
             /\ coveredPixels
                  = Cardinality(PixelsOf(request.roi) \cap CoveredByTiles(LookedAt))
             /\ coveredPixels' = area
             /\ visible' = IF area > coveredPixels
                           THEN <<tile>> \o visible ELSE visible
             /\ pc' = "look" => /\ splitters' = splitters
                                /\ remaining' = remaining - 1 /\ remaining > 1
             /\ pc' = "paint" =>
                  /\ splitters' = {} /\ remaining' = 0
                  /\ area = request.roi.w * request.roi.h \/ remaining = 1
<1> DEFINE tile == order[remaining]
           with == CoveredByTiles(LookedAt \cup {tile})
           area == Cardinality(PixelsOf(request.roi) \cap with)
<1>1. pc = "add" /\ pending = {}
  BY DEF Judge
<1>2. CalcAreaOfIntersectionWithRectangle(request.roi) = area
  BY <1>1, AreaOfTheTiles
<1> HIDE DEF area, with
<1>3. /\ UNCHANGED <<subBlks, loading, recreating, request, groups, before, order,
                     picture, pending>>
      /\ visible' = IF area > coveredPixels
                    THEN <<tile>> \o visible ELSE visible
      /\ coveredPixels' = area
      /\ LET done == area = request.roi.w * request.roi.h \/ remaining = 1
         IN  /\ pc' = IF done THEN "paint" ELSE "look"
             /\ splitters' = IF done THEN {} ELSE splitters
             /\ remaining' = IF done THEN 0 ELSE remaining - 1
  BY <1>2 DEF Judge, directoryVars
<1>4. /\ request \in Requests /\ request.check
      /\ order \in Seq(TilesOf(request)) /\ remaining \in 1 .. Len(order)
      /\ visible \in Seq(TilesOf(request))
      /\ coveredPixels
           = Cardinality(PixelsOf(request.roi) \cap CoveredByTiles(LookedAt))
  BY <1>1 DEF CallInv, CallState, CountsCovered, IInv, CallTyped
<1>5. tile \in TilesOf(request)
  BY <1>4
<1>6. /\ pc' \in {"look", "paint"}
      /\ pc' = "look" => /\ splitters' = splitters
                         /\ remaining' = remaining - 1 /\ remaining > 1
      /\ pc' = "paint" =>
           /\ splitters' = {} /\ remaining' = 0
           /\ area = request.roi.w * request.roi.h \/ remaining = 1
  BY <1>3, <1>4
<1> HIDE DEF tile
<1> QED BY <1>1, <1>3, <1>4, <1>5, <1>6 DEF tile, with, area

LEMMA OneMoreLookedAt ==
  ASSUME remaining \in 1 .. Len(order), Len(order) \in Nat,
         remaining' = remaining - 1, order' = order
  PROVE  LookedAt' = LookedAt \cup {order[remaining]}
<1>1. (remaining - 1) + 1 .. Len(order)
        = (remaining + 1 .. Len(order)) \cup {remaining}
  OBVIOUS
<1>2. LookedAt' = {order[i] : i \in (remaining - 1) + 1 .. Len(order)}
  BY DEF LookedAt
<1> QED BY <1>1, <1>2 DEF LookedAt

LEMMA JudgeKeepsCall ==
  ASSUME IInv, CallInv, Judge
  PROVE  CallInv'
<1> DEFINE tile == order[remaining]
           T == TilesOf(request)
           with == CoveredByTiles(LookedAt \cup {tile})
           area == Cardinality(PixelsOf(request.roi) \cap with)
<1>1. /\ UNCHANGED <<subBlks, loading, recreating, request, groups, before,
                     order, picture, pending>>
      /\ pc = "add" /\ pc' \in {"look", "paint"}
      /\ request \in Requests /\ request.check
      /\ order \in Seq(T) /\ remaining \in 1 .. Len(order)
      /\ tile \in T /\ visible \in Seq(T)
      /\ coveredPixels' = area
      /\ visible' = IF area > coveredPixels THEN <<tile>> \o visible ELSE visible
      /\ pc' = "look" => /\ splitters' = splitters
                         /\ remaining' = remaining - 1 /\ remaining > 1
      /\ pc' = "paint" => splitters' = {} /\ remaining' = 0
  BY WhatJudgeDoes
<1>2. area \in 0 .. request.roi.w * request.roi.h
  <2> HIDE DEF with
  <2> QED BY <1>1, RegionIsCounted
<1>3. visible' \in Seq(T)
  <2> HIDE DEF tile, T, area
  <2>1. <<tile>> \o visible \in Seq(T)
    BY <1>1
  <2> QED BY <1>1, <2>1
<1>4. T' = T /\ PicturePixels(request)' = PicturePixels(request) /\ (Ready' = Ready)
  BY <1>1, SameTiles
<1> HIDE DEF T, area, with
<1>5. CallState'
  <2>1. remaining' \in 0 .. Len(order')
    BY <1>1
  <2>2. Ready'
    BY <1>1, <1>4 DEF CallInv, CallState
  <2>3. /\ groups \in Seq(SUBSET T) /\ before \in Seq(T)
        /\ DOMAIN picture = PicturePixels(request)
        /\ \A pixel \in DOMAIN picture : picture[pixel] \in T \cup {Background}
    BY <1>1 DEF CallInv, CallState, T
  <2> QED BY <1>1, <1>3, <1>4, <2>1, <2>2, <2>3 DEF CallState, T
<1>6. NothingEmptyIsPending'
  BY <1>1, FS_EmptySet DEF CallInv, NothingEmptyIsPending
<1>7. CountsCovered'
  <2>1. CASE pc' = "look"
    <3>1. LookedAt' = LookedAt \cup {tile}
      BY <1>1, <2>1, OneMoreLookedAt
    <3>2. CoveredByTiles(LookedAt)' = with
      BY <1>1, <3>1 DEF CoveredByTiles, with, BoxOf
    <3>3. Cardinality(PixelsOf(request.roi) \cap CoveredByTiles(LookedAt))' = area
      BY <1>1, <3>2 DEF area, PixelsOf
    <3> QED BY <1>1, <1>2, <2>1, <3>3 DEF CountsCovered
  <2>2. CASE pc' = "paint"
    BY <1>1, <1>2, <2>2 DEF CountsCovered
  <2> QED BY <1>1, <2>1, <2>2
<1> QED BY <1>5, <1>6, <1>7 DEF CallInv

LEMMA PaintKeepsCall ==
  ASSUME IInv, CallInv, Paint
  PROVE  CallInv'
<1>1. /\ UNCHANGED <<subBlks, loading, recreating, splitters, pending, pc,
                     request, groups, before, order, remaining, coveredPixels>>
      /\ pc = "paint" /\ visible # <<>>
      /\ picture' = [pixel \in DOMAIN picture |->
                       IF Shows(pixel, Head(visible))
                       THEN Head(visible) ELSE picture[pixel]]
      /\ visible' = Tail(visible)
  BY DEF Paint, directoryVars, coverageVars
<1> DEFINE T == TilesOf(request)
<1>2. /\ Ready /\ request \in Requests /\ groups \in Seq(SUBSET T)
      /\ before \in Seq(T) /\ order \in Seq(T) /\ visible \in Seq(T)
      /\ remaining \in 0 .. Len(order) /\ remaining = 0
      /\ DOMAIN picture = PicturePixels(request)
      /\ \A pixel \in DOMAIN picture : picture[pixel] \in T \cup {Background}
  BY <1>1 DEF CallInv, CallState
<1>3. T' = T /\ PicturePixels(request)' = PicturePixels(request) /\ Ready'
  BY <1>1, <1>2, SameTiles
<1> HIDE DEF T
<1>4. Head(visible) \in T /\ Tail(visible) \in Seq(T)
  BY <1>1, <1>2
<1>5. /\ DOMAIN picture' = PicturePixels(request)
      /\ \A pixel \in DOMAIN picture' : picture'[pixel] \in T \cup {Background}
  BY <1>1, <1>2, <1>4
<1>6. CallState'
  BY <1>1, <1>2, <1>3, <1>4, <1>5 DEF CallState, T
<1>7. NothingEmptyIsPending' /\ CountsCovered'
  BY <1>1 DEF CallInv, NothingEmptyIsPending, CountsCovered
<1> QED BY <1>6, <1>7 DEF CallInv

LEMMA ReturnKeepsCall ==
  ASSUME IInv, CallInv, PaintFails \/ GetReturns
  PROVE  CallInv'
<1>1. /\ pc' = "idle" /\ request' = NoRequest /\ groups' = <<>> /\ before' = <<>>
      /\ order' = <<>> /\ remaining' = 0 /\ coveredPixels' = 0
      /\ visible' = <<>> /\ picture' = <<>> /\ UNCHANGED <<splitters, pending>>
  BY DEF PaintFails, GetReturns, Return, coverageVars
<1>2. CallState'
  BY <1>1 DEF CallState
<1>3. NothingEmptyIsPending'
  BY <1>1 DEF CallInv, NothingEmptyIsPending
<1>4. CountsCovered'
  BY <1>1 DEF CountsCovered, NoRequest, Rect
<1> QED BY <1>2, <1>3, <1>4 DEF CallInv

LEMMA EditKeepsCall ==
  ASSUME IInv, CallInv,
         \/ pc = "idle" /\ DirectoryNext /\ UNCHANGED <<coverageVars, callVars>>
         \/ UNCHANGED vars
  PROVE  CallInv'
<1> USE DEF vars, coverageVars, callVars
<1>1. UNCHANGED <<splitters, pending, pc, request, groups, before, order,
                  remaining, coveredPixels, visible, picture>>
  OBVIOUS
<1>2. pc = "idle" \/ UNCHANGED <<subBlks, loading, recreating>>
  BY DEF directoryVars
<1>3. NothingEmptyIsPending'
  BY <1>1 DEF CallInv, NothingEmptyIsPending
<1>4. CASE pc = "idle"
  BY <1>1, <1>3, <1>4 DEF CallInv, CallState, CountsCovered
<1>5. CASE UNCHANGED <<subBlks, loading, recreating>>
  <2>1. CallState'
    BY <1>1, <1>5, SameTiles DEF CallInv, CallState
  <2>2. /\ LookedAt' = LookedAt /\ CoveredByTiles(LookedAt)' = CoveredByTiles(LookedAt)
        /\ PixelsOf(request.roi)' = PixelsOf(request.roi)
    BY <1>1, <1>5, SameTiles, SameLookedAt
  <2>3. CountsCovered'
    BY <1>1, <2>2 DEF CallInv, CountsCovered
  <2> QED BY <1>3, <2>1, <2>3 DEF CallInv
<1> QED BY <1>2, <1>4, <1>5

LEMMA CallStepInv == IInv /\ CallInv /\ [Next]_vars => CallInv'
<1> SUFFICES ASSUME IInv, CallInv, [Next]_vars PROVE CallInv'
  OBVIOUS
<1>1. CASE \E r \in Requests : GetTiles(r) \/ GetLevel(r) \/ GetScaled(r)
  BY <1>1, GetBegins, BeginKeepsCall DEF IInv
<1>2. CASE GetStep
  BY <1>2, NextGroupKeepsCall, LookKeepsCall, AddKeepsCall, JudgeKeepsCall,
     PaintKeepsCall, ReturnKeepsCall DEF GetStep
<1>3. CASE \/ pc = "idle" /\ DirectoryNext /\ UNCHANGED <<coverageVars, callVars>>
           \/ UNCHANGED vars
  BY <1>3, EditKeepsCall
<1> QED BY <1>1, <1>2, <1>3 DEF Next

LEMMA CallInvariance == Spec => [](IInv /\ CallInv)
<1>1. IInv /\ CallInv /\ [Next]_vars => (IInv /\ CallInv)'
  BY StepInv, CallStepInv
<1> QED BY <1>1, InitInv, CallInitInv, PTL DEF Spec

-----------------------------------------------------------------------------
(* The picture. *)

\* Of the tiles of s from a position on, those in `at' are painted over what is
\* below, and this is what shows then.
IsOnTop(at, below, s, first, shown) ==
  \/ shown = below /\ \A i \in first .. Len(s) : s[i] \notin at
  \/ \E i \in first .. Len(s) :
       /\ shown = s[i] /\ s[i] \in at
       /\ \A j \in i + 1 .. Len(s) : s[j] \notin at

\* The first tile is painted over what is below, and the others over it.
LEMMA TopFrom ==
  ASSUME NEW T, NEW s \in Seq(T), NEW k \in 1 .. Len(s), NEW at, NEW below,
         NEW shown
  PROVE  IsOnTop(at, IF s[k] \in at THEN s[k] ELSE below, s, k + 1, shown)
           <=> IsOnTop(at, below, s, k, shown)
<1>1. k .. Len(s) = {k} \cup (k + 1 .. Len(s)) /\ k \notin k + 1 .. Len(s)
  OBVIOUS
<1>2. CASE s[k] \in at
  BY <1>1, <1>2 DEF IsOnTop
<1>3. CASE s[k] \notin at
  BY <1>1, <1>3 DEF IsOnTop
<1> QED BY <1>2, <1>3

\* What shows of the tail of a sequence is what shows from the second on.
LEMMA TopOfTail ==
  ASSUME NEW T, NEW s \in Seq(T), s # <<>>, NEW at, NEW below, NEW shown
  PROVE  IsOnTop(at, below, Tail(s), 1, shown) <=> IsOnTop(at, below, s, 2, shown)
<1>1. /\ Len(s) \in Nat /\ Len(s) >= 1 /\ Len(Tail(s)) = Len(s) - 1
      /\ \A i \in 1 .. Len(s) - 1 : Tail(s)[i] = s[i + 1]
  OBVIOUS
<1> DEFINE t == Tail(s)
           n == Len(s)
<1>2. /\ n \in Nat /\ n >= 1 /\ Len(t) = n - 1
      /\ \A i \in 1 .. n - 1 : t[i] = s[i + 1]
  BY <1>1
<1> HIDE DEF t, n
<1>3. \A i \in 2 .. n : i - 1 \in 1 .. n - 1 /\ s[i] = t[i - 1]
  BY <1>2
<1>4. ASSUME IsOnTop(at, below, t, 1, shown)
      PROVE  IsOnTop(at, below, s, 2, shown)
  <2>1. CASE shown = below /\ \A i \in 1 .. n - 1 : t[i] \notin at
    BY <1>3, <2>1 DEF IsOnTop, n
  <2>2. CASE \E i \in 1 .. n - 1 : /\ shown = t[i] /\ t[i] \in at
                                   /\ \A j \in i + 1 .. n - 1 : t[j] \notin at
    <3>1. PICK i \in 1 .. n - 1 : /\ shown = t[i] /\ t[i] \in at
                                  /\ \A j \in i + 1 .. n - 1 : t[j] \notin at
      BY <2>2
    <3>2. i + 1 \in 2 .. n /\ shown = s[i + 1] /\ s[i + 1] \in at
      BY <1>2, <3>1
    <3>3. \A j \in (i + 1) + 1 .. n : s[j] \notin at
      <4> SUFFICES ASSUME NEW j \in (i + 1) + 1 .. n PROVE s[j] \notin at
        OBVIOUS
      <4>1. j - 1 \in i + 1 .. n - 1 /\ j \in 2 .. n
        BY <1>2
      <4> QED BY <1>3, <3>1, <4>1
    <3> QED BY <3>2, <3>3 DEF IsOnTop, n
  <2> QED BY <1>2, <1>4, <2>1, <2>2 DEF IsOnTop
<1>5. ASSUME IsOnTop(at, below, s, 2, shown)
      PROVE  IsOnTop(at, below, t, 1, shown)
  <2>1. CASE shown = below /\ \A i \in 2 .. n : s[i] \notin at
    <3>1. \A i \in 1 .. n - 1 : i + 1 \in 2 .. n /\ t[i] = s[i + 1]
      BY <1>2
    <3> QED BY <1>2, <2>1, <3>1 DEF IsOnTop
  <2>2. CASE \E i \in 2 .. n : /\ shown = s[i] /\ s[i] \in at
                               /\ \A j \in i + 1 .. n : s[j] \notin at
    <3>1. PICK i \in 2 .. n : /\ shown = s[i] /\ s[i] \in at
                              /\ \A j \in i + 1 .. n : s[j] \notin at
      BY <2>2
    <3>2. i - 1 \in 1 .. n - 1 /\ shown = t[i - 1] /\ t[i - 1] \in at
      BY <1>3, <3>1
    <3>3. \A j \in (i - 1) + 1 .. n - 1 : t[j] \notin at
      <4> SUFFICES ASSUME NEW j \in (i - 1) + 1 .. n - 1 PROVE t[j] \notin at
        OBVIOUS
      <4>1. j + 1 \in i + 1 .. n /\ j \in 1 .. n - 1
        BY <1>2
      <4> QED BY <1>2, <3>1, <4>1
    <3> QED BY <1>2, <3>2, <3>3 DEF IsOnTop
  <2> QED BY <1>5, <2>1, <2>2 DEF IsOnTop, n
<1> QED BY <1>4, <1>5 DEF t

\* One sequence is painted over the other.
LEMMA TopOfBoth ==
  ASSUME NEW T, NEW a \in Seq(T), NEW s \in Seq(T), NEW at, NEW below,
         NEW between, NEW shown,
         IsOnTop(at, below, a, 1, between), IsOnTop(at, between, s, 1, shown)
  PROVE  IsOnTop(at, below, a \o s, 1, shown)
<1> DEFINE c == a \o s
           m == Len(a)
           n == Len(s)
<1>1. /\ m \in Nat /\ n \in Nat /\ Len(c) = m + n
      /\ \A i \in 1 .. m : c[i] = a[i]
      /\ \A i \in m + 1 .. m + n : c[i] = s[i - m]
  OBVIOUS
<1> HIDE DEF c, m, n
<1>2. \A i \in m + 1 .. m + n : i - m \in 1 .. n
  BY <1>1
<1>3. \A i \in 1 .. m + n : i \in 1 .. m \/ i \in m + 1 .. m + n
  BY <1>1
<1>4. CASE \E i \in 1 .. n : /\ shown = s[i] /\ s[i] \in at
                             /\ \A j \in i + 1 .. n : s[j] \notin at
  <2>1. PICK i \in 1 .. n : /\ shown = s[i] /\ s[i] \in at
                            /\ \A j \in i + 1 .. n : s[j] \notin at
    BY <1>4
  <2>2. m + i \in 1 .. m + n /\ m + i \in m + 1 .. m + n /\ (m + i) - m = i
    BY <1>1
  <2>3. shown = c[m + i] /\ c[m + i] \in at
    BY <1>1, <2>1, <2>2
  <2>4. \A j \in (m + i) + 1 .. m + n : c[j] \notin at
    <3> SUFFICES ASSUME NEW j \in (m + i) + 1 .. m + n PROVE c[j] \notin at
      OBVIOUS
    <3>1. j - m \in i + 1 .. n /\ j \in m + 1 .. m + n
      BY <1>1
    <3> QED BY <1>1, <2>1, <3>1
  <2> QED BY <1>1, <2>2, <2>3, <2>4 DEF IsOnTop, c
<1>5. CASE shown = between /\ \A i \in 1 .. n : s[i] \notin at
  <2>1. \A i \in m + 1 .. m + n : c[i] \notin at
    BY <1>1, <1>2, <1>5
  <2>2. CASE between = below /\ \A i \in 1 .. m : a[i] \notin at
    <3>1. \A i \in 1 .. m + n : c[i] \notin at
      BY <1>1, <1>3, <2>1, <2>2
    <3> QED BY <1>1, <1>5, <2>2, <3>1 DEF IsOnTop, c
  <2>3. CASE \E i \in 1 .. m : /\ between = a[i] /\ a[i] \in at
                               /\ \A j \in i + 1 .. m : a[j] \notin at
    <3>1. PICK i \in 1 .. m : /\ between = a[i] /\ a[i] \in at
                              /\ \A j \in i + 1 .. m : a[j] \notin at
      BY <2>3
    <3>2. i \in 1 .. m + n /\ shown = c[i] /\ c[i] \in at
      BY <1>1, <1>5, <3>1
    <3>3. \A j \in i + 1 .. m + n : c[j] \notin at
      <4> SUFFICES ASSUME NEW j \in i + 1 .. m + n PROVE c[j] \notin at
        OBVIOUS
      <4>1. CASE j <= m
        <5>1. j \in i + 1 .. m /\ j \in 1 .. m
          BY <1>1, <4>1
        <5> QED BY <1>1, <3>1, <5>1
      <4>2. CASE j > m
        <5>1. j \in m + 1 .. m + n
          BY <1>1, <4>2
        <5> QED BY <2>1, <5>1
      <4> QED BY <1>1, <4>1, <4>2
    <3> QED BY <1>1, <3>2, <3>3 DEF IsOnTop, c
  <2> QED BY <2>2, <2>3 DEF IsOnTop, m
<1> QED BY <1>4, <1>5 DEF IsOnTop, n

\* The tiles that have a pixel at a position.
ShowingAt(pixel) == {key \in DOMAIN subBlks : Shows(pixel, key)}

LEMMA SameShowing ==
  ASSUME UNCHANGED <<subBlks, request>>
  PROVE  \A pixel : ShowingAt(pixel)' = ShowingAt(pixel)
<1>1. \A key : BoxOf(key)' = BoxOf(key)
  BY DEF BoxOf
<1>2. \A key : PlaceOf(key)' = PlaceOf(key)
  BY <1>1, Zenon DEF PlaceOf
<1>3. \A pixel, key : Shows(pixel, key)' = Shows(pixel, key)
  BY <1>2, Zenon DEF Shows
<1> QED BY <1>3, Zenon DEF ShowingAt

\* When the tiles that are still to be painted are, the picture will show the
\* top ones of all; and while tiles are looked at, those that are kept show the
\* same as all that were.
PictureInv ==
  /\ pc = "paint" =>
       \A pixel \in DOMAIN picture : \A shown :
         IsOnTop(ShowingAt(pixel), picture[pixel], visible, 1, shown)
           => IsOnTop(ShowingAt(pixel), Background, Composed, 1, shown)
  /\ pc \in {"look", "add"} =>
       \A pixel \in DOMAIN picture :
         /\ IsOnTop(ShowingAt(pixel), Background, before, 1, picture[pixel])
         /\ \A below, shown :
              IsOnTop(ShowingAt(pixel), below, visible, 1, shown)
                => IsOnTop(ShowingAt(pixel), below, order, remaining + 1, shown)

LEMMA TopOfNone ==
  ASSUME NEW at, NEW below, NEW shown, NEW T, NEW s \in Seq(T)
  PROVE  IsOnTop(at, below, s, Len(s) + 1, shown) <=> shown = below
<1>1. Len(s) + 1 .. Len(s) = {}
  OBVIOUS
<1> QED BY <1>1 DEF IsOnTop

\* Where visibility is checked, a tile shows at a pixel of the region if it
\* covers it.
LEMMA ShowingMeansCovering ==
  ASSUME IInv, CallInv, pc # "idle", request.check, NEW pixel \in DOMAIN picture
  PROVE  /\ pixel \in PixelsOf(request.roi)
         /\ \A key \in DOMAIN subBlks :
              key \in ShowingAt(pixel) <=> pixel \in PixelsOf(BoxOf(key))
<1>1. request \in Requests /\ DOMAIN picture = PicturePixels(request)
  BY DEF CallInv, CallState
<1>2. request.accessor # "level" /\ request.roi \in Rectangles
  BY <1>1, AccessorAssumption
<1>3. pixel \in PixelsOf(request.roi)
  BY <1>1, <1>2 DEF PicturePixels
<1>4. PixelsOf(request.roi) \subseteq Int \X Int
  BY <1>2, PixelsAreInside
<1>5. PICK px \in Int, py \in Int : pixel = <<px, py>>
  BY <1>3, <1>4
<1>6. ASSUME NEW key \in DOMAIN subBlks
      PROVE  key \in ShowingAt(pixel) <=> pixel \in PixelsOf(BoxOf(key))
  <2>1. BoxOf(key) \in Rectangles
    BY BoxesAreRectangles DEF IInv
  <2>2. PlaceOf(key) = BoxOf(key)
    BY <1>2 DEF PlaceOf
  <2>3. pixel \in PixelsOf(BoxOf(key)) <=> Inside(px, py, BoxOf(key))
    BY <1>5, <2>1, PixelsAreInside, Zenon
  <2>4. pixel[1] = px /\ pixel[2] = py
    BY <1>5
  <2> QED BY <2>2, <2>3, <2>4 DEF ShowingAt, Shows
<1> QED BY <1>3, <1>6

LEMMA PictureInitInv == Init => PictureInv
BY DEF Init, PictureInv

LEMMA BeginKeepsPicture ==
  ASSUME IInv, CallInv, NEW r, NEW gs, Begin(r, gs)
  PROVE  PictureInv'
<1>1. /\ pc' = "paint" /\ before' = <<>> /\ order' = <<>> /\ visible' = <<>>
      /\ picture' = [pixel \in PicturePixels(r) |-> Background]
  BY DEF Begin, CallInv, CallState
<1>2. Composed' = <<>>
  BY <1>1 DEF Composed
<1> QED BY <1>1, <1>2 DEF PictureInv

LEMMA NextGroupKeepsPicture ==
  ASSUME IInv, CallInv, PictureInv, NextGroup
  PROVE  PictureInv'
<1>1. /\ UNCHANGED <<subBlks, request, picture>>
      /\ pc = "paint" /\ visible = <<>> /\ before' = before \o order
  BY DEF NextGroup, directoryVars
<1>2. PICK s \in Sortings(Head(groups), request) :
        /\ order' = s
        /\ IF request.check /\ s # <<>>
           THEN pc' = "look" /\ remaining' = Len(s) /\ UNCHANGED visible
           ELSE visible' = s /\ UNCHANGED <<pc, remaining>>
  BY DEF NextGroup
<1> DEFINE T == TilesOf(request)
<1>3. /\ groups \in Seq(SUBSET T) /\ groups # <<>>
      /\ before \in Seq(T) /\ order \in Seq(T)
  BY <1>1 DEF CallInv, CallState, NextGroup
<1>4. s \in Seq(T)
  <2>1. T \subseteq DOMAIN subBlks
    BY DEF TilesOf
  <2>2. Head(groups) \subseteq T
    BY <1>3
  <2>3. s \in Seq(Head(groups))
    BY <2>1, <2>2, SortingsAreOrders DEF IInv
  <2> HIDE DEF T
  <2> QED BY <2>2, <2>3
<1> HIDE DEF T
<1>5. before \o order \in Seq(T)
  BY <1>3
<1>6. ASSUME NEW pixel \in DOMAIN picture
      PROVE  IsOnTop(ShowingAt(pixel), Background, before \o order, 1, picture[pixel])
  <2>1. IsOnTop(ShowingAt(pixel), picture[pixel], visible, 1, picture[pixel])
    BY <1>1 DEF IsOnTop
  <2> QED BY <1>1, <2>1 DEF PictureInv, Composed
<1>7. \A pixel : ShowingAt(pixel)' = ShowingAt(pixel)
  BY <1>1, SameShowing
<1>8. CASE request.check /\ s # <<>>
  <2>1. /\ pc' = "look" /\ remaining' = Len(s) /\ order' = s /\ visible' = <<>>
        /\ before' = before \o order /\ picture' = picture
    BY <1>1, <1>2, <1>8
  <2>2. ASSUME NEW at, NEW below, NEW shown
        PROVE  IsOnTop(at, below, <<>>, 1, shown)
                 => IsOnTop(at, below, s, Len(s) + 1, shown)
    <3>1. <<>> \in Seq(T) /\ Len(<<>>) + 1 = 1
      OBVIOUS
    <3>2. IsOnTop(at, below, <<>>, 1, shown) => shown = below
      BY DEF IsOnTop
    <3> QED BY <1>4, <3>2, TopOfNone
  <2> QED BY <1>6, <1>7, <2>1, <2>2 DEF PictureInv
<1>9. CASE ~(request.check /\ s # <<>>)
  <2>1. /\ pc' = "paint" /\ visible' = s /\ picture' = picture
        /\ Composed' = (before \o order) \o s
    BY <1>1, <1>2, <1>9 DEF Composed
  <2>2. ASSUME NEW pixel \in DOMAIN picture, NEW shown,
               IsOnTop(ShowingAt(pixel), picture[pixel], s, 1, shown)
        PROVE  IsOnTop(ShowingAt(pixel), Background, (before \o order) \o s, 1,
                       shown)
    BY <1>4, <1>5, <1>6, <2>2, TopOfBoth
  <2> QED BY <1>7, <2>1, <2>2 DEF PictureInv
<1> QED BY <1>8, <1>9

LEMMA LookKeepsPicture ==
  ASSUME PictureInv, Look \/ Add
  PROVE  PictureInv'
<1>1. /\ UNCHANGED <<subBlks, request, before, order, remaining, visible, picture>>
      /\ pc \in {"look", "add"} /\ pc' = "add"
  BY DEF Look, Add, directoryVars, callVars
<1>2. \A pixel : ShowingAt(pixel)' = ShowingAt(pixel)
  BY <1>1, SameShowing
<1> QED BY <1>1, <1>2 DEF PictureInv

\* A tile that covers no more of the region is hidden by those above it, and
\* when all is covered, so are all that are left.
LEMMA WhatJudgeLeavesOut ==
  ASSUME IInv, CallInv, Judge, NEW pixel \in DOMAIN picture
  PROVE  /\ visible' = visible => \/ order[remaining] \notin ShowingAt(pixel)
                                  \/ \E key \in LookedAt : key \in ShowingAt(pixel)
         /\ pc' = "paint" /\ remaining # 1 =>
              \E key \in LookedAt \cup {order[remaining]} : key \in ShowingAt(pixel)
<1> DEFINE tile == order[remaining]
           R == PixelsOf(request.roi)
           C == CoveredByTiles(LookedAt)
           with == CoveredByTiles(LookedAt \cup {tile})
<1>1. /\ pc = "add" /\ request \in Requests /\ request.check
      /\ order \in Seq(TilesOf(request)) /\ remaining \in 1 .. Len(order)
      /\ visible \in Seq(TilesOf(request))
      /\ coveredPixels = Cardinality(R \cap C)
      /\ visible' = IF Cardinality(R \cap with) > coveredPixels
                    THEN <<tile>> \o visible ELSE visible
      /\ pc' = "paint" =>
           Cardinality(R \cap with) = request.roi.w * request.roi.h \/ remaining = 1
  <2> HIDE DEF tile, R, C, with
  <2> QED BY WhatJudgeDoes DEF tile, R, C, with
<1>2. /\ pixel \in R
      /\ \A key \in DOMAIN subBlks :
           key \in ShowingAt(pixel) <=> pixel \in PixelsOf(BoxOf(key))
  BY <1>1, ShowingMeansCovering
<1>3. LookedAt \cup {tile} \subseteq DOMAIN subBlks
  <2>1. \A i \in 1 .. Len(order) : order[i] \in DOMAIN subBlks
    BY <1>1 DEF TilesOf
  <2> QED BY <1>1, <2>1 DEF LookedAt
<1>4. /\ pixel \in C <=> \E key \in LookedAt : key \in ShowingAt(pixel)
      /\ pixel \in with <=> \E key \in LookedAt \cup {tile} : key \in ShowingAt(pixel)
  <2> HIDE DEF tile
  <2> QED BY <1>2, <1>3 DEF CoveredByTiles
<1>5. C \subseteq with
  BY DEF CoveredByTiles
<1>6. /\ IsFiniteSet(R \cap with)
      /\ Cardinality(R \cap with) = request.roi.w * request.roi.h => R \subseteq with
  <2> HIDE DEF with
  <2> QED BY <1>1, RegionIsCounted
<1>7. ASSUME visible' = visible PROVE R \cap C = R \cap with
  <2>1. ~(Cardinality(R \cap with) > coveredPixels)
    <3>1. <<tile>> \o visible # visible
      <4> HIDE DEF tile
      <4>1. Len(<<tile>> \o visible) = 1 + Len(visible) /\ Len(visible) \in Nat
        BY <1>1
      <4> QED BY <4>1
    <3> HIDE DEF tile, with
    <3> QED BY <1>1, <1>7, <3>1
  <2> DEFINE A == R \cap C
             B == R \cap with
  <2>2. A \in SUBSET B /\ IsFiniteSet(B)
    BY <1>5, <1>6
  <2>3. ~(Cardinality(B) > Cardinality(A))
    BY <1>1, <2>1
  <2> HIDE DEF A, B
  <2>4. /\ IsFiniteSet(A) /\ Cardinality(A) <= Cardinality(B)
        /\ Cardinality(B) = Cardinality(A) => B = A
    BY <2>2, FS_Subset
  <2>5. Cardinality(A) \in Nat /\ Cardinality(B) \in Nat
    BY <2>2, <2>4, FS_CardinalityType
  <2>6. A = B
    BY <2>3, <2>4, <2>5
  <2> QED BY <2>6 DEF A, B
<1> HIDE DEF R, C, with
<1>8. visible' = visible => \/ tile \notin ShowingAt(pixel)
                            \/ \E key \in LookedAt : key \in ShowingAt(pixel)
  BY <1>2, <1>4, <1>7
<1>9. pc' = "paint" /\ remaining # 1 =>
        \E key \in LookedAt \cup {tile} : key \in ShowingAt(pixel)
  BY <1>1, <1>2, <1>4, <1>6
<1> QED BY <1>8, <1>9

LEMMA JudgeKeepsPicture ==
  ASSUME IInv, CallInv, PictureInv, Judge
  PROVE  PictureInv'
<1> DEFINE tile == order[remaining]
           T == TilesOf(request)
           with == CoveredByTiles(LookedAt \cup {tile})
           area == Cardinality(PixelsOf(request.roi) \cap with)
<1>1. /\ UNCHANGED <<subBlks, request, before, order, picture>>
      /\ pc = "add" /\ pc' \in {"look", "paint"}
      /\ order \in Seq(T) /\ remaining \in 1 .. Len(order)
      /\ tile \in T /\ visible \in Seq(T)
      /\ visible' = IF area > coveredPixels THEN <<tile>> \o visible ELSE visible
      /\ pc' = "look" => remaining' = remaining - 1
  BY WhatJudgeDoes
<1>2. \A pixel : ShowingAt(pixel)' = ShowingAt(pixel)
  BY <1>1, SameShowing
<1> HIDE DEF T, with, area
<1>3. visible' = <<tile>> \o visible \/ visible' = visible
  BY <1>1
<1>4. before \in Seq(T)
  BY <1>1 DEF CallInv, CallState, T
<1>5. ASSUME NEW pixel \in DOMAIN picture
      PROVE  /\ IsOnTop(ShowingAt(pixel), Background, before, 1, picture[pixel])
             /\ \A below, shown :
                  IsOnTop(ShowingAt(pixel), below, visible, 1, shown)
                    => IsOnTop(ShowingAt(pixel), below, order, remaining + 1, shown)
  BY <1>1 DEF PictureInv
<1>6. ASSUME NEW pixel \in DOMAIN picture, NEW below, NEW shown,
             IsOnTop(ShowingAt(pixel), below, visible', 1, shown)
      PROVE  IsOnTop(ShowingAt(pixel), below, order, remaining, shown)
  <2> DEFINE at == ShowingAt(pixel)
             over == IF tile \in at THEN tile ELSE below
  <2>1. CASE visible' = <<tile>> \o visible
    <3> DEFINE v == visible'
    <3>1. v \in Seq(T) /\ v # <<>> /\ v[1] = tile /\ Tail(v) = visible
          /\ 1 \in 1 .. Len(v)
      <4>1. ASSUME NEW w \in Seq(T), NEW t \in T
            PROVE  /\ <<t>> \o w \in Seq(T) /\ <<t>> \o w # <<>>
                   /\ (<<t>> \o w)[1] = t /\ Tail(<<t>> \o w) = w
                   /\ 1 \in 1 .. Len(<<t>> \o w)
        <5>1. Len(<<t>> \o w) = 1 + Len(w) /\ Len(w) \in Nat
          OBVIOUS
        <5> QED BY <5>1
      <4> HIDE DEF tile
      <4>2. v = <<tile>> \o visible /\ tile \in T /\ visible \in Seq(T)
        BY <1>1, <2>1
      <4> HIDE DEF v
      <4> QED BY <4>1, <4>2
    <3> HIDE DEF v, at
    <3>2. IsOnTop(at, over, v, 1 + 1, shown)
      <4>1. IsOnTop(at, below, v, 1, shown)
        BY <1>6 DEF v, at
      <4>2. IsOnTop(at, IF v[1] \in at THEN v[1] ELSE below, v, 1 + 1, shown)
        BY <3>1, <4>1, TopFrom
      <4> QED BY <3>1, <4>2
    <3> HIDE DEF over
    <3>3. IsOnTop(at, over, Tail(v), 1, shown)
      BY <3>1, <3>2, TopOfTail
    <3>4. IsOnTop(at, over, order, remaining + 1, shown)
      BY <1>5, <3>1, <3>3 DEF at
    <3>5. IsOnTop(at, IF order[remaining] \in at THEN order[remaining] ELSE below,
                  order, remaining + 1, shown)
      BY <3>4 DEF over, tile
    <3> QED BY <1>1, <3>5, TopFrom DEF at
  <2>2. CASE visible' = visible
    <3> HIDE DEF at
    <3>1. IsOnTop(at, below, order, remaining + 1, shown)
      BY <1>5, <1>6, <2>2 DEF at
    <3>2. tile \in at => \E i \in remaining + 1 .. Len(order) : order[i] \in at
      <4>1. tile \notin at \/ \E key \in LookedAt : key \in at
        BY <2>2, WhatJudgeLeavesOut DEF at
      <4> QED BY <4>1 DEF LookedAt
    <3>3. remaining .. Len(order) = {remaining} \cup (remaining + 1 .. Len(order))
      BY <1>1
    <3>4. CASE shown = below
               /\ \A i \in remaining + 1 .. Len(order) : order[i] \notin at
      BY <3>2, <3>3, <3>4 DEF IsOnTop, at
    <3>5. CASE \E i \in remaining + 1 .. Len(order) :
                 /\ shown = order[i] /\ order[i] \in at
                 /\ \A j \in i + 1 .. Len(order) : order[j] \notin at
      BY <3>3, <3>5 DEF IsOnTop, at
    <3> QED BY <3>1, <3>4, <3>5 DEF IsOnTop
  <2> QED BY <1>3, <2>1, <2>2
<1>7. CASE pc' = "look"
  <2>1. remaining' + 1 = remaining
    BY <1>1, <1>7
  <2> QED BY <1>1, <1>2, <1>5, <1>6, <1>7, <2>1 DEF PictureInv
<1>8. CASE pc' = "paint"
  <2>1. ASSUME NEW pixel \in DOMAIN picture, NEW shown,
               IsOnTop(ShowingAt(pixel), picture[pixel], visible', 1, shown)
        PROVE  IsOnTop(ShowingAt(pixel), Background, before \o order, 1, shown)
    <3> DEFINE at == ShowingAt(pixel)
               below == picture[pixel]
    <3>1. IsOnTop(at, below, order, remaining, shown)
      BY <1>6, <2>1
    <3> HIDE DEF at, below
    <3>2. IsOnTop(at, below, order, 1, shown)
      <4>1. CASE remaining = 1
        BY <3>1, <4>1
      <4>2. CASE remaining # 1
        <5>1. \E key \in LookedAt \cup {tile} : key \in at
          BY <1>8, <4>2, WhatJudgeLeavesOut DEF at
        <5>2. \E i \in remaining .. Len(order) : order[i] \in at
          BY <1>1, <5>1 DEF LookedAt
        <5>3. PICK i \in remaining .. Len(order) :
                /\ shown = order[i] /\ order[i] \in at
                /\ \A j \in i + 1 .. Len(order) : order[j] \notin at
          BY <3>1, <5>2 DEF IsOnTop
        <5>4. i \in 1 .. Len(order)
          BY <1>1
        <5> QED BY <5>3, <5>4 DEF IsOnTop
      <4> QED BY <4>1, <4>2
    <3>3. IsOnTop(at, Background, before, 1, below)
      BY <1>5 DEF at, below
    <3> QED BY <1>1, <1>4, <3>2, <3>3, TopOfBoth DEF at
  <2>2. Composed' = before \o order
    BY <1>1 DEF Composed
  <2> QED BY <1>1, <1>2, <1>8, <2>1, <2>2 DEF PictureInv
<1> QED BY <1>1, <1>7, <1>8

LEMMA PaintKeepsPicture ==
  ASSUME IInv, CallInv, PictureInv, Paint
  PROVE  PictureInv'
<1>1. /\ UNCHANGED <<subBlks, request, before, order, pc>>
      /\ pc = "paint" /\ visible # <<>>
      /\ picture' = [pixel \in DOMAIN picture |->
                       IF Shows(pixel, Head(visible))
                       THEN Head(visible) ELSE picture[pixel]]
      /\ visible' = Tail(visible)
  BY DEF Paint, directoryVars
<1> DEFINE T == TilesOf(request)
<1>2. visible \in Seq(T)
  BY <1>1 DEF CallInv, CallState
<1>3. \A pixel : ShowingAt(pixel)' = ShowingAt(pixel)
  BY <1>1, SameShowing
<1>4. Composed' = Composed
  BY <1>1 DEF Composed
<1> DEFINE s == visible
<1>5. /\ s \in Seq(T) /\ s # <<>> /\ Head(s) = s[1] /\ 1 \in 1 .. Len(s)
      /\ s[1] \in T
  <2> HIDE DEF T
  <2> QED BY <1>1, <1>2
<1>6. \A pixel : Shows(pixel, s[1]) <=> s[1] \in ShowingAt(pixel)
  BY <1>5 DEF ShowingAt, TilesOf
<1>7. /\ DOMAIN picture' = DOMAIN picture
      /\ \A pixel \in DOMAIN picture :
           picture'[pixel] = IF s[1] \in ShowingAt(pixel)
                             THEN s[1] ELSE picture[pixel]
  BY <1>1, <1>5, <1>6
<1> HIDE DEF s, T
<1>8. ASSUME NEW pixel \in DOMAIN picture, NEW shown,
             IsOnTop(ShowingAt(pixel), picture'[pixel], Tail(s), 1, shown)
      PROVE  IsOnTop(ShowingAt(pixel), Background, Composed, 1, shown)
  <2> DEFINE at == ShowingAt(pixel)
             below == picture[pixel]
             over == picture'[pixel]
  <2>1. over = IF s[1] \in at THEN s[1] ELSE below
    BY <1>7
  <2>2. IsOnTop(at, over, Tail(s), 1, shown)
    BY <1>8
  <2> HIDE DEF at, below, over
  <2>3. IsOnTop(at, over, s, 2, shown)
    BY <1>5, <2>2, TopOfTail
  <2>4. IsOnTop(at, IF s[1] \in at THEN s[1] ELSE below, s, 1 + 1, shown)
    BY <2>1, <2>3
  <2>5. IsOnTop(at, below, s, 1, shown)
    BY <1>5, <2>4, TopFrom
  <2> QED BY <1>1, <2>5 DEF PictureInv, at, below, s
<1> QED BY <1>1, <1>3, <1>4, <1>7, <1>8 DEF PictureInv, s

LEMMA EditKeepsPicture ==
  ASSUME PictureInv,
         \/ PaintFails \/ GetReturns
         \/ pc = "idle" /\ DirectoryNext /\ UNCHANGED <<coverageVars, callVars>>
         \/ UNCHANGED vars
  PROVE  PictureInv'
<1>1. CASE pc' = "idle"
  BY <1>1 DEF PictureInv
<1>2. CASE UNCHANGED vars
  <2>1. UNCHANGED <<subBlks, request, pc, before, order, remaining, visible, picture>>
    BY <1>2 DEF vars, directoryVars, callVars
  <2>2. \A pixel : ShowingAt(pixel)' = ShowingAt(pixel)
    BY <2>1, SameShowing
  <2>3. Composed' = Composed
    BY <2>1 DEF Composed
  <2> QED BY <2>1, <2>2, <2>3 DEF PictureInv
<1> QED BY <1>1, <1>2 DEF PaintFails, GetReturns, Return, callVars

LEMMA PictureStepInv == IInv /\ CallInv /\ PictureInv /\ [Next]_vars => PictureInv'
<1> SUFFICES ASSUME IInv, CallInv, PictureInv, [Next]_vars PROVE PictureInv'
  OBVIOUS
<1>1. CASE \E r \in Requests : GetTiles(r) \/ GetLevel(r) \/ GetScaled(r)
  BY <1>1, GetBegins, BeginKeepsPicture DEF IInv
<1>2. CASE GetStep
  BY <1>2, NextGroupKeepsPicture, LookKeepsPicture, JudgeKeepsPicture,
     PaintKeepsPicture, EditKeepsPicture DEF GetStep
<1>3. CASE \/ pc = "idle" /\ DirectoryNext /\ UNCHANGED <<coverageVars, callVars>>
           \/ UNCHANGED vars
  BY <1>3, EditKeepsPicture
<1> QED BY <1>1, <1>2, <1>3 DEF Next

-----------------------------------------------------------------------------
(* The order of a group. *)

OrderInv ==
  pc # "idle" =>
    \A i, j \in 1 .. Len(order) : i < j => MayPrecede(order[i], order[j], request)

LEMMA OrderStepInv == IInv /\ CallInv /\ OrderInv /\ [Next]_vars => OrderInv'
<1> SUFFICES ASSUME IInv, CallInv, OrderInv, [Next]_vars PROVE OrderInv'
  OBVIOUS
<1>1. CASE pc' = "idle"
  BY <1>1 DEF OrderInv
<1>2. CASE order' = <<>>
  BY <1>2 DEF OrderInv
<1>3. CASE pc # "idle" /\ UNCHANGED <<subBlks, request, order>>
  <2>1. \A a, b, r : MayPrecede(a, b, r)' = MayPrecede(a, b, r)
    <3>1. \A a : SortKey(a)' = SortKey(a) /\ ZoomOf(a)' = ZoomOf(a)
                 /\ IsOfLayer0(a)' = IsOfLayer0(a)
      BY <1>3 DEF SortKey, ZoomOf, IsOfLayer0
    <3> QED BY <3>1, Zenon DEF MayPrecede
  <2>2. PICK r : r = request
    OBVIOUS
  <2> QED BY <1>3, <2>1, <2>2 DEF OrderInv
<1>4. CASE NextGroup
  <2>1. PICK s \in Sortings(Head(groups), request) : order' = s
    BY <1>4 DEF NextGroup
  <2>2. /\ UNCHANGED <<subBlks, request>> /\ groups # <<>>
        /\ groups \in Seq(SUBSET TilesOf(request))
    BY <1>4 DEF NextGroup, directoryVars, CallInv, CallState
  <2>3. Head(groups) \subseteq DOMAIN subBlks
    <3> DEFINE T == TilesOf(request)
    <3>1. T \subseteq DOMAIN subBlks
      BY DEF TilesOf
    <3>2. groups \in Seq(SUBSET T)
      BY <2>2
    <3> HIDE DEF T
    <3>3. Head(groups) \subseteq T
      BY <2>2, <3>2
    <3> QED BY <3>1, <3>3
  <2>4. \A i, j \in 1 .. Len(s) : i < j => MayPrecede(s[i], s[j], request)
    BY <2>3, SortingsAreOrders DEF IInv
  <2>5. \A a, b, r : MayPrecede(a, b, r)' = MayPrecede(a, b, r)
    <3>1. \A a : SortKey(a)' = SortKey(a) /\ ZoomOf(a)' = ZoomOf(a)
                 /\ IsOfLayer0(a)' = IsOfLayer0(a)
      BY <2>2 DEF SortKey, ZoomOf, IsOfLayer0
    <3> QED BY <3>1, Zenon DEF MayPrecede
  <2>6. PICK r : r = request
    OBVIOUS
  <2> QED BY <2>1, <2>2, <2>4, <2>5, <2>6 DEF OrderInv
<1>5. \/ pc' = "idle" \/ order' = <<>> \/ NextGroup
      \/ pc # "idle" /\ UNCHANGED <<subBlks, request, order>>
  <2>1. CASE \E r \in Requests : GetTiles(r) \/ GetLevel(r) \/ GetScaled(r)
    <3>1. PICK r, gs : Begin(r, gs)
      BY <2>1, GetBegins DEF IInv
    <3> QED BY <3>1 DEF Begin, CallInv, CallState
  <2>2. CASE GetStep
    BY <2>2 DEF GetStep, Look, Add, Judge, Paint, PaintFails, GetReturns, Return,
      directoryVars, callVars
  <2>3. CASE \/ pc = "idle" /\ DirectoryNext /\ UNCHANGED <<coverageVars, callVars>>
             \/ UNCHANGED vars
    BY <2>3 DEF vars, callVars, directoryVars
  <2> QED BY <2>1, <2>2, <2>3 DEF Next
<1> QED BY <1>1, <1>2, <1>3, <1>4, <1>5

\* What MayPrecede says of the M-indices and zooms of two tiles.
LEMMA LaterIsAbove ==
  ASSUME DirectoryInv, NEW a \in DOMAIN subBlks, NEW b \in DOMAIN subBlks,
         NEW r, a = b \/ MayPrecede(a, b, r)
  PROVE  LET scaling == r.accessor = "scaling"
         IN  /\ r.sortByM /\ (scaling => IsOfLayer0(a) /\ IsOfLayer0(b))
                  => SortKey(a) <= SortKey(b)
             /\ scaling => AtLeast(ZoomOf(b), ZoomOf(a))
<1>1. ASSUME NEW key \in DOMAIN subBlks
      PROVE  /\ SortKey(key) \in Int
             /\ ZoomOf(key).num \in Nat /\ ZoomOf(key).den \in Nat
             /\ IsOfLayer0(key) => ZoomOf(key).num = ZoomOf(key).den
  <2>1. subBlks[key] \in Entries
    BY <1>1 DEF DirectoryInv, DirectoryTypeOK
  <2> DEFINE e == subBlks[key]
  <2>2. /\ e.x.size \in Nat /\ e.y.size \in Nat /\ e.mIndex \in Int
        /\ e.storedWidth \in Nat /\ e.storedHeight \in Nat
    BY <2>1, EntryType, DirectoryAssumption DEF Spans
  <2>3. SortKey(key) \in Int
    <3>1. IntMin \in Int
      BY DEF IntMin
    <3> QED BY <2>2, <3>1 DEF SortKey
  <2>4. ZoomOf(key).num \in Nat /\ ZoomOf(key).den \in Nat
    BY <2>2 DEF ZoomOf
  <2>5. IsOfLayer0(key) => ZoomOf(key).num = ZoomOf(key).den
    BY <2>2 DEF ZoomOf, IsOfLayer0, IsStoredSizeEqualLogicalSize
  <2> QED BY <2>3, <2>4, <2>5
<1> DEFINE ab == ZoomOf(a).num * ZoomOf(b).den
           ba == ZoomOf(b).num * ZoomOf(a).den
<1>2. ab \in Int /\ ba \in Int /\ SortKey(a) \in Int /\ SortKey(b) \in Int
  BY <1>1
<1>3. IsOfLayer0(a) /\ IsOfLayer0(b) => ab = ba
  BY <1>1
<1>4. (AtLeast(ZoomOf(a), ZoomOf(b)) <=> ab >= ba)
      /\ (AtLeast(ZoomOf(b), ZoomOf(a)) <=> ba >= ab)
  BY DEF AtLeast
<1> HIDE DEF ab, ba
<1>5. CASE a = b
  <2>1. ab = ba
    BY <1>5 DEF ab, ba
  <2> QED BY <1>2, <1>4, <1>5, <2>1
<1>6. CASE MayPrecede(a, b, r) /\ r.accessor # "scaling"
  <2>1. IF r.sortByM THEN SortKey(a) <= SortKey(b) ELSE a < b
    BY <1>6 DEF MayPrecede
  <2>2. r.sortByM => SortKey(a) <= SortKey(b)
    BY <2>1
  <2> QED BY <1>6, <2>2
<1>7. CASE MayPrecede(a, b, r) /\ r.accessor = "scaling"
  <2>1. CASE ~(ab >= ba)
    BY <1>2, <1>3, <1>4, <1>7, <2>1
  <2>2. CASE ab >= ba
    <3>1. /\ AtLeast(ZoomOf(b), ZoomOf(a))
          /\ r.sortByM => (IsOfLayer0(a) /\ IsOfLayer0(b) => SortKey(a) <= SortKey(b))
      BY <1>4, <1>7, <2>2 DEF MayPrecede
    <3> QED BY <1>7, <3>1
  <2> QED BY <2>1, <2>2
<1> QED BY <1>5, <1>6, <1>7

-----------------------------------------------------------------------------
(* The tiles that the scaling accessor composes. *)

KeysOf(s) == {s[i] : i \in DOMAIN s}

AllHaveScenesOrNone == \A k, l \in DOMAIN subBlks : HasScene(k) <=> HasScene(l)

InSceneOf(key, keys) ==
  {k \in keys : SceneOf(subBlks[k]) = SceneOf(subBlks[key])}

WantedBy(r) ==
  LET wanted == Subset(r.plane, r.roi, r.without)
  IN  {key \in wanted : key \in LayerAbove(InSceneOf(key, wanted), r.zoom)}

\* What is done, what is sorted and what is left are the tiles that are wanted.
WantedInv ==
  pc # "idle" /\ request.accessor = "scaling" /\ AllHaveScenesOrNone =>
    KeysOf(before) \cup KeysOf(order) \cup UNION KeysOf(groups) = WantedBy(request)

\* The scenes of the statistics are those of the entries, and the box of a scene
\* is around its tiles.
LEMMA ScenesAreInvolved ==
  ASSUME DirectoryInv, sbBlkStatisticsCurrent, NEW r \in Requests
  PROVE  /\ \A key \in Subset(r.plane, r.roi, r.without) :
              HasScene(key) =>
                SceneOf(subBlks[key]) \in DetermineInvolvedScenes(r)
         /\ \A s \in DetermineInvolvedScenes(r) :
              s \in Int /\ s \notin r.without
              /\ \E key \in DOMAIN subBlks : HasScene(key)
<1> DEFINE E == {subBlks[key] : key \in DOMAIN subBlks}
           boxes == statistics.sceneBoundingBoxes
<1>1. AreStatisticsOf(statistics, E)
  BY InvImpliesProperties DEF StatisticsAreOfTheEntries
<1>2. /\ DOMAIN boxes = {e.coordinate["S"] : e \in WithDimension(E, "S")}
      /\ \A s \in DOMAIN boxes : IsHull(boxes[s].box, InScene(E, s))
  BY <1>1 DEF AreStatisticsOf
<1>3. \A s \in DOMAIN boxes : boxes[s].box \in Boxes
  BY DEF DirectoryInv, StatisticsInv, StatisticsType
<1>4. \A key \in DOMAIN subBlks : subBlks[key] \in Entries
  BY DEF DirectoryInv, DirectoryTypeOK
<1>5. ASSUME NEW key \in Subset(r.plane, r.roi, r.without), HasScene(key)
      PROVE  SceneOf(subBlks[key]) \in DetermineInvolvedScenes(r)
  <2> DEFINE e == subBlks[key]
             s == e.coordinate["S"]
             box == boxes[s].box
             b == Rect(box.x.start, box.y.start, box.x.size, box.y.size)
  <2>1. /\ key \in DOMAIN subBlks /\ IntersectsWith(r.roi, BoxOf(key))
        /\ SceneOf(e) = s /\ s \notin r.without
    BY <1>5 DEF Subset, SceneOf, HasScene
  <2>2. e \in WithDimension(E, "S") /\ e \in InScene(E, s)
    BY <1>5, <2>1 DEF HasScene, WithDimension, InScene
  <2>3. s \in DOMAIN boxes
    BY <1>2, <2>2
  <2>4. IsHull(box, InScene(E, s)) /\ box \in Boxes
    BY <1>2, <1>3, <2>3
  <2>5. e.x \in Spans /\ e.y \in Spans /\ r.roi \in Rectangles
        /\ BoxOf(key) \in Rectangles
    BY <1>4, <2>1, EntryType, BoxesAreRectangles, AccessorAssumption
  <2>6. BoxOf(key) = Rect(e.x.start, e.y.start, e.x.size, e.y.size)
    BY DEF BoxOf
  <2> HIDE DEF e, s, box, E, boxes
  <2>7. /\ IsValidBox(box)
        /\ box.x.start <= e.x.start /\ box.y.start <= e.y.start
        /\ e.x.start + e.x.size <= box.x.start + box.x.size
        /\ e.y.start + e.y.size <= box.y.start + box.y.size
    BY <2>2, <2>4 DEF IsHull
  <2>8. b \in Rectangles
    BY <2>4, <2>7 DEF IsValidBox, Boxes, Rect, Rectangles
  <2>9. IntersectsWith(b, r.roi)
    <3>1. /\ r.roi.w > 0 /\ r.roi.h > 0 /\ e.x.size > 0 /\ e.y.size > 0
          /\ r.roi.x < e.x.start + e.x.size /\ e.x.start < Right(r.roi)
          /\ r.roi.y < e.y.start + e.y.size /\ e.y.start < Bottom(r.roi)
      BY <2>1, <2>5, <2>6, OverlapMeans DEF Rect, Right, Bottom
    <3>2. /\ b.x = box.x.start /\ b.y = box.y.start
          /\ b.w = box.x.size /\ b.h = box.y.size
          /\ Right(b) = box.x.start + box.x.size
          /\ Bottom(b) = box.y.start + box.y.size
      BY DEF Rect, Right, Bottom
    <3>3. /\ box.x.start \in Int /\ box.y.start \in Int
          /\ box.x.size \in Int /\ box.y.size \in Int
          /\ e.x.start \in Int /\ e.x.size \in Int
          /\ e.y.start \in Int /\ e.y.size \in Int
          /\ r.roi.x \in Int /\ r.roi.y \in Int
          /\ Right(r.roi) \in Int /\ Bottom(r.roi) \in Int
      BY <2>4, <2>5 DEF Boxes, Spans, Rectangles, Right, Bottom
    <3> HIDE DEF b
    <3> QED BY <2>5, <2>7, <2>8, <3>1, <3>2, <3>3, OverlapMeans
  <2> QED BY <2>1, <2>3, <2>9 DEF DetermineInvolvedScenes, box, boxes, e
<1>6. ASSUME NEW s \in DetermineInvolvedScenes(r)
      PROVE  s \in Int /\ s \notin r.without
             /\ \E key \in DOMAIN subBlks : HasScene(key)
  <2>1. s \in DOMAIN boxes /\ s \notin r.without
    BY DEF DetermineInvolvedScenes
  <2>2. PICK e \in WithDimension(E, "S") : s = e.coordinate["S"]
    BY <1>2, <2>1
  <2>3. PICK key \in DOMAIN subBlks : e = subBlks[key] /\ "S" \in DOMAIN e.coordinate
    BY <2>2 DEF WithDimension
  <2>4. s \in Int
    BY <1>4, <2>2, <2>3, EntryType
  <2> QED BY <2>1, <2>3, <2>4 DEF HasScene
<1> QED BY <1>5, <1>6

LEMMA KeysOfBoth ==
  ASSUME NEW T, NEW a \in Seq(T), NEW s \in Seq(T)
  PROVE  KeysOf(a \o s) = KeysOf(a) \cup KeysOf(s)
<1> DEFINE c == a \o s
           m == Len(a)
           n == Len(s)
<1>1. /\ m \in Nat /\ n \in Nat /\ DOMAIN c = 1 .. m + n
      /\ DOMAIN a = 1 .. m /\ DOMAIN s = 1 .. n
      /\ \A i \in 1 .. m : c[i] = a[i]
      /\ \A i \in m + 1 .. m + n : c[i] = s[i - m]
  OBVIOUS
<1> HIDE DEF c, m, n
<1>2. ASSUME NEW i \in 1 .. m + n
      PROVE  (\E j \in 1 .. m : c[i] = a[j]) \/ (\E j \in 1 .. n : c[i] = s[j])
  <2>1. CASE i <= m
    <3>1. i \in 1 .. m
      BY <1>1, <2>1
    <3> QED BY <1>1, <3>1
  <2>2. CASE ~(i <= m)
    <3>1. i \in m + 1 .. m + n /\ i - m \in 1 .. n
      BY <1>1, <2>2
    <3> QED BY <1>1, <3>1
  <2> QED BY <2>1, <2>2
<1>3. ASSUME NEW i \in 1 .. m PROVE \E j \in 1 .. m + n : c[j] = a[i]
  <2>1. i \in 1 .. m + n
    BY <1>1
  <2> QED BY <1>1, <2>1
<1>4. ASSUME NEW i \in 1 .. n PROVE \E j \in 1 .. m + n : c[j] = s[i]
  <2>1. m + i \in m + 1 .. m + n /\ m + i \in 1 .. m + n /\ (m + i) - m = i
    BY <1>1
  <2> QED BY <1>1, <2>1
<1>5. \A x : x \in KeysOf(c) <=> x \in KeysOf(a) \/ x \in KeysOf(s)
  <2>1. /\ \A x : x \in KeysOf(c) <=> \E i \in 1 .. m + n : x = c[i]
        /\ \A x : x \in KeysOf(a) <=> \E i \in 1 .. m : x = a[i]
        /\ \A x : x \in KeysOf(s) <=> \E i \in 1 .. n : x = s[i]
    BY <1>1, Zenon DEF KeysOf
  <2>2. ASSUME NEW x, x \in KeysOf(c) PROVE x \in KeysOf(a) \/ x \in KeysOf(s)
    BY <1>2, <2>1, <2>2, Zenon
  <2>3. ASSUME NEW x, x \in KeysOf(a) \/ x \in KeysOf(s) PROVE x \in KeysOf(c)
    <3>1. CASE x \in KeysOf(a)
      <4>1. PICK i \in 1 .. m : x = a[i]
        BY <2>1, <3>1
      <4> QED BY <1>3, <2>1, <4>1
    <3>2. CASE x \in KeysOf(s)
      <4>1. PICK i \in 1 .. n : x = s[i]
        BY <2>1, <3>2
      <4> QED BY <1>4, <2>1, <4>1
    <3> QED BY <2>3, <3>1, <3>2
  <2> QED BY <2>2, <2>3
<1> QED BY <1>5 DEF c

LEMMA KeysOfTail ==
  ASSUME NEW T, NEW s \in Seq(T), s # <<>>
  PROVE  KeysOf(s) = {Head(s)} \cup KeysOf(Tail(s))
<1> DEFINE n == Len(s)
           t == Tail(s)
<1>1. /\ n \in Nat /\ n >= 1 /\ DOMAIN s = 1 .. n /\ DOMAIN t = 1 .. n - 1
      /\ Head(s) = s[1]
      /\ \A i \in 1 .. n - 1 : t[i] = s[i + 1]
  OBVIOUS
<1> HIDE DEF n, t
<1>2. ASSUME NEW i \in 1 .. n PROVE s[i] = s[1] \/ \E j \in 1 .. n - 1 : s[i] = t[j]
  <2>1. CASE i = 1
    BY <2>1
  <2>2. CASE i # 1
    <3>1. i - 1 \in 1 .. n - 1 /\ (i - 1) + 1 = i
      BY <1>1, <2>2
    <3> QED BY <1>1, <3>1
  <2> QED BY <2>1, <2>2
<1>3. 1 \in 1 .. n /\ \A i \in 1 .. n - 1 : i + 1 \in 1 .. n
  BY <1>1
<1>4. /\ \A x : x \in KeysOf(s) <=> \E i \in 1 .. n : x = s[i]
      /\ \A x : x \in KeysOf(t) <=> \E i \in 1 .. n - 1 : x = t[i]
  BY <1>1, Zenon DEF KeysOf
<1>5. ASSUME NEW x \in KeysOf(s) PROVE x = s[1] \/ x \in KeysOf(t)
  BY <1>2, <1>4, Zenon
<1>6. ASSUME NEW x \in KeysOf(t) PROVE x \in KeysOf(s)
  <2>1. PICK i \in 1 .. n - 1 : x = t[i]
    BY <1>4
  <2>2. x = s[i + 1] /\ i + 1 \in 1 .. n
    BY <1>1, <1>3, <2>1
  <2> QED BY <1>4, <2>2, Zenon
<1>7. s[1] \in KeysOf(s)
  BY <1>3, <1>4, Zenon
<1>8. KeysOf(s) = {s[1]} \cup KeysOf(t)
  BY <1>5, <1>6, <1>7
<1> QED BY <1>1, <1>8 DEF t

LEMMA AscendingIsOnto ==
  ASSUME NEW S, IsFiniteSet(S), S \subseteq Int, NEW s \in Ascending(S)
  PROVE  /\ Cardinality(S) \in Nat /\ DOMAIN s = 1 .. Cardinality(S)
         /\ KeysOf(s) = S
<1> DEFINE n == Cardinality(S)
<1>1. n \in Nat
  BY FS_CardinalityType
<1>2. s \in [1 .. n -> S] /\ \A i, j \in 1 .. n : i < j => s[i] < s[j]
  BY DEF Ascending
<1> HIDE DEF n
<1>3. s \in Injection(1 .. n, S)
  <2>1. ASSUME NEW i \in 1 .. n, NEW j \in 1 .. n, s[i] = s[j] PROVE i = j
    <3>1. s[i] \in Int /\ s[j] \in Int /\ i \in Int /\ j \in Int
      <4>1. s[i] \in S /\ s[j] \in S
        BY <1>2
      <4>2. s[i] \in Int /\ s[j] \in Int
        BY <4>1, Zenon
      <4> QED BY <1>1, <4>2
    <3>2. ~(s[i] < s[j]) /\ ~(s[j] < s[i])
      BY <2>1, <3>1
    <3>3. ~(i < j) /\ ~(j < i)
      BY <1>2, <3>2
    <3> QED BY <3>1, <3>3
  <2>2. DOMAIN s = 1 .. n
    BY <1>2
  <2> QED BY <1>2, <2>1, <2>2 DEF Injection, IsInjective
<1>4. Cardinality(1 .. n) = n
  <2>1. Cardinality(1 .. n) = IF 1 > n THEN 0 ELSE n - 1 + 1
    BY <1>1, FS_Interval
  <2> QED BY <1>1, <2>1
<1>5. s \in Surjection(1 .. n, S)
  BY <1>3, <1>4, FS_Injection DEF n
<1> QED BY <1>1, <1>2, <1>5 DEF KeysOf, Surjection, n

\* The groups of the scaling accessor are the tiles that are wanted.
LEMMA GroupsAreWanted ==
  ASSUME DirectoryInv, NEW r \in Requests, GetScaled(r), AllHaveScenesOrNone
  PROVE  \E gs : Begin(r, gs) /\ UNION KeysOf(gs) = WantedBy(r)
<1> DEFINE scenes == DetermineInvolvedScenes(r)
           keys == Subset(r.plane, r.roi, {})
           wanted == Subset(r.plane, r.roi, r.without)
           OfScene(s) == {key \in keys : HasScene(key) /\ SceneOf(subBlks[key]) = s}
           allowed == {key \in keys : HasScene(key)
                                        => SceneOf(subBlks[key]) \in scenes}
<1>1. \A ks, zoom : LayerAbove(ks, zoom) \subseteq ks
  BY DEF LayerAbove
<1>2. sbBlkStatisticsCurrent
  BY DEF GetScaled, Begin
<1>3. /\ \A key \in wanted : HasScene(key) => SceneOf(subBlks[key]) \in scenes
      /\ \A s \in scenes : s \in Int /\ s \notin r.without
                           /\ \E key \in DOMAIN subBlks : HasScene(key)
  BY <1>2, ScenesAreInvolved
<1>4. IsFiniteSet(scenes)
  <2>1. scenes \subseteq DOMAIN statistics.sceneBoundingBoxes
    BY DEF DetermineInvolvedScenes
  <2> QED BY <1>2, <2>1, KeysAndScenesAreFinite, FS_Subset
<1>5. wanted = {key \in keys : HasScene(key) => SceneOf(subBlks[key]) \notin r.without}
  BY DEF Subset
<1>6. keys \subseteq DOMAIN subBlks
  BY DEF Subset
<1>7. WantedBy(r) = {key \in wanted : key \in LayerAbove(InSceneOf(key, wanted), r.zoom)}
  BY DEF WantedBy
<1>8. \/ Cardinality(scenes) <= 1 /\ Begin(r, <<LayerAbove(allowed, r.zoom)>>)
      \/ /\ ~(Cardinality(scenes) <= 1)
         /\ \E s \in Ascending(scenes) :
              Begin(r, [i \in DOMAIN s |-> LayerAbove(OfScene(s[i]), r.zoom)])
  <2> HIDE DEF scenes, keys
  <2> QED BY DEF GetScaled, scenes, keys
<1> HIDE DEF scenes, keys, wanted
<1>9. allowed = wanted
  <2>1. CASE \A key \in DOMAIN subBlks : ~HasScene(key)
    BY <1>5, <1>6, <2>1
  <2>2. CASE \A key \in DOMAIN subBlks : HasScene(key)
    BY <1>3, <1>5, <1>6, <2>2
  <2> QED BY <2>1, <2>2 DEF AllHaveScenesOrNone
<1>10. CASE Cardinality(scenes) <= 1 /\ Begin(r, <<LayerAbove(allowed, r.zoom)>>)
  <2>1. \A s, t \in scenes : s = t
    <3>1. Cardinality(scenes) \in Nat
      BY <1>4, FS_CardinalityType
    <3>2. Cardinality(scenes) = 0 \/ Cardinality(scenes) = 1
      BY <1>10, <3>1
    <3>3. scenes = {} \/ \E x : scenes = {x}
      BY <1>4, <3>2, FS_EmptySet, FS_Singleton
    <3> QED BY <3>3
  <2>2. \A k, l \in wanted : SceneOf(subBlks[k]) = SceneOf(subBlks[l])
    <3>1. wanted \subseteq DOMAIN subBlks
      BY <1>5, <1>6
    <3>2. CASE \A key \in DOMAIN subBlks : ~HasScene(key)
      <4>1. \A key \in wanted : SceneOf(subBlks[key]) = IntMax
        BY <3>1, <3>2 DEF SceneOf, HasScene
      <4> QED BY <4>1
    <3>3. CASE \A key \in DOMAIN subBlks : HasScene(key)
      BY <1>3, <2>1, <3>1, <3>3
    <3> QED BY <3>2, <3>3 DEF AllHaveScenesOrNone
  <2>3. \A key \in wanted : InSceneOf(key, wanted) = wanted
    BY <2>2 DEF InSceneOf
  <2>4. WantedBy(r) = LayerAbove(wanted, r.zoom)
    BY <1>1, <1>7, <2>3
  <2>5. UNION KeysOf(<<LayerAbove(allowed, r.zoom)>>) = LayerAbove(allowed, r.zoom)
    <3> DEFINE X == LayerAbove(allowed, r.zoom)
    <3> HIDE DEF X
    <3>1. KeysOf(<<X>>) = {X}
      BY DEF KeysOf
    <3> QED BY <3>1 DEF X
  <2> QED BY <1>9, <1>10, <2>4, <2>5
<1>11. CASE /\ ~(Cardinality(scenes) <= 1)
            /\ \E s \in Ascending(scenes) :
                 Begin(r, [i \in DOMAIN s |-> LayerAbove(OfScene(s[i]), r.zoom)])
  <2>1. PICK s \in Ascending(scenes) :
          Begin(r, [i \in DOMAIN s |-> LayerAbove(OfScene(s[i]), r.zoom)])
    BY <1>11
  <2>2. KeysOf(s) = scenes
    BY <1>3, <1>4, AscendingIsOnto
  <2>3. \A key \in DOMAIN subBlks : HasScene(key)
    <3>1. scenes # {}
      BY <1>11, FS_EmptySet
    <3> QED BY <1>3, <3>1 DEF AllHaveScenesOrNone
  <2>4. \A key \in wanted : OfScene(SceneOf(subBlks[key])) = InSceneOf(key, wanted)
    <3> SUFFICES ASSUME NEW key \in wanted, NEW k
                 PROVE  k \in OfScene(SceneOf(subBlks[key]))
                          <=> k \in InSceneOf(key, wanted)
      OBVIOUS
    <3>1. SceneOf(subBlks[key]) \in scenes
      BY <1>3, <1>5, <1>6, <2>3
    <3>2. SceneOf(subBlks[key]) \notin r.without
      BY <1>3, <3>1
    <3> QED BY <1>5, <1>6, <2>3, <3>2 DEF InSceneOf
  <2> DEFINE gs == [i \in DOMAIN s |-> LayerAbove(OfScene(s[i]), r.zoom)]
  <2>5. \A key : key \in UNION KeysOf(gs)
          <=> \E c \in scenes : key \in LayerAbove(OfScene(c), r.zoom)
    <3> HIDE DEF OfScene
    <3>1. \A key : key \in UNION KeysOf(gs)
            <=> \E i \in DOMAIN s : key \in LayerAbove(OfScene(s[i]), r.zoom)
      BY DEF KeysOf
    <3> HIDE DEF gs
    <3> QED BY <2>2, <3>1 DEF KeysOf
  <2>6. \A key : (\E c \in scenes : key \in LayerAbove(OfScene(c), r.zoom))
                   <=> key \in WantedBy(r)
    <3>1. ASSUME NEW key, NEW c \in scenes, key \in LayerAbove(OfScene(c), r.zoom)
          PROVE  key \in WantedBy(r)
      <4>1. key \in OfScene(c)
        BY <1>1, <3>1
      <4>2. key \in keys /\ SceneOf(subBlks[key]) = c
        BY <4>1
      <4>3. key \in wanted
        BY <1>3, <1>5, <4>2
      <4> HIDE DEF OfScene
      <4> QED BY <1>7, <2>4, <3>1, <4>2, <4>3
    <3>2. ASSUME NEW key \in WantedBy(r)
          PROVE  \E c \in scenes : key \in LayerAbove(OfScene(c), r.zoom)
      <4>1. key \in wanted /\ key \in LayerAbove(InSceneOf(key, wanted), r.zoom)
        BY <1>7
      <4>2. SceneOf(subBlks[key]) \in scenes
        BY <1>3, <1>5, <1>6, <2>3, <4>1
      <4> HIDE DEF OfScene
      <4> QED BY <2>4, <4>1, <4>2
    <3> QED BY <3>1, <3>2
  <2>7. UNION KeysOf(gs) = WantedBy(r)
    <3> HIDE DEF gs, OfScene
    <3> QED BY <2>5, <2>6
  <2> QED BY <2>1, <2>7
<1> QED BY <1>8, <1>10, <1>11

LEMMA WantedStepInv == IInv /\ CallInv /\ WantedInv /\ [Next]_vars => WantedInv'
<1> SUFFICES ASSUME IInv, CallInv, WantedInv, [Next]_vars,
                    pc' # "idle", request'.accessor = "scaling",
                    AllHaveScenesOrNone'
             PROVE  (KeysOf(before) \cup KeysOf(order) \cup UNION KeysOf(groups))'
                      = WantedBy(request)'
  BY DEF WantedInv
<1>1. UNCHANGED subBlks => WantedBy(request)' = WantedBy(request')
                           /\ AllHaveScenesOrNone
  <2> SUFFICES ASSUME UNCHANGED subBlks
               PROVE  WantedBy(request)' = WantedBy(request') /\ AllHaveScenesOrNone
    OBVIOUS
  <2>1. \A key : /\ BoxOf(key)' = BoxOf(key) /\ HasScene(key)' = HasScene(key)
                 /\ ZoomOf(key)' = ZoomOf(key)
    BY DEF BoxOf, HasScene, ZoomOf
  <2>2. \A ks, zoom : LayerAbove(ks, zoom)' = LayerAbove(ks, zoom)
    BY <2>1, Zenon DEF LayerAbove
  <2>3. \A plane, region, without :
          Subset(plane, region, without)' = Subset(plane, region, without)
    BY <2>1, Zenon DEF Subset
  <2>4. \A key, ks : InSceneOf(key, ks)' = InSceneOf(key, ks)
    BY Zenon DEF InSceneOf
  <2>5. \A r : WantedBy(r)' = WantedBy(r)
    BY <2>2, <2>3, <2>4, Zenon DEF WantedBy
  <2>6. AllHaveScenesOrNone
    BY <2>1 DEF AllHaveScenesOrNone
  <2>7. PICK q : q = request'
    OBVIOUS
  <2> QED BY <2>5, <2>6, <2>7
<1>2. CASE \E r \in Requests : GetTiles(r) \/ GetLevel(r) \/ GetScaled(r)
  <2>1. PICK r \in Requests : GetTiles(r) \/ GetLevel(r) \/ GetScaled(r)
    BY <1>2
  <2>2. UNCHANGED subBlks /\ request' = r
    BY <2>1, GetBegins DEF Begin, directoryVars, IInv
  <2>3. GetScaled(r)
    BY <2>1, <2>2 DEF GetTiles, GetLevel
  <2>4. PICK gs : Begin(r, gs) /\ UNION KeysOf(gs) = WantedBy(r)
    BY <1>1, <2>2, <2>3, GroupsAreWanted DEF IInv
  <2>5. before' = <<>> /\ order' = <<>> /\ groups' = gs
    BY <2>4 DEF Begin, CallInv, CallState
  <2>6. KeysOf(<<>>) = {}
    BY DEF KeysOf
  <2>7. (KeysOf(before) \cup KeysOf(order) \cup UNION KeysOf(groups))'
          = KeysOf(<<>>) \cup KeysOf(<<>>) \cup UNION KeysOf(gs)
    BY <2>5
  <2> QED BY <1>1, <2>2, <2>4, <2>6, <2>7
<1>3. CASE NextGroup
  <2>1. PICK s \in Sortings(Head(groups), request) : order' = s
    BY <1>3 DEF NextGroup
  <2>2. /\ UNCHANGED <<subBlks, request>> /\ pc = "paint" /\ groups # <<>>
        /\ groups' = Tail(groups) /\ before' = before \o order
    BY <1>3 DEF NextGroup, directoryVars
  <2> DEFINE T == TilesOf(request)
  <2>3. /\ groups \in Seq(SUBSET T) /\ before \in Seq(T) /\ order \in Seq(T)
    BY <2>2 DEF CallInv, CallState
  <2>4. T \subseteq DOMAIN subBlks
    BY DEF TilesOf
  <2> HIDE DEF T
  <2>5. Head(groups) \subseteq T
    BY <2>2, <2>3
  <2>6. s \in Seq(Head(groups)) /\ \A key \in Head(groups) :
                                    \E i \in 1 .. Len(s) : s[i] = key
    <3> DEFINE H == Head(groups)
    <3>1. H \subseteq DOMAIN subBlks /\ s \in Sortings(H, request)
      BY <2>4, <2>5
    <3> HIDE DEF H
    <3>2. s \in Seq(H) /\ \A key \in H : \E i \in 1 .. Len(s) : s[i] = key
      BY <3>1, SortingsAreOrders DEF IInv
    <3> QED BY <3>2 DEF H
  <2>7. KeysOf(s) = Head(groups)
    <3>1. DOMAIN s = 1 .. Len(s) /\ \A i \in 1 .. Len(s) : s[i] \in Head(groups)
      BY <2>6
    <3> QED BY <2>6, <3>1 DEF KeysOf
  <2>8. KeysOf(before \o order) = KeysOf(before) \cup KeysOf(order)
    BY <2>3, KeysOfBoth
  <2>9. UNION KeysOf(groups) = Head(groups) \cup UNION KeysOf(Tail(groups))
    <3>1. KeysOf(groups) = {Head(groups)} \cup KeysOf(Tail(groups))
      BY <2>2, <2>3, KeysOfTail
    <3> QED BY <3>1
  <2>10. KeysOf(before) \cup KeysOf(order) \cup UNION KeysOf(groups)
           = WantedBy(request)
    BY <1>1, <2>2 DEF WantedInv
  <2>11. (KeysOf(before) \cup KeysOf(order) \cup UNION KeysOf(groups))'
           = KeysOf(before \o order) \cup KeysOf(s) \cup UNION KeysOf(Tail(groups))
    BY <2>1, <2>2
  <2>12. WantedBy(request)' = WantedBy(request)
    BY <1>1, <2>2
  <2> QED BY <2>7, <2>8, <2>9, <2>10, <2>11, <2>12
<1>4. CASE pc # "idle" /\ UNCHANGED <<subBlks, request, before, order, groups>>
  <2>1. (KeysOf(before) \cup KeysOf(order) \cup UNION KeysOf(groups))'
          = KeysOf(before) \cup KeysOf(order) \cup UNION KeysOf(groups)
    BY <1>4
  <2> QED BY <1>1, <1>4, <2>1 DEF WantedInv
<1>5. CASE GetStep /\ ~NextGroup
  BY <1>4, <1>5 DEF GetStep, Look, Add, Judge, Paint, PaintFails, GetReturns,
    Return, directoryVars, callVars
<1>6. CASE \/ pc = "idle" /\ DirectoryNext /\ UNCHANGED <<coverageVars, callVars>>
           \/ UNCHANGED vars
  BY <1>4, <1>6 DEF vars, callVars, directoryVars
<1> QED BY <1>2, <1>3, <1>5, <1>6 DEF Next

-----------------------------------------------------------------------------
(* All of it. *)

PaintInv == CallInv /\ PictureInv /\ OrderInv /\ WantedInv

LEMMA PaintInvariance == Spec => [](IInv /\ PaintInv)
<1>1. Init => PaintInv
  <2>1. Init => OrderInv /\ WantedInv
    BY DEF Init, OrderInv, WantedInv
  <2> QED BY <2>1, CallInitInv, PictureInitInv DEF PaintInv
<1>2. IInv /\ PaintInv /\ [Next]_vars => (IInv /\ PaintInv)'
  BY StepInv, CallStepInv, PictureStepInv, OrderStepInv, WantedStepInv DEF PaintInv
<1> QED BY <1>1, <1>2, InitInv, PTL DEF Spec

-----------------------------------------------------------------------------
(* The theorems. *)

\* After any sequence of adding, modifying and removing entries and of asking
\* for statistics, statistics that count as current are those of the entries.
THEOREM StatisticsFollowTheEntries == Spec => []StatisticsAreOfTheEntries
<1>1. IInv => StatisticsAreOfTheEntries
  BY InvImpliesProperties DEF IInv
<1> QED BY <1>1, Invariance, PTL

\* The pyramid's statistics count each entry at least once, and exactly once
\* until they are recreated.
THEOREM PyramidIsNotMissed == Spec => []PyramidMissesNothing
<1>1. IInv => PyramidMissesNothing
  BY InvImpliesProperties DEF IInv
<1> QED BY <1>1, Invariance, PTL

\* However tiles overlap, AddRectangle keeps rectangles that do not.
THEOREM SplittersStayDisjoint == Spec => []SplittersAreDisjoint
<1>1. IInv => SplittersAreDisjoint
  BY DEF IInv
<1> QED BY <1>1, Invariance, PTL

\* However tiles overlap, AddRectangle loses none of their pixels.
THEOREM CoverageStaysExact == Spec => []CoverageIsOfTheTiles
<1>1. IInv => CoverageIsOfTheTiles
  BY DEF IInv
<1> QED BY <1>1, Invariance, PTL

\* A plane is taken if and only if the entries call for it: the bounds of the
\* dimensions follow them.
THEOREM PlanesFollowTheEntries == Spec => []PlanesAreOfTheEntries
<1>1. ASSUME IInv, sbBlkStatisticsCurrent, NEW r \in Requests,
             NEW d \in Dimensions \ {"S"}
      PROVE  LET bounds == statistics.dimBounds
                 values == {subBlks[key].coordinate[d] : key \in
                              {k \in DOMAIN subBlks :
                                 d \in DOMAIN subBlks[k].coordinate}}
             IN  (IF d \in DOMAIN bounds
                  THEN IF d \in DOMAIN r.plane
                       THEN /\ bounds[d].start <= r.plane[d]
                            /\ r.plane[d] < bounds[d].start + bounds[d].size
                       ELSE bounds[d].size <= 1
                  ELSE d \notin DOMAIN r.plane)
                 <=> (IF d \in DOMAIN r.plane
                      THEN \E v, w \in values : v <= r.plane[d] /\ r.plane[d] <= w
                      ELSE \A v, w \in values : v = w)
  <2> DEFINE bounds == statistics.dimBounds
             E == {subBlks[key] : key \in DOMAIN subBlks}
             withD == {k \in DOMAIN subBlks : d \in DOMAIN subBlks[k].coordinate}
             values == {subBlks[key].coordinate[d] : key \in withD}
  <2>1. AreStatisticsOf(statistics, E)
    BY <1>1, InvImpliesProperties DEF IInv, StatisticsAreOfTheEntries
  <2>2. d \in DOMAIN bounds <=> values # {}
    BY <2>1 DEF AreStatisticsOf
  <2>3. values \subseteq Int
    BY <1>1, EntryType DEF IInv, DirectoryInv, DirectoryTypeOK
  <2>4. d \in DOMAIN r.plane => r.plane[d] \in Int
    BY AccessorAssumption
  <2>5. CASE d \in DOMAIN bounds
    <3>1. bounds[d] \in Spans
      BY <1>1, <2>5 DEF IInv, DirectoryInv, StatisticsInv, StatisticsType
    <3>2. IsSpanOf(bounds[d], WithDimension(E, d), d)
      BY <2>1, <2>5 DEF AreStatisticsOf
    <3>3. \A v : v \in values <=> \E e \in WithDimension(E, d) : v = e.coordinate[d]
      BY DEF WithDimension
    <3> HIDE DEF values, bounds
    <3>4. \A v \in values : bounds[d].start <= v
                            /\ v < bounds[d].start + bounds[d].size
      BY <3>2, <3>3 DEF IsSpanOf
    <3>5. bounds[d].start \in values
      BY <3>2, <3>3 DEF IsSpanOf
    <3>6. bounds[d].start + bounds[d].size - 1 \in values
      BY <3>2, <3>3 DEF IsSpanOf
    <3>7. d \in DOMAIN r.plane =>
            ((/\ bounds[d].start <= r.plane[d]
              /\ r.plane[d] < bounds[d].start + bounds[d].size)
              <=> \E v, w \in values : v <= r.plane[d] /\ r.plane[d] <= w)
      <4>1. SUFFICES ASSUME d \in DOMAIN r.plane
                     PROVE  (/\ bounds[d].start <= r.plane[d]
                             /\ r.plane[d] < bounds[d].start + bounds[d].size)
                              <=> \E v, w \in values :
                                    v <= r.plane[d] /\ r.plane[d] <= w
        OBVIOUS
      <4>2. r.plane[d] \in Int /\ bounds[d].start \in Int /\ bounds[d].size \in Int
        BY <2>4, <3>1, <4>1 DEF Spans
      <4>3. ASSUME bounds[d].start <= r.plane[d],
                   r.plane[d] < bounds[d].start + bounds[d].size
            PROVE  \E v, w \in values : v <= r.plane[d] /\ r.plane[d] <= w
        <5>1. r.plane[d] <= bounds[d].start + bounds[d].size - 1
          BY <4>2, <4>3
        <5> QED BY <3>5, <3>6, <4>3, <5>1
      <4>4. ASSUME NEW v \in values, NEW w \in values,
                   v <= r.plane[d], r.plane[d] <= w
            PROVE  /\ bounds[d].start <= r.plane[d]
                   /\ r.plane[d] < bounds[d].start + bounds[d].size
        BY <2>3, <3>4, <4>2, <4>4
      <4> QED BY <4>3, <4>4
    <3>8. bounds[d].size <= 1 <=> \A v, w \in values : v = w
      BY <2>3, <3>1, <3>4, <3>5, <3>6 DEF Spans
    <3> QED BY <2>5, <3>7, <3>8 DEF values, bounds
  <2>6. CASE d \notin DOMAIN bounds
    BY <2>2, <2>6
  <2> QED BY <2>5, <2>6
<1>2. IInv => PlanesAreOfTheEntries
  <2> SUFFICES ASSUME IInv, sbBlkStatisticsCurrent, NEW r \in Requests
               PROVE  IsValidPlane(r.plane) <=>
                        /\ "S" \notin DOMAIN r.plane
                        /\ \A d \in Dimensions \ {"S"} :
                             LET values == {subBlks[key].coordinate[d] : key \in
                                              {k \in DOMAIN subBlks :
                                                 d \in DOMAIN subBlks[k].coordinate}}
                             IN  IF d \in DOMAIN r.plane
                                 THEN \E v, w \in values :
                                        v <= r.plane[d] /\ r.plane[d] <= w
                                 ELSE \A v, w \in values : v = w
    BY DEF PlanesAreOfTheEntries
  <2> QED BY <1>1 DEF IsValidPlane
<1> QED BY <1>2, Invariance, PTL

\* What a call keeps has its type: its tiles are in the directory, and the count
\* of covered pixels is at most that of the region (coveredPixels in
\* CheckForVisibilityCore).
THEOREM TypeCorrect == Spec => []TypeOK
<1>1. IInv /\ PaintInv => TypeOK
  <2> SUFFICES ASSUME IInv, CallInv PROVE TypeOK
    BY DEF PaintInv
  <2>1. /\ DirectoryTypeOK /\ splitters \subseteq Rectangles
        /\ pending \subseteq Rectangles /\ pc \in {"idle", "look", "add", "paint"}
    BY DEF IInv, DirectoryInv, CallTyped
  <2>2. coveredPixels \in 0 .. request.roi.w * request.roi.h
    BY DEF CallInv, CountsCovered
  <2>3. CASE pc = "idle"
    <3>1. /\ request = NoRequest /\ groups = <<>> /\ before = <<>>
          /\ order = <<>> /\ remaining = 0 /\ visible = <<>> /\ picture = <<>>
      BY <2>3 DEF CallInv, CallState
    <3>2. \A S : <<>> \in Seq(S)
      OBVIOUS
    <3>3. Len(<<>>) = 0 /\ DOMAIN <<>> = {}
      OBVIOUS
    <3>4. remaining \in 0 .. Len(order) /\ DOMAIN picture = {}
      BY <3>1, <3>3
    <3> QED BY <2>1, <2>2, <2>3, <3>1, <3>2, <3>4 DEF TypeOK
  <2>4. CASE pc # "idle"
    <3> DEFINE T == TilesOf(request)
               D == DOMAIN subBlks
    <3>1. /\ Ready /\ request \in Requests /\ groups \in Seq(SUBSET T)
          /\ before \in Seq(T) /\ order \in Seq(T) /\ visible \in Seq(T)
          /\ remaining \in 0 .. Len(order)
          /\ DOMAIN picture = PicturePixels(request)
          /\ \A pixel \in DOMAIN picture : picture[pixel] \in T \cup {Background}
      BY <2>4 DEF CallInv, CallState
    <3>2. T \subseteq D
      BY DEF TilesOf
    <3> HIDE DEF T, D
    <3>3. /\ \A s \in Seq(T) : s \in Seq(D)
          /\ \A s \in Seq(SUBSET T) : s \in Seq(SUBSET D)
      BY <3>2
    <3> QED BY <2>1, <2>2, <2>4, <3>1, <3>2, <3>3 DEF TypeOK, D
  <2> QED BY <2>3, <2>4
<1> QED BY <1>1, PaintInvariance, PTL

\* AddRectangle ends, however often it cuts: each turn takes from the pixels that
\* are still to be added or from the splitters.
THEOREM AddRectangleComesToAnEnd == Spec => AddRectangleEnds
<1>1. IInv /\ PaintInv /\ [Next]_vars => [pending # {} => Effort' < Effort]_coverageVars
  <2> SUFFICES ASSUME IInv, CallInv, [Next]_vars, pending # {}, ~UNCHANGED coverageVars
               PROVE  Effort' < Effort
    BY DEF PaintInv
  <2>1. pc = "add"
    BY DEF IInv, CallTyped
  <2>2. Add
    BY <2>1 DEF Next, GetTiles, GetLevel, GetScaled, Begin, GetStep, NextGroup,
      Look, Judge, Paint, PaintFails, GetReturns, vars
  <2> QED BY <2>2, AddKeepsCall
<1> QED BY <1>1, PaintInvariance, PTL DEF Spec, AddRectangleEnds

\* The check of visibility (CheckForVisibility) leaves out no tile that shows: with
\* it and without it, each pixel shows the last tile there.
THEOREM VisibilityCheckChangesNothing == Spec => []SameAsWithoutOptimization
<1>1. IInv /\ PaintInv => SameAsWithoutOptimization
  <2> SUFFICES ASSUME IInv, CallInv, PictureInv, pc = "paint", visible = <<>>,
                      NEW pixel \in DOMAIN picture
               PROVE  \/ /\ picture[pixel] = Background
                         /\ \A i \in DOMAIN Composed : ~Shows(pixel, Composed[i])
                      \/ \E i \in DOMAIN Composed :
                           /\ picture[pixel] = Composed[i]
                           /\ Shows(pixel, Composed[i])
                           /\ \A j \in i + 1 .. Len(Composed) :
                                ~Shows(pixel, Composed[j])
    BY DEF SameAsWithoutOptimization, Done, PaintInv
  <2>1. IsOnTop(ShowingAt(pixel), picture[pixel], visible, 1, picture[pixel])
    BY DEF IsOnTop
  <2>2. IsOnTop(ShowingAt(pixel), Background, Composed, 1, picture[pixel])
    BY <2>1 DEF PictureInv
  <2> DEFINE T == TilesOf(request)
  <2>3. Composed \in Seq(T)
    <3>1. before \in Seq(T) /\ order \in Seq(T)
      BY DEF CallInv, CallState
    <3> HIDE DEF T
    <3> QED BY <3>1 DEF Composed
  <2>4. T \subseteq DOMAIN subBlks
    BY DEF TilesOf
  <2> HIDE DEF T
  <2>5. DOMAIN Composed = 1 .. Len(Composed) /\ Len(Composed) \in Nat
        /\ \A i \in 1 .. Len(Composed) : Composed[i] \in DOMAIN subBlks
    BY <2>3, <2>4
  <2>6. \A i \in 1 .. Len(Composed) :
          Shows(pixel, Composed[i]) <=> Composed[i] \in ShowingAt(pixel)
    BY <2>5 DEF ShowingAt
  <2>7. \A i \in 1 .. Len(Composed) : \A j \in i + 1 .. Len(Composed) :
          j \in 1 .. Len(Composed)
    BY <2>5
  <2> QED BY <2>2, <2>5, <2>6, <2>7 DEF IsOnTop
<1> QED BY <1>1, PaintInvariance, PTL

\* The scaling accessor composes the tiles of the layer above the zoom, of the
\* scenes that the filter leaves (GetSubSetSortedByZoomPerScene and Paint).
THEOREM LayerAboveIsComposed == Spec => []ComposesTheLayerAbove
<1>1. IInv /\ PaintInv => ComposesTheLayerAbove
  <2> SUFFICES ASSUME IInv, CallInv, WantedInv, pc = "paint", groups = <<>>,
                      request.accessor = "scaling", AllHaveScenesOrNone
               PROVE  {Composed[i] : i \in DOMAIN Composed} = WantedBy(request)
    BY DEF ComposesTheLayerAbove, Done, PaintInv, AllHaveScenesOrNone, WantedBy,
      InSceneOf
  <2>1. KeysOf(before) \cup KeysOf(order) \cup UNION KeysOf(groups)
          = WantedBy(request)
    BY DEF WantedInv
  <2>2. UNION KeysOf(groups) = {}
    BY DEF KeysOf
  <2> DEFINE T == TilesOf(request)
  <2>3. before \in Seq(T) /\ order \in Seq(T)
    BY DEF CallInv, CallState
  <2> HIDE DEF T
  <2>4. KeysOf(Composed) = KeysOf(before) \cup KeysOf(order)
    BY <2>3, KeysOfBoth DEF Composed
  <2> QED BY <2>1, <2>2, <2>4 DEF KeysOf
<1> QED BY <1>1, PaintInvariance, PTL

\* No tile shows where one of its group with a higher M-index is, or a finer one
\* (CreateSortByM, CreateSortByZoom).
THEOREM HighestMIndexIsOnTop == Spec => []ShowsTheHighestMIndex
<1>1. IInv /\ PaintInv => ShowsTheHighestMIndex
  <2> SUFFICES ASSUME IInv, CallInv, PictureInv, OrderInv,
                      pc = "paint", visible = <<>>,
                      NEW pixel \in DOMAIN picture,
                      NEW i \in DOMAIN order, NEW j \in DOMAIN order,
                      picture[pixel] = order[i], Shows(pixel, order[j])
               PROVE  LET top == order[i]
                          other == order[j]
                          scaling == request.accessor = "scaling"
                      IN  /\ request.sortByM
                               /\ (scaling => IsOfLayer0(top) /\ IsOfLayer0(other))
                               => SortKey(other) <= SortKey(top)
                          /\ scaling => AtLeast(ZoomOf(top), ZoomOf(other))
    BY DEF ShowsTheHighestMIndex, Done, PaintInv
  <2> DEFINE T == TilesOf(request)
             at == ShowingAt(pixel)
             m == Len(before)
             n == Len(order)
             all == before \o order
  <2>1. before \in Seq(T) /\ order \in Seq(T)
    BY DEF CallInv, CallState
  <2>2. T \subseteq DOMAIN subBlks
    BY DEF TilesOf
  <2> HIDE DEF T
  <2>3. /\ order[i] \in DOMAIN subBlks /\ order[j] \in DOMAIN subBlks
        /\ DOMAIN order = 1 .. n
    BY <2>1, <2>2
  <2>4. /\ m \in Nat /\ n \in Nat /\ Len(all) = m + n
        /\ \A k \in m + 1 .. m + n : all[k] = order[k - m]
    BY <2>1
  <2>5. order[j] \in at
    BY <2>3 DEF ShowingAt
  <2>6. IsOnTop(at, Background, all, 1, order[i])
    <3>1. IsOnTop(at, picture[pixel], visible, 1, picture[pixel])
      BY DEF IsOnTop
    <3> QED BY <3>1 DEF PictureInv, Composed
  <2> HIDE DEF at, m, n, all
  <2>7. /\ m + j \in m + 1 .. m + n /\ m + j \in 1 .. m + n
        /\ (m + j) - m = j /\ j \in 1 .. n
    BY <2>3, <2>4
  <2>8. all[m + j] \in at
    BY <2>4, <2>5, <2>7
  <2>9. PICK c \in 1 .. m + n : /\ order[i] = all[c]
                                /\ \A k \in c + 1 .. m + n : all[k] \notin at
    BY <2>4, <2>6, <2>7, <2>8 DEF IsOnTop
  <2>10. c >= m + j
    <3>1. m + j \notin c + 1 .. m + n
      BY <2>8, <2>9
    <3> QED BY <2>4, <2>7, <3>1
  <2>11. c - m \in 1 .. n /\ j <= c - m /\ order[i] = order[c - m]
    BY <2>4, <2>7, <2>9, <2>10
  <2>12. order[j] = order[i] \/ MayPrecede(order[j], order[i], request)
    <3>1. PICK d \in 1 .. n : d = c - m
      BY <2>11
    <3>2. j = d \/ j < d
      BY <2>4, <2>7, <2>11, <3>1
    <3>3. j < d => MayPrecede(order[j], order[d], request)
      BY <2>7, <3>1 DEF OrderInv, n
    <3> QED BY <2>11, <3>1, <3>2, <3>3
  <2> QED BY <2>3, <2>12, LaterIsAbove DEF IInv
<1> QED BY <1>1, PaintInvariance, PTL

=============================================================================
