----------------------------- MODULE TileAccessor -----------------------------
(***************************************************************************)
(* The single-channel accessors: a picture of a region of a plane,         *)
(* composed of the tiles that a repository has there.                      *)
(*   "tile"     of layer 0,                                                *)
(*   "level"    of one layer of the pyramid, in the pixels of this layer,  *)
(*   "scaling"  of the layer just above a zoom, scene by scene.            *)
(* The repository here is a document that is edited between the calls (the *)
(* module SubBlockDirectory); as the reader-writer is single-threaded,     *)
(* nothing changes it during a call.                                       *)
(*                                                                         *)
(* Get checks the plane against the statistics of the directory, collects  *)
(* the tiles in groups, and sorts each group, leaves out the tiles that    *)
(* later ones hide if that is asked for (CheckForVisibility, with the      *)
(* module RectangleCoverage), and paints the others one after the other,   *)
(* each over those before.  A call that is refused is no step.  Get asks   *)
(* for the statistics first: when they are not current, it begins with the *)
(* steps of RecreateSubBlockStatistics.                                    *)
(*                                                                         *)
(* A picture says for each pixel which tile it shows; that of the scaling  *)
(* accessor in pixels of layer 0, before it is scaled.  Zooms are          *)
(* fractions.  Conversions of pixel types, borders and a cache of the      *)
(* tiles' bitmaps are left out, and so is the scene filter in the options  *)
(* of the accessor of layer 0, which the code never reads.                 *)
(***************************************************************************)
EXTENDS SubBlockDirectory, RectangleCoverage, Sequences

CONSTANT
  Requests          \* the calls that are made: an accessor and its parameters

ASSUME AccessorAssumption ==
  \A r \in Requests :
    /\ r.accessor \in {"tile", "level", "scaling"}
    /\ r.roi \in Rectangles
    /\ DOMAIN r.plane \subseteq Dimensions
    /\ \A d \in DOMAIN r.plane : r.plane[d] \in Int
    /\ r.sortByM \in BOOLEAN
    /\ r.check \in BOOLEAN              \* useVisibilityCheckOptimization
    /\ r.without \subseteq Int          \* the scenes that a filter leaves out
    /\ r.factor \in Nat \ {0, 1} /\ r.layer \in Nat
    /\ r.zoom.num \in Nat \ {0} /\ r.zoom.den \in Nat \ {0}
    /\ r.accessor = "level" => ~r.check

VARIABLES
  pc,               \* where the call is
  request,          \* the call
  groups,           \* the keys of the tiles that are not yet sorted, by group
  before,           \* the keys of the groups that are done, in their order
  order,            \* the keys of the group, the last one on top
  remaining,        \* how many of them CheckForVisibility has not looked at
  coveredPixels,    \* what those it has looked at cover
  visible,          \* the keys of the tiles that are (still) to be painted
  picture           \* pixel -> key, or Background

callVars == <<pc, request, groups, before, order, remaining, coveredPixels,
              visible, picture>>
vars == <<directoryVars, coverageVars, callVars>>

Background == -1
NoRequest == [accessor |-> "none", roi |-> Rect(0, 0, 0, 0)]

BoxOf(key) ==
  LET e == subBlks[key] IN Rect(e.x.start, e.y.start, e.x.size, e.y.size)

PixelsOf(r) == (r.x .. Right(r) - 1) \X (r.y .. Bottom(r) - 1)

-----------------------------------------------------------------------------
(* The plane and its tiles. *)

\* CheckPlaneCoordinates.
IsValidPlane(plane) ==
  /\ "S" \notin DOMAIN plane
  /\ \A d \in Dimensions \ {"S"} :
       IF d \in DOMAIN statistics.dimBounds
       THEN LET span == statistics.dimBounds[d]
            IN  IF d \in DOMAIN plane
                THEN span.start <= plane[d] /\ plane[d] < span.start + span.size
                ELSE span.size <= 1
       ELSE d \notin DOMAIN plane

\* CompareCoordinate: what the plane names is that of the entry.
IsInPlane(plane, entry) ==
  \A d \in DOMAIN plane :
    d \in DOMAIN entry.coordinate /\ entry.coordinate[d] = plane[d]

HasScene(key) == "S" \in DOMAIN subBlks[key].coordinate

\* The tiles of the plane that meet a region, those of a scene in `without'
\* left out.
Subset(plane, region, without) ==
  {key \in DOMAIN subBlks :
     /\ IsInPlane(plane, subBlks[key])
     /\ IntersectsWith(region, BoxOf(key))
     /\ HasScene(key) => SceneOf(subBlks[key]) \notin without}

IsOfLayer0(key) == IsStoredSizeEqualLogicalSize(subBlks[key])

\* An M-index that is not valid goes first.
SortKey(key) ==
  LET m == subBlks[key].mIndex IN IF m = IntMax THEN IntMin ELSE m

(* Layers of the pyramid. *)

\* The size in layer 0 of a pixel of the layer.
PixelSize(r) == r.factor ^ r.layer

\* The region in whole pixels of the layer.
NormalizePyramidRect(r) ==
  LET size == PixelSize(r)
  IN  Rect(r.roi.x, r.roi.y, (r.roi.w \div size) * size,
           (r.roi.h \div size) * size)

\* The layer of the first power of the factor that is not less than the
\* rounded minification.
CalcPyramidLayerNo(key, factor) ==
  LET e == subBlks[key]
      Rounded(l, s) == (2 * l + s) \div (2 * s)
      minification == IF e.storedWidth > e.storedHeight
                      THEN Rounded(e.x.size, e.storedWidth)
                      ELSE Rounded(e.y.size, e.storedHeight)
  IN  CHOOSE layer \in 0 .. minification :
        /\ factor ^ layer >= minification
        /\ \A lower \in 0 .. layer - 1 : factor ^ lower < minification

\* Division of integers that truncates.
Truncated(a, b) == IF a >= 0 THEN a \div b ELSE -((-a) \div b)

(* Zooms. *)

ZoomOf(key) ==
  LET e == subBlks[key]
  IN  IF e.storedWidth > e.storedHeight
      THEN [num |-> e.storedWidth, den |-> e.x.size]
      ELSE [num |-> e.storedHeight, den |-> e.y.size]

AtLeast(a, b) == a.num * b.den >= b.num * a.den
Times19(zoom) == [num |-> 19 * zoom.num, den |-> 10 * zoom.den]

\* Of the tiles that are sorted by zoom: from the first of at least the
\* requested zoom to where the zoom is about twice of that.
LayerAbove(keys, zoom) ==
  LET above == {key \in keys : AtLeast(ZoomOf(key), zoom)}
  IN  {key \in above : \A first \in above :
                         ~AtLeast(ZoomOf(key), Times19(ZoomOf(first)))}

\* Mutant: the scenes are found by the tiles of their layer 0.
InvolvedScenesOfLayer0(r) ==
  {s \in DOMAIN statistics.sceneBoundingBoxes \ r.without :
     LET box == statistics.sceneBoundingBoxes[s].layer0
     IN  IntersectsWith(Rect(box.x.start, box.y.start, box.x.size, box.y.size),
                        r.roi)}

DetermineInvolvedScenes(r) ==
  {s \in DOMAIN statistics.sceneBoundingBoxes \ r.without :
     LET box == statistics.sceneBoundingBoxes[s].box
     IN  IntersectsWith(Rect(box.x.start, box.y.start, box.x.size, box.y.size),
                        r.roi)}

(* Orders. *)

\* May a be painted before b?  By M-index, or as they are enumerated; in the
\* scaling accessor by zoom, and by M-index only in layer 0.
MayPrecede(a, b, r) ==
  LET byM == SortKey(a) <= SortKey(b)
  IN  IF r.accessor # "scaling"
      THEN IF r.sortByM THEN byM ELSE a < b
      ELSE /\ AtLeast(ZoomOf(b), ZoomOf(a))
           /\ AtLeast(ZoomOf(a), ZoomOf(b)) =>
                IF r.sortByM THEN IsOfLayer0(a) /\ IsOfLayer0(b) => byM ELSE a < b

\* The orders a sort may give the keys, with equals anyhow.
Sortings(keys, r) ==
  {s \in [1 .. Cardinality(keys) -> keys] :
     \A i, j \in DOMAIN s : i < j => s[i] # s[j] /\ MayPrecede(s[i], s[j], r)}

Ascending(S) ==
  {s \in [1 .. Cardinality(S) -> S] : \A i, j \in DOMAIN s : i < j => s[i] < s[j]}

(* Where a tile is in the picture. *)

PlaceOf(key) ==
  IF request.accessor = "level"
  THEN Rect(Truncated(BoxOf(key).x - request.roi.x, PixelSize(request)),
            Truncated(BoxOf(key).y - request.roi.y, PixelSize(request)),
            subBlks[key].storedWidth, subBlks[key].storedHeight)
  ELSE BoxOf(key)

Shows(pixel, key) == Inside(pixel[1], pixel[2], PlaceOf(key))

PicturePixels(r) ==
  IF r.accessor = "level"
  THEN PixelsOf(Rect(0, 0, r.roi.w \div PixelSize(r), r.roi.h \div PixelSize(r)))
  ELSE PixelsOf(r.roi)

-----------------------------------------------------------------------------
Init ==
  /\ DirectoryInit
  /\ CoverageInit
  /\ pc = "idle"
  /\ request = NoRequest
  /\ groups = <<>>
  /\ before = <<>>
  /\ order = <<>>
  /\ remaining = 0
  /\ coveredPixels = 0
  /\ visible = <<>>
  /\ picture = <<>>

\* The call ends, and what belonged to it is gone.
Return ==
  /\ pc' = "idle"
  /\ request' = NoRequest
  /\ groups' = <<>>
  /\ before' = <<>>
  /\ order' = <<>>
  /\ remaining' = 0
  /\ coveredPixels' = 0
  /\ visible' = <<>>
  /\ picture' = <<>>
  /\ UNCHANGED <<directoryVars, coverageVars>>

\* A call begins with the background, and with the groups of its tiles.
Begin(r, gs) ==
  /\ pc = "idle"
  /\ Ready
  /\ sbBlkStatisticsCurrent
  /\ IsValidPlane(r.plane)
  /\ pc' = "paint"
  /\ request' = r
  /\ groups' = gs
  /\ picture' = [pixel \in PicturePixels(r) |-> Background]
  /\ UNCHANGED <<directoryVars, coverageVars, before, order, remaining,
                 coveredPixels, visible>>

GetTiles(r) ==
  /\ r.accessor = "tile"
  /\ Begin(r, <<{key \in Subset(r.plane, r.roi, {}) : IsOfLayer0(key)}>>)

\* The call throws when the picture has no pixels, and when there are tiles but
\* none of the layer.
GetLevel(r) ==
  LET keys == Subset(r.plane, NormalizePyramidRect(r), r.without)
      ofLayer == {key \in keys : CalcPyramidLayerNo(key, r.factor) = r.layer}
  IN  /\ r.accessor = "level"
      /\ r.roi.w >= PixelSize(r) /\ r.roi.h >= PixelSize(r)
      /\ ofLayer = {} => keys = {}
      /\ Begin(r, <<ofLayer>>)

\* A single scene is not told from tiles without a scene; of several, each is a
\* group, and tiles without a scene are in none.
GetScaled(r) ==
  LET scenes == DetermineInvolvedScenes(r)
      keys == Subset(r.plane, r.roi, {})
      OfScene(s) == {key \in keys : HasScene(key) /\ SceneOf(subBlks[key]) = s}
      allowed == {key \in keys : HasScene(key) => SceneOf(subBlks[key]) \in scenes}
  IN  /\ r.accessor = "scaling"
      /\ IF Cardinality(scenes) <= 1
         THEN Begin(r, <<LayerAbove(allowed, r.zoom)>>)
         ELSE \E s \in Ascending(scenes) :
                Begin(r, [i \in DOMAIN s |-> LayerAbove(OfScene(s[i]), r.zoom)])

\* Nothing of the group is left to be painted: the next group is sorted, and all
\* its tiles are painted unless their visibility is to be checked.
NextGroup ==
  /\ pc = "paint"
  /\ visible = <<>>
  /\ groups # <<>>
  /\ groups' = Tail(groups)
  /\ before' = before \o order
  /\ \E s \in Sortings(Head(groups), request) :
       /\ order' = s
       /\ IF request.check /\ s # <<>>
          THEN pc' = "look" /\ remaining' = Len(s) /\ UNCHANGED visible
          ELSE visible' = s /\ UNCHANGED <<pc, remaining>>
  /\ coveredPixels' = 0
  /\ UNCHANGED <<directoryVars, coverageVars, request, picture>>

-----------------------------------------------------------------------------
(* CheckForVisibilityCore, from the tile on top to the lowest. *)

\* The rectangle of the next tile is added to those above it, ...
Look ==
  /\ pc = "look"
  /\ pending' = {BoxOf(order[remaining])}
  /\ pc' = "add"
  /\ UNCHANGED <<directoryVars, splitters, request, groups, before, order,
                 remaining, coveredPixels, visible, picture>>

\* ... turn by turn, ...
Add ==
  /\ pc = "add"
  /\ \E r \in pending : AddRectangle(r)
  /\ UNCHANGED <<directoryVars, callVars>>

\* Mutant: the last look is left out.
JudgeTooEarly ==
  LET area == CalcAreaOfIntersectionWithRectangle(request.roi)
      done == area = request.roi.w * request.roi.h \/ remaining <= 2
  IN  /\ pc = "add"
      /\ pending = {}
      /\ visible' = IF area > coveredPixels
                    THEN <<order[remaining]>> \o visible ELSE visible
      /\ coveredPixels' = area
      /\ remaining' = IF done THEN 0 ELSE remaining - 1
      /\ pc' = IF done THEN "paint" ELSE "look"
      /\ splitters' = IF done THEN {} ELSE splitters
      /\ UNCHANGED <<directoryVars, pending, request, groups, before, order,
                     picture>>

\* Mutant: the tiles are kept from top to bottom.
JudgeWithoutReverse ==
  LET area == CalcAreaOfIntersectionWithRectangle(request.roi)
      done == area = request.roi.w * request.roi.h \/ remaining = 1
  IN  /\ pc = "add"
      /\ pending = {}
      /\ visible' = IF area > coveredPixels
                    THEN Append(visible, order[remaining]) ELSE visible
      /\ coveredPixels' = area
      /\ remaining' = IF done THEN 0 ELSE remaining - 1
      /\ pc' = IF done THEN "paint" ELSE "look"
      /\ splitters' = IF done THEN {} ELSE splitters
      /\ UNCHANGED <<directoryVars, pending, request, groups, before, order,
                     picture>>

\* ... and the tile is visible if more of the region is covered then.
Judge ==
  LET area == CalcAreaOfIntersectionWithRectangle(request.roi)
      done == area = request.roi.w * request.roi.h \/ remaining = 1
  IN  /\ pc = "add"
      /\ pending = {}
      /\ visible' = IF area > coveredPixels
                    THEN <<order[remaining]>> \o visible ELSE visible
      /\ coveredPixels' = area
      /\ remaining' = IF done THEN 0 ELSE remaining - 1
      /\ pc' = IF done THEN "paint" ELSE "look"
      /\ splitters' = IF done THEN {} ELSE splitters
      /\ UNCHANGED <<directoryVars, pending, request, groups, before, order,
                     picture>>

-----------------------------------------------------------------------------
(* ComposeSingleChannelTiles, and Paint of the scaling accessor. *)

Paint ==
  /\ pc = "paint"
  /\ visible # <<>>
  /\ picture' = [pixel \in DOMAIN picture |->
                   IF Shows(pixel, Head(visible))
                   THEN Head(visible) ELSE picture[pixel]]
  /\ visible' = Tail(visible)
  /\ UNCHANGED <<directoryVars, coverageVars, pc, request, groups, before,
                 order, remaining, coveredPixels>>

\* A tile cannot be read or decoded.
PaintFails ==
  /\ pc = "paint"
  /\ visible # <<>>
  /\ Return

GetReturns ==
  /\ pc = "paint"
  /\ visible = <<>>
  /\ groups = <<>>
  /\ Return

GetStep ==
  NextGroup \/ Look \/ Add \/ Judge \/ Paint \/ PaintFails \/ GetReturns

Next ==
  \/ pc = "idle" /\ DirectoryNext /\ UNCHANGED <<coverageVars, callVars>>
  \/ \E r \in Requests : GetTiles(r) \/ GetLevel(r) \/ GetScaled(r)
  \/ GetStep

Spec == Init /\ [][Next]_vars

-----------------------------------------------------------------------------
(* Properties. *)

TypeOK ==
  /\ DirectoryTypeOK
  /\ splitters \subseteq Rectangles
  /\ pending \subseteq Rectangles
  /\ pc \in {"idle", "look", "add", "paint"}
  /\ pc # "idle" => Ready
  /\ IF pc = "idle" THEN request = NoRequest ELSE request \in Requests
  /\ groups \in Seq(SUBSET DOMAIN subBlks)
  /\ before \in Seq(DOMAIN subBlks)
  /\ order \in Seq(DOMAIN subBlks)
  /\ remaining \in 0 .. Len(order)
  /\ coveredPixels \in 0 .. request.roi.w * request.roi.h
  /\ visible \in Seq(DOMAIN subBlks)
  /\ DOMAIN picture = IF pc = "idle" THEN {} ELSE PicturePixels(request)
  /\ \A pixel \in DOMAIN picture :
       picture[pixel] \in DOMAIN subBlks \cup {Background}

\* The tiles that CheckForVisibility has looked at.
LookedAt == {order[i] : i \in remaining + 1 .. Len(order)}

\* What the statistics accept as a plane is what the entries call for, however
\* they were edited: a dimension is named if and only if an entry has it, but
\* may be left out when all have the same value, and the value is in bounds.
PlanesAreOfTheEntries ==
  sbBlkStatisticsCurrent /\ Ready /\ pc = "idle" =>
    \A r \in Requests : IsValidPlane(r.plane) <=>
      /\ "S" \notin DOMAIN r.plane
      /\ \A d \in Dimensions \ {"S"} :
           LET values == {subBlks[key].coordinate[d] : key \in
                            {k \in DOMAIN subBlks :
                               d \in DOMAIN subBlks[k].coordinate}}
           IN  IF d \in DOMAIN r.plane
               THEN \E v, w \in values : v <= r.plane[d] /\ r.plane[d] <= w
               ELSE \A v, w \in values : v = w

\* While rectangles are added, those that are kept and those still to be added
\* are together what the tiles looked at cover: no cut loses a pixel or makes
\* one up (what CalcAreaOfIntersectionWithRectangle relies on).
CoverageIsOfTheTiles ==
  pc \in {"look", "add"} =>
    LET keys == LookedAt \cup (IF pc = "add" THEN {order[remaining]} ELSE {})
    IN  UNION {PixelsOf(r) : r \in splitters \cup pending}
          = UNION {PixelsOf(BoxOf(key)) : key \in keys}

\* A group is painted; with the last one, the call returns.
Done == pc = "paint" /\ visible = <<>>
Composed == before \o order

\* "It will use the pyramid-layer just above the specified zoom-factor"
\* (libCZI_Compositor.h), and a filter leaves out its scenes and no other: when
\* the scaling accessor returns, it has composed of each scene that is wanted
\* the tiles of the plane and region whose zoom is at least the requested one
\* and not about twice the least of these, whatever the bounding boxes of the
\* scenes are.  Said of documents where all sub-blocks have a scene or none.
ComposesTheLayerAbove ==
  (/\ Done /\ groups = <<>> /\ request.accessor = "scaling"
   /\ \A k, l \in DOMAIN subBlks : HasScene(k) <=> HasScene(l)) =>
    LET wanted == Subset(request.plane, request.roi, request.without)
        InSameScene(key) ==
          {k \in wanted : SceneOf(subBlks[k]) = SceneOf(subBlks[key])}
    IN  {Composed[i] : i \in DOMAIN Composed}
          = {key \in wanted : key \in LayerAbove(InSameScene(key), request.zoom)}

\* If the tiles are sorted by M-index, the "tile with highest M-index will be
\* 'on top'" (libCZI_Compositor.h): no pixel of the group that was painted
\* shows another tile where one with a higher M-index is, which for the scaling
\* accessor is said of layer 0; and where it mixes zooms, none shows a coarser
\* tile than there is.
ShowsTheHighestMIndex ==
  Done =>
    \A pixel \in DOMAIN picture :
      \A i, j \in DOMAIN order :
        LET top == order[i]
            other == order[j]
            scaling == request.accessor = "scaling"
        IN  picture[pixel] = top /\ Shows(pixel, other) =>
              /\ request.sortByM
                   /\ (scaling => IsOfLayer0(top) /\ IsOfLayer0(other))
                   => SortKey(other) <= SortKey(top)
              /\ scaling => AtLeast(ZoomOf(top), ZoomOf(other))

\* "The result is the same as without this optimization"
\* (libCZI_Compositor.h, useVisibilityCheckOptimization): the picture is that
\* of painting all tiles of all groups in their order.
SameAsWithoutOptimization ==
  Done =>
    \A pixel \in DOMAIN picture :
      \/ picture[pixel] = Background
         /\ \A i \in DOMAIN Composed : ~Shows(pixel, Composed[i])
      \/ \E i \in DOMAIN Composed :
           /\ picture[pixel] = Composed[i]
           /\ Shows(pixel, Composed[i])
           /\ \A j \in i + 1 .. Len(Composed) : ~Shows(pixel, Composed[j])

=============================================================================
