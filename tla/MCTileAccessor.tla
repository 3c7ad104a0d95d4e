---------------------------- MODULE MCTileAccessor ----------------------------
(* Four sub-blocks: two tiles of a scene that overlap; one of a pyramid in    *)
(* another scene and at another time; and one of a zoom between, which has no *)
(* dimension, is in no layer and overlaps all of them.  A document may have   *)
(* the same one several times.                                                *)
EXTENDS TileAccessor, TLC

Span(start, size) == [start |-> start, size |-> size]

Low ==
  [coordinate |-> "C" :> 0 @@ "S" :> 0 @@ "T" :> 0, mIndex |-> 1,
   x |-> Span(-1, 4), y |-> Span(0, 1), storedWidth |-> 4, storedHeight |-> 1]
High ==
  [coordinate |-> "S" :> 0, mIndex |-> 2,
   x |-> Span(1, 3), y |-> Span(-1, 2), storedWidth |-> 3, storedHeight |-> 2]
Pyramid ==
  [coordinate |-> "S" :> 1 @@ "T" :> 1, mIndex |-> IntMin,
   x |-> Span(0, 4), y |-> Span(0, 4), storedWidth |-> 2, storedHeight |-> 2]

Between ==
  [coordinate |-> [d \in {} |-> 0], mIndex |-> 3,
   x |-> Span(-1, 3), y |-> Span(-1, 3), storedWidth |-> 2, storedHeight |-> 2]

MCEntries == {Low, High, Pyramid, Between}

AnyPlane == [d \in {} |-> 0]
Half == [num |-> 1, den |-> 2]
Full == [num |-> 1, den |-> 1]

Call(accessor, plane, sortByM, check, zoom, without, layer) ==
  [accessor |-> accessor, plane |-> plane, sortByM |-> sortByM,
   check |-> check, zoom |-> zoom, without |-> without, layer |-> layer,
   factor |-> 2,
   roi |-> IF accessor = "level" THEN Rect(-1, -1, 5, 4) ELSE Rect(0, -1, 3, 3)]

MCRequests ==
  {Call("tile", AnyPlane, TRUE, TRUE, Full, {}, 0),
   Call("level", AnyPlane, FALSE, FALSE, Full, {0}, 1),
   Call("scaling", AnyPlane, TRUE, TRUE, Half, {}, 0),
   Call("scaling", "C" :> 0, FALSE, FALSE, Full, {1}, 0)}

=============================================================================
