-------------------------- MODULE RectangleCoverage --------------------------
(***************************************************************************)
(* RectangleCoverageCalculator: the union of rectangles, kept as           *)
(* rectangles that do not overlap (the splitters).                         *)
(*                                                                         *)
(* AddRectangle compares a rectangle with the splitters, cuts it where it  *)
(* overlaps one of them, and calls itself with the pieces.  Each turn of   *)
(* this recursion is a step here, and `pending' holds the rectangles that  *)
(* are still to be added.  The order of the vector, and of the pieces, is  *)
(* left out: the step takes any pending rectangle and any splitter that    *)
(* overlaps it.                                                            *)
(***************************************************************************)
EXTENDS Integers, FiniteSets, FiniteSetsExt

VARIABLES
  splitters,
  pending

coverageVars == <<splitters, pending>>

Rectangles == [x : Int, y : Int, w : Nat, h : Nat]

Rect(x, y, w, h) == [x |-> x, y |-> y, w |-> w, h |-> h]
Right(r) == r.x + r.w
Bottom(r) == r.y + r.h

\* The pixel at a position is one of the rectangle's.
Inside(px, py, r) ==
  r.x <= px /\ px < Right(r) /\ r.y <= py /\ py < Bottom(r)

Larger(a, b) == IF a >= b THEN a ELSE b
Smaller(a, b) == IF a <= b THEN a ELSE b

Intersect(a, b) ==
  LET x1 == Larger(a.x, b.x)
      x2 == Smaller(Right(a), Right(b))
      y1 == Larger(a.y, b.y)
      y2 == Smaller(Bottom(a), Bottom(b))
  IN  IF x2 >= x1 /\ y2 >= y1
      THEN Rect(x1, y1, x2 - x1, y2 - y1) ELSE Rect(0, 0, 0, 0)

IntersectsWith(a, b) == Intersect(a, b).w > 0 /\ Intersect(a, b).h > 0

IsCompletelyContained(outer, inner) ==
  /\ inner.x >= outer.x /\ Right(inner) <= Right(outer)
  /\ inner.y >= outer.y /\ Bottom(inner) <= Bottom(outer)

-----------------------------------------------------------------------------
(* SplitUpIntoNonOverlapping: the pieces of b outside of a, where they      *)
(* overlap and neither contains the other.                                  *)

\* The piece above a, and that below, between the positions left and right.
Above(a, b, left, right) ==
  IF b.y < a.y THEN {Rect(left, b.y, right - left, a.y - b.y)} ELSE {}

Below(a, b, left, right) ==
  IF Bottom(b) > Bottom(a)
  THEN {Rect(left, Bottom(a), right - left, Bottom(b) - Bottom(a))} ELSE {}

StartsInside(a, b) == b.x >= a.x
EndsInside(a, b) == Right(b) <= Right(a)
LeftOf(a, b) == Rect(b.x, b.y, a.x - b.x, b.h)
RightOf(a, b) == Rect(Right(a), b.y, Right(b) - Right(a), b.h)

\* Mutant: b lies across the whole of a, and only the sides are kept.
SplitUpSidesOnly(a, b) ==
  IF StartsInside(a, b) /\ EndsInside(a, b)
  THEN Above(a, b, b.x, Right(b)) \cup Below(a, b, b.x, Right(b))
  ELSE IF EndsInside(a, b) THEN {LeftOf(a, b)}
  ELSE IF StartsInside(a, b) THEN {RightOf(a, b)}
  ELSE {LeftOf(a, b), RightOf(a, b)}

\* Where b is wider than a on both sides, only one piece is cut above or below:
\* with both, a would be inside of b.
SplitUp(a, b) ==
  IF StartsInside(a, b) /\ EndsInside(a, b)
  THEN Above(a, b, b.x, Right(b)) \cup Below(a, b, b.x, Right(b))
  ELSE IF EndsInside(a, b)
  THEN {LeftOf(a, b)} \cup Above(a, b, a.x, Right(b))
                      \cup Below(a, b, a.x, Right(b))
  ELSE IF StartsInside(a, b)
  THEN {RightOf(a, b)} \cup Above(a, b, b.x, Right(a))
                       \cup Below(a, b, b.x, Right(a))
  ELSE {LeftOf(a, b), RightOf(a, b)}
         \cup (IF b.y < a.y THEN Above(a, b, a.x, Right(a))
               ELSE Below(a, b, a.x, Right(a)))

-----------------------------------------------------------------------------
CoverageInit == splitters = {} /\ pending = {}

\* One turn of AddRectangle for the pending rectangle r: it overlaps nothing,
AddDisjoint(r) ==
  /\ \A s \in splitters : ~IntersectsWith(s, r)
  /\ splitters' = splitters \cup {r}
  /\ pending' = pending \ {r}

\* ... or is inside of a splitter,
AddContained(r) ==
  \E s \in splitters :
    /\ IntersectsWith(s, r)
    /\ IsCompletelyContained(s, r)
    /\ pending' = pending \ {r}
    /\ UNCHANGED splitters

\* ... or a splitter is inside of it, which is erased before r is added anew,
AddAround(r) ==
  \E s \in splitters :
    /\ IntersectsWith(s, r)
    /\ ~IsCompletelyContained(s, r)
    /\ IsCompletelyContained(r, s)
    /\ splitters' = splitters \ {s}
    /\ UNCHANGED pending

\* Mutant: the rectangle is added again with its pieces.
AddSplitKeeping(r) ==
  \E s \in splitters :
    /\ IntersectsWith(s, r)
    /\ ~IsCompletelyContained(s, r)
    /\ ~IsCompletelyContained(r, s)
    /\ pending' = pending \cup SplitUp(s, r)
    /\ UNCHANGED splitters

\* Mutant: the pieces are not compared with the other splitters.
AddPiecesAtOnce(r) ==
  \E s \in splitters :
    /\ IntersectsWith(s, r)
    /\ ~IsCompletelyContained(s, r)
    /\ ~IsCompletelyContained(r, s)
    /\ pending' = pending \ {r}
    /\ splitters' = splitters \cup SplitUp(s, r)

\* ... or it is cut.
AddSplit(r) ==
  \E s \in splitters :
    /\ IntersectsWith(s, r)
    /\ ~IsCompletelyContained(s, r)
    /\ ~IsCompletelyContained(r, s)
    /\ pending' = (pending \ {r}) \cup SplitUp(s, r)
    /\ UNCHANGED splitters

AddRectangle(r) ==
  AddDisjoint(r) \/ AddContained(r) \/ AddAround(r) \/ AddSplit(r)

\* What the splitters share with a rectangle.
CalcAreaOfIntersectionWithRectangle(query) ==
  MapThenSumSet(LAMBDA s : Intersect(s, query).w * Intersect(s, query).h,
                splitters)

-----------------------------------------------------------------------------
(* Properties. *)

\* The comment of splitters_ in utilities.h: the rectangles in it "are
\* guaranteed to be non-overlapping", after any sequence of cuts.
SplittersAreDisjoint ==
  \A r, s \in splitters : IntersectsWith(r, s) => r = s

SumOfAreas(S) == MapThenSumSet(LAMBDA r : r.w * r.h, S)
Effort == 2 * SumOfAreas(pending) + Cardinality(splitters)

\* The recursion ends: a turn leaves less area to be added, or as much and a
\* splitter less, and what it keeps was at least a pixel.
AddRectangleEnds == [][pending # {} => Effort' < Effort]_coverageVars

=============================================================================
