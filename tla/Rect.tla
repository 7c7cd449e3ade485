-------------------------------- MODULE Rect --------------------------------
(***************************************************************************)
(* The rectangles of libguac_common (common/rect.c): the algebra by which   *)
(* a surface combines, bounds, clips and aligns the regions it has to send. *)
(* Pure operators; the C functions change their first argument in place,    *)
(* here they return it.  Coordinates are pixels, far below the width of an  *)
(* int, and are modelled as integers.                                       *)
(***************************************************************************)
EXTENDS Integers

\* struct guac_common_rect: a corner and two dimensions.
Rects == [x : Int, y : Int, w : Int, h : Int]

RectInit(x, y, w, h) == [x |-> x, y |-> y, w |-> w, h |-> h]

RectEmpty(r) == r.w <= 0 \/ r.h <= 0

\* A pixel inside the rectangle: what the operations below are about.
Inside(r, px, py) ==
    /\ r.x <= px /\ px < r.x + r.w
    /\ r.y <= py /\ py < r.y + r.h

Least(a, b) == IF b < a THEN b ELSE a
Most(a, b) == IF b > a THEN b ELSE a

\* A rectangle given by its four edges.
Edges(left, top, right, bottom) == RectInit(left, top, right - left, bottom - top)

\* The smallest rectangle containing both.
RectExtend(r, min) ==
    Edges(Least(r.x, min.x), Least(r.y, min.y),
          Most(r.x + r.w, min.x + min.w), Most(r.y + r.h, min.y + min.h))

\* The part of r within max; negative dimensions when there is none.
RectConstrain(r, max) ==
    Edges(Most(r.x, max.x), Most(r.y, max.y),
          Least(r.x + r.w, max.x + max.w), Least(r.y + r.h, max.y + max.h))

\* One dimension of expand_to_grid: the span grows to the next multiple of
\* the cell, half of the growth on either side, and is then pushed back into
\* the bounds, from the far side first.
ExpandSpan(cell, at, len, maxat, maxlen) ==
    LET grow == cell - (len % cell)
        lo == at - (grow \div 2)
        hi == lo + len + grow
        maxhi == maxat + maxlen
    IN  CASE hi > maxhi -> [lo |-> Most(lo - (hi - maxhi), maxat), hi |-> maxhi]
          [] hi <= maxhi /\ lo < maxat ->
                [lo |-> maxat, hi |-> Least(hi + (maxat - lo), maxhi)]
          [] OTHER -> [lo |-> lo, hi |-> hi]

\* A cell of one pixel (or an invalid cell) leaves the rectangle alone.
RectExpandToGrid(cell, r, max) ==
    IF cell <= 1 THEN r
    ELSE LET hor == ExpandSpan(cell, r.x, r.w, max.x, max.w)
             ver == ExpandSpan(cell, r.y, r.h, max.y, max.h)
         IN  Edges(hor.lo, ver.lo, hor.hi, ver.hi)

\* 0 for apart, 2 when r lies within other, 1 otherwise.  Rectangles that
\* only share an edge are "intersecting".
Apart(r, other) ==
    \/ other.x + other.w < r.x \/ r.x + r.w < other.x
    \/ other.y + other.h < r.y \/ r.y + r.h < other.y

Within(r, other) ==
    /\ other.x <= r.x /\ other.x + other.w >= r.x + r.w
    /\ other.y <= r.y /\ other.y + other.h >= r.y + r.h

RectIntersects(r, other) ==
    IF Apart(r, other) THEN 0 ELSE IF Within(r, other) THEN 2 ELSE 1

\* One cut of clip_and_split: the first edge of r (top, left, bottom, right)
\* that sticks out of the hole is split off.
RectClipAndSplit(r, hole) ==
    IF RectIntersects(r, hole) = 0 THEN [did |-> FALSE, rest |-> r, split |-> r]
    ELSE LET right == r.x + r.w
             bottom == r.y + r.h
         IN  IF r.y < hole.y
             THEN [did |-> TRUE,
                   split |-> Edges(r.x, r.y, right, hole.y),
                   rest |-> Edges(r.x, hole.y, right, bottom)]
             ELSE IF r.x < hole.x
             THEN [did |-> TRUE,
                   split |-> Edges(r.x, r.y, hole.x, bottom),
                   rest |-> Edges(hole.x, r.y, right, bottom)]
             ELSE IF bottom > hole.y + hole.h
             THEN [did |-> TRUE,
                   split |-> Edges(r.x, hole.y + hole.h, right, bottom),
                   rest |-> Edges(r.x, r.y, right, hole.y + hole.h)]
             ELSE IF right > hole.x + hole.w
             THEN [did |-> TRUE,
                   split |-> Edges(hole.x + hole.w, r.y, right, bottom),
                   rest |-> Edges(r.x, r.y, hole.x + hole.w, bottom)]
             ELSE [did |-> FALSE, rest |-> r, split |-> r]
=============================================================================
