------------------------------ MODULE Barriers ------------------------------
(***************************************************************************)
(* Which lines can be barriers of an input capture, and the pixels KWin is *)
(* then to watch (src/src/inputcapturebarrier.cpp).  A line is given by    *)
(* coordinates of edges at right angles to it, the right edge being one    *)
(* past the last pixel, and by coordinates of pixels along it.             *)
(***************************************************************************)
EXTENDS Integers, Sequences

CONSTANTS
    Layouts, \* lists of screens there may be: x, y, w and h of each
    Lines    \* lines that are asked for: x1, y1, x2 and y2 of each

\* Rectangles with pixels that do not overlap: of two screens one is left of, right of,
\* above or below the other.  Between copies of a screen there may be a barrier or not,
\* by the order of the list.
Separate(r, s) ==
    r.x + r.w <= s.x \/ s.x + s.w <= r.x \/ r.y + r.h <= s.y \/ s.y + s.h <= r.y

ASSUME BarriersAssumption ==
    /\ \A screenList \in Layouts :
         /\ screenList \in Seq([x : Int, y : Int, w : Nat \ {0}, h : Nat \ {0}])
         /\ \A n, k \in DOMAIN screenList : n # k => Separate(screenList[n], screenList[k])
    /\ Lines \subseteq [x1 : Int, y1 : Int, x2 : Int, y2 : Int]

VARIABLES
    layout, \* the geometries of the screens
    line,   \* the line asked for last
    barrier \* the answer: a line of pixels, or why there is none

barrierVars == <<layout, line, barrier>>

Made(l) == [failure |-> "none", line |-> l]
Failure(reason) == [failure |-> reason, line |-> <<>>]

BarriersInit ==
    /\ layout \in Layouts
    /\ line = <<>>
    /\ barrier = Failure("none")

-----------------------------------------------------------------------------
\* Variant: QRect::bottom taken for y + height.
BottomPast(r) == r.y + r.h

Bottom(r) == r.y + r.h - 1

TransposedRect(r) == [x |-> r.y, y |-> r.x, w |-> r.h, h |-> r.w]
TransposedLine(l) == [x1 |-> l.y1, y1 |-> l.x1, x2 |-> l.y2, y2 |-> l.x2]
Sorted(l) == IF l.y1 > l.y2 THEN [l EXCEPT !.y1 = l.y2, !.y2 = l.y1] ELSE l

RightEdge(r) == r.x + r.w

\* The screens the upright line l touches.
Touching(l, screenList) ==
    {n \in DOMAIN screenList :
        LET r == screenList[n]
        IN  l.y1 <= Bottom(r) /\ r.y <= l.y2 /\ l.x1 \in {r.x, RightEdge(r)}}

Fills(l, r) == l.y1 = r.y /\ l.y2 = Bottom(r)

\* For an upright line: one screen, whose edge it fills.
Upright(l, screenList) ==
    LET touching == Touching(l, screenList)
        found == screenList[CHOOSE n \in touching : TRUE]
        at == IF l.x1 = RightEdge(found) THEN l.x1 - 1 ELSE l.x1
    IN  IF touching = {} THEN Failure("NotOnEdge")
        ELSE IF \A n \in touching : touching = {n} /\ Fills(l, found)
             THEN Made([l EXCEPT !.x1 = at, !.x2 = at])
        ELSE Failure("BetweenScreensOrDoesNotFill")

CheckAndMakeBarrier(l, screenList) ==
    IF l.x1 # l.x2 /\ l.y1 # l.y2 THEN Failure("Diagonal")
    ELSE IF l.x1 = l.x2 THEN Upright(Sorted(l), screenList)
    ELSE LET made == Upright(Sorted(TransposedLine(l)),
                             [n \in DOMAIN screenList |-> TransposedRect(screenList[n])])
         IN  IF made.failure = "none" THEN Made(TransposedLine(made.line)) ELSE made

\* One of the lines of a call: they are checked one by one, each on its own.
Check(l) ==
    /\ line = <<>>
    /\ line' = l
    /\ barrier' = CheckAndMakeBarrier(l, layout)
    /\ UNCHANGED layout

BarriersNext == \E l \in Lines : Check(l)

-----------------------------------------------------------------------------
(* The same in pixels.                                                     *)

Pixels(r) == (r.x .. r.x + r.w - 1) \X (r.y .. r.y + r.h - 1)
Desktop == UNION {Pixels(layout[n]) : n \in DOMAIN layout}

\* The pixels before (-1) or behind (0) a line, for one that is not diagonal.
Along(l, offset) ==
    IF l.x1 = l.x2
    THEN {l.x1 + offset} \X ((l.y1 .. l.y2) \cup (l.y2 .. l.y1))
    ELSE ((l.x1 .. l.x2) \cup (l.x2 .. l.x1)) \X {l.y1 + offset}

\* A whole side of screen r: the pixels of r in a row or column of the line.
SideOf(r, l, offset) ==
    Along(l, offset) = {p \in Pixels(r) : IF l.x1 = l.x2 THEN p[1] = l.x1 + offset
                                                        ELSE p[2] = l.y1 + offset}

\* The pixels inside, if those beyond the line belong to no screen.
Guarded(l) ==
    {Along(l, offset) : offset \in {o \in {-1, 0} :
        /\ Along(l, -1 - o) \cap Desktop = {}
        /\ \E n \in DOMAIN layout : SideOf(layout[n], l, o)}}

Accepts == barrier.failure = "none"

\* A line is made a barrier exactly if it lies along a whole side of a screen and
\* nothing but the outside of the desktop is beyond it, and KWin then gets the pixels
\* of that side: a pointer that leaves the desktop there has been on them.
BarriersAtTheOutside ==
    line # <<>> =>
        /\ Accepts <=> /\ line.x1 = line.x2 \/ line.y1 = line.y2
                       /\ Guarded(line) # {}
        /\ Accepts => Guarded(line) = {Along(barrier.line, 0)}

=============================================================================
