----------------------------- MODULE CopyOrder -----------------------------
(***************************************************************************)
(* How the copied region of an update becomes moves of the viewer          *)
(* (winvnc: rfbRegion_win32.cpp, rfbUpdateTracker.cpp, vncclient.cpp;      *)
(* vncviewer: ClientConnectionCopyRect.cpp).                               *)
(*                                                                         *)
(* ScreenUpdates moves the whole region at once.  In the programs it is    *)
(* cut into rectangles, which travel in an order that depends on the       *)
(* displacement, and the viewer moves each rectangle row by row, each row  *)
(* onto pixels that a later row or rectangle may still have to read.       *)
(***************************************************************************)
EXTENDS UpdateTracker
LOCAL INSTANCE SequencesExt

CONSTANTS
    Grid,            \* the pixels of a display
    Displacements    \* the displacements to try

ASSUME GridAssumption == Grid \subseteq Point /\ IsFiniteSet(Grid)
ASSUME DisplacementsAssumption == Displacements \subseteq Point

-----------------------------------------------------------------------------
\* What GetRegionData makes of a region: its rows fall into bands of equal rows,
\* and a band into rectangles as wide as they can be.
Columns(R, y) == {p[1] : p \in {q \in R : q[2] = y}}

RectanglesOf(R) ==
    LET xs == {p[1] : p \in R}
        ys == {p[2] : p \in R}
    IN  {r \in [left : xs, right : xs, top : ys, bottom : ys] :
            LET columns == Columns(R, r.top)
            IN  /\ r.left <= r.right /\ r.top <= r.bottom
                /\ r.left .. r.right \subseteq columns
                /\ r.left - 1 \notin columns /\ r.right + 1 \notin columns
                /\ \A y \in r.top .. r.bottom : Columns(R, y) = columns
                /\ Columns(R, r.top - 1) # columns
                /\ Columns(R, r.bottom + 1) # columns}

\* Its rectangles from the top to the bottom, and in a band from the left to
\* the right.
RegionData(R) ==
    SetToSortSeq(RectanglesOf(R),
        LAMBDA r, s : r.top < s.top \/ (r.top = s.top /\ r.left < s.left))

\* Region::get_rects, one band of the data after the other: i is the next
\* rectangle in the direction of the bands, n how many are left.
GetRects(R, left2right, topdown) ==
    LET data == RegionData(R)
        xInc == IF left2right THEN 1 ELSE -1
        yInc == IF topdown THEN 1 ELSE -1
        InBand(i, n) ==
            CHOOSE k \in 1 .. n :
                /\ \A j \in 0 .. k - 1 : data[i + j * yInc].top = data[i].top
                /\ k = n \/ data[i + k * yInc].top # data[i].top
        from[i \in Int, n \in Nat] ==
            IF n = 0 THEN <<>>
            ELSE LET k     == InBand(i, n)
                     first == IF xInc # yInc THEN i + (k - 1) * yInc ELSE i
                 IN  [j \in 1 .. k |-> data[first + (j - 1) * xInc]]
                     \o from[i + k * yInc, n - k]
    IN  from[IF topdown THEN 1 ELSE Len(data), Len(data)]

-----------------------------------------------------------------------------
\* SimpleUpdateTracker::get_update: the order of the copies on the wire.
\* Faulty variant: only the order of the bands follows the displacement.
CopiesByBand(R, d) == GetRects(R, TRUE, d[2] <= 0)

Copies(R, d) == GetRects(R, d[1] <= 0, d[2] <= 0)

\* ClientConnection::ReadCopyRect: the rows of rectangle r, from the bottom
\* when its source is not below it.  memcpy moves a row at once: the C library
\* of the build also moves overlapping rows correctly.
Rows(r, d) == [j \in 1 .. r.bottom - r.top + 1 |->
                  IF d[2] >= 0 THEN r.bottom - j + 1 ELSE r.top + j - 1]

MoveRow(pic, r, y, d) ==
    [p \in Grid |-> IF p \in (r.left .. r.right) \X {y} THEN pic[Minus(p, d)]
                    ELSE pic[p]]

ReadCopyRect(pic, r, d) ==
    FoldLeft(LAMBDA q, y : MoveRow(q, r, y, d), pic, Rows(r, d))

\* The viewer's picture after the copies of vncClient::SendUpdate.
Played(pic, R, d) == FoldLeft(LAMBDA q, r : ReadCopyRect(q, r, d), pic, Copies(R, d))

-----------------------------------------------------------------------------
\* The regions whose pixels come from the display when moved by d.
Movable(d) == SUBSET {p \in Grid : Minus(p, d) \in Grid}

\* Whatever the shape of the region and the displacement, moving it rectangle
\* by rectangle and row by row gives the viewer what moving it at once gives:
\* no move overwrites what a later one reads, and no pixel is moved twice or
\* left out.  Each pixel of the picture is told apart from all others.
CopiesInOrder ==
    \A d \in Displacements : \A R \in Movable(d) :
        Played([p \in Grid |-> p], R, d) =
            [p \in Grid |-> IF p \in R THEN Minus(p, d) ELSE p]
=============================================================================
