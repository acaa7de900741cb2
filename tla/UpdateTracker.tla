--------------------------- MODULE UpdateTracker ---------------------------
(***************************************************************************)
(* The region bookkeeping of winvnc (rfbUpdateTracker.cpp/.h and           *)
(* rfbRegion_win32.cpp): which parts of the screen a viewer does not have  *)
(* yet, and which of them it can make by moving pixels it already shows.   *)
(*                                                                         *)
(* A Region2D is the set of its pixels, a pixel a pair <<x, y>>.  A        *)
(* SimpleUpdateTracker is a record; each of its methods is an operator     *)
(* from the record before the call to the record after it.                 *)
(***************************************************************************)
EXTENDS Integers, FiniteSets

Point  == Int \X Int
Region == SUBSET Point

\* Point::translate and its inverse (translate by delta.negate()).
Plus(p, d)  == <<p[1] + d[1], p[2] + d[2]>>
Minus(p, d) == <<p[1] - d[1], p[2] - d[2]>>

\* Region2D::translate.  Shift(R, d) is R moved by d, Unshift(R, d) R moved
\* by d.negate().
Shift(R, d)   == {Plus(p, d) : p \in R}
Unshift(R, d) == {Minus(p, d) : p \in R}

\* Region2D::get_bounding_rect followed by Rect::area.
Extent(S) == LET hi == CHOOSE a \in S : \A b \in S : b <= a
                 lo == CHOOSE a \in S : \A b \in S : a <= b
             IN  hi - lo + 1

BoundingArea(R) ==
    IF R = {} THEN 0
    ELSE Extent({p[1] : p \in R}) * Extent({p[2] : p \in R})

-----------------------------------------------------------------------------
Tracker == [changed : Region, cached : Region, copied : Region,
            delta : Point, copyOn : BOOLEAN]

\* SimpleUpdateTracker::SimpleUpdateTracker
NewTracker(useCopyrect) ==
    [changed |-> {}, cached |-> {}, copied |-> {},
     delta |-> <<0, 0>>, copyOn |-> useCopyrect]

\* SimpleUpdateTracker::clear keeps the displacement and the copyrect switch.
Cleared(t) == [t EXCEPT !.changed = {}, !.cached = {}, !.copied = {}]

IsEmpty(t) == t.changed = {} /\ t.cached = {} /\ t.copied = {}

AddChanged(t, R) == [t EXCEPT !.changed = @ \cup R]
AddCached(t, R)  == [t EXCEPT !.cached = @ \cup R]

\* The pixels of a new copy whose source the earlier copy also moved, so that
\* both moves can be sent as one.
Overlap(t, dest, d) == Unshift(dest, d) \cap t.copied

\* The earlier copy is (probably) bigger: keep it, send the new one as pixels.
KeepOldCopy(t, dest) == AddChanged(t, dest)

\* The new copy is probably bigger: keep it, except where its source is still
\* to be sent, and send the earlier one as pixels.
Invalid(t, dest, d) == Shift(Unshift(dest, d) \cap t.changed, d)

\* Faulty variant (used only in place of the operator after it, to see which
\* properties notice): pixels still due are copied.
TakeNewCopyUnchecked(t, dest, d) ==
    [t EXCEPT !.changed = @ \cup t.copied, !.copied = dest, !.delta = d]

TakeNewCopy(t, dest, d) ==
    [t EXCEPT !.changed = @ \cup Invalid(t, dest, d) \cup t.copied,
              !.copied  = dest \ Invalid(t, dest, d),
              !.delta   = d]

\* The new copy continues the earlier one: compose the two displacements.
Valid(t, dest, d) == Shift(Overlap(t, dest, d) \ t.changed, d)

ContinueCopy(t, dest, d) ==
    [t EXCEPT !.changed = (@ \cup t.copied \cup dest) \ Valid(t, dest, d),
              !.copied  = Valid(t, dest, d),
              !.delta   = Plus(@, d)]

\* SimpleUpdateTracker::add_copied
AddCopied(t, dest, d) ==
    CASE ~t.copyOn                       -> AddChanged(t, dest)
      [] t.copyOn /\ dest = {}           -> t
      [] t.copyOn /\ dest # {} /\ Overlap(t, dest, d) # {} ->
            ContinueCopy(t, dest, d)
      [] t.copyOn /\ dest # {} /\ Overlap(t, dest, d) = {} ->
            IF BoundingArea(t.copied) > BoundingArea(dest) /\ t.copied # {}
            THEN KeepOldCopy(t, dest)
            ELSE TakeNewCopy(t, dest, d)

\* ClippedUpdateTracker::add_copied: clip the destination and then the source
\* to the display; what had to be removed is sent as pixels.
OnDisplay(display, dest, d) ==
    Shift(Unshift(dest \cap display, d) \cap display, d)

\* Faulty variant first: the source is not clipped.
ClippedAddCopiedFromOutside(t, display, dest, d) ==
    IF dest \cap display = {} THEN t ELSE AddCopied(t, dest \cap display, d)

ClippedAddCopied(t, display, dest, d) ==
    LET kept == OnDisplay(display, dest, d)
        t1   == IF kept # {} THEN AddCopied(t, kept, d) ELSE t
    IN  IF dest \cap display = {} THEN t
        ELSE AddChanged(t1, dest \ kept)

-----------------------------------------------------------------------------
\* SimpleUpdateTracker::flush_update(UpdateTracker &, cliprgn): what tracker t
\* keeps, and what tracker u becomes when it is handed the rest.
Kept(t, clip) == [t EXCEPT !.changed = @ \ clip, !.cached = @ \ clip,
                           !.copied = @ \ clip]

\* Faulty variant: the cached region is taken from t and not handed to u.
FlushedWithoutCached(t, u, clip) ==
    AddChanged(IF t.copied \cap clip = {} THEN u
               ELSE AddCopied(u, t.copied \cap clip, t.delta), t.changed \cap clip)

Flushed(t, u, clip) ==
    LET u1 == IF t.copied \cap clip = {} THEN u
              ELSE AddCopied(u, t.copied \cap clip, t.delta)
    IN  AddCached(AddChanged(u1, t.changed \cap clip), t.cached \cap clip)

\* SimpleUpdateTracker::get_update(UpdateTracker &): hand everything on, keep
\* everything.
Posted(t, u) ==
    LET u1 == IF t.copied = {} THEN u ELSE AddCopied(u, t.copied, t.delta)
    IN  AddCached(AddChanged(u1, t.changed), t.cached)

\* SimpleUpdateTracker::get_update(UpdateInfo &): what goes on the wire.
UpdateInfo(t) == [copied |-> t.copied \ t.changed, delta |-> t.delta,
                  changed |-> t.changed, cached |-> t.cached]

-----------------------------------------------------------------------------
\* The regions of tracker t lie on display S, and so do the pixels its copies
\* come from; no viewer asked for cache rectangles.
OnScreen(S, t) ==
    /\ t \in Tracker
    /\ t.changed \subseteq S
    /\ t.cached = {}
    /\ t.copied \subseteq S
    /\ \A p \in t.copied : Minus(p, t.delta) \in S

\* Tracker t accounts for the difference between the pictures was and now of
\* display S: a pixel it does not mention is the same in both, and a copied
\* pixel can be made from `was' by moving it.
Accounts(S, was, now, t) ==
    LET pixels == t.changed \cup t.cached
    IN  /\ \A p \in S \ (pixels \cup t.copied) : now[p] = was[p]
        /\ \A p \in t.copied \ pixels : now[p] = was[Minus(p, t.delta)]
=============================================================================
