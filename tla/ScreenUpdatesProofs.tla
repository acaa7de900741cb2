------------------------ MODULE ScreenUpdatesProofs ------------------------
(***************************************************************************)
(* The viewer's picture catches up with the screen, for every display,     *)
(* every set of windows and of displacements: the invariant `Inductive' of *)
(* ScreenUpdates is inductive, and the properties of ScreenUpdates follow. *)
(* Cache rectangles are left out: with them and windows that move the      *)
(* properties fail (README, section 4).                                    *)
(***************************************************************************)
EXTENDS ScreenUpdates, TLAPS

-----------------------------------------------------------------------------
(* What the operations of the update tracker preserve, for every display, every      *)
(* region and every displacement.                                                     *)

\* Moving a pixel there and back.
LEMMA PointArithmetic ==
    ASSUME NEW p \in Point, NEW d \in Point, NEW e \in Point
    PROVE  /\ Plus(p, d) \in Point
           /\ Minus(p, d) \in Point
           /\ Minus(Plus(p, d), d) = p
           /\ Plus(Minus(p, d), d) = p
           /\ Minus(p, Plus(d, e)) = Minus(Minus(p, e), d)
BY DEF Point, Plus, Minus

\* Region2D::translate: a pixel is in the moved region iff the pixel it comes
\* from is in the region.
LEMMA ShiftMember ==
    ASSUME NEW R, R \subseteq Point, NEW d \in Point, NEW p \in Point
    PROVE  /\ p \in Shift(R, d) <=> Minus(p, d) \in R
           /\ p \in Unshift(R, d) <=> Plus(p, d) \in R
           /\ Shift(R, d) \subseteq Point
           /\ Unshift(R, d) \subseteq Point
<1>1. \A q \in Point : /\ Plus(q, d) \in Point /\ Minus(q, d) \in Point
                       /\ Minus(Plus(q, d), d) = q /\ Plus(Minus(q, d), d) = q
  BY PointArithmetic
<1>2. Shift(R, d) \subseteq Point /\ Unshift(R, d) \subseteq Point
  BY <1>1 DEF Shift, Unshift
<1>3. p \in Shift(R, d) <=> Minus(p, d) \in R
  BY <1>1 DEF Shift
<1>4. p \in Unshift(R, d) <=> Plus(p, d) \in R
  BY <1>1 DEF Unshift
<1>5. QED
  BY <1>2, <1>3, <1>4

-----------------------------------------------------------------------------
\* The fields of a tracker, and of a tracker after each of its operations.
LEMMA TrackerFields ==
    ASSUME NEW t \in Tracker
    PROVE  /\ t.changed \in Region /\ t.cached \in Region
           /\ t.copied \in Region
           /\ t.delta \in Point /\ t.copyOn \in BOOLEAN
BY DEF Tracker

LEMMA AddChangedFields ==
    ASSUME NEW t \in Tracker, NEW R \in Region
    PROVE  /\ AddChanged(t, R) \in Tracker
           /\ AddChanged(t, R).changed = t.changed \cup R
           /\ AddChanged(t, R).cached = t.cached
           /\ AddChanged(t, R).copied = t.copied
           /\ AddChanged(t, R).delta = t.delta
           /\ AddChanged(t, R).copyOn = t.copyOn
BY DEF Tracker, Region, AddChanged

LEMMA AddNothingCached ==
    ASSUME NEW t \in Tracker
    PROVE  AddCached(t, {}) = t
BY DEF Tracker, Region, AddCached

LEMMA TakeNewCopyFields ==
    ASSUME NEW t \in Tracker, NEW dest \in Region, NEW d \in Point
    PROVE  /\ TakeNewCopy(t, dest, d) \in Tracker
           /\ TakeNewCopy(t, dest, d).changed =
                 t.changed \cup Invalid(t, dest, d) \cup t.copied
           /\ TakeNewCopy(t, dest, d).cached = t.cached
           /\ TakeNewCopy(t, dest, d).copied = dest \ Invalid(t, dest, d)
           /\ TakeNewCopy(t, dest, d).delta = d
           /\ TakeNewCopy(t, dest, d).copyOn = t.copyOn
<1>1. Unshift(dest, d) \cap t.changed \subseteq Point
  BY TrackerFields DEF Region
<1>2. Invalid(t, dest, d) \in Region
  BY <1>1, PointArithmetic DEF Invalid, Shift, Region
<1>3. QED
  BY <1>2 DEF Tracker, Region, TakeNewCopy

LEMMA ContinueCopyFields ==
    ASSUME NEW t \in Tracker, NEW dest \in Region, NEW d \in Point
    PROVE  /\ ContinueCopy(t, dest, d) \in Tracker
           /\ ContinueCopy(t, dest, d).changed =
                 (t.changed \cup t.copied \cup dest) \ Valid(t, dest, d)
           /\ ContinueCopy(t, dest, d).cached = t.cached
           /\ ContinueCopy(t, dest, d).copied = Valid(t, dest, d)
           /\ ContinueCopy(t, dest, d).delta = Plus(t.delta, d)
           /\ ContinueCopy(t, dest, d).copyOn = t.copyOn
<1>1. Overlap(t, dest, d) \ t.changed \subseteq Point
  BY TrackerFields DEF Overlap, Region
<1>2. Valid(t, dest, d) \in Region
  BY <1>1, PointArithmetic DEF Valid, Shift, Region
<1>3. Plus(t.delta, d) \in Point
  BY TrackerFields, PointArithmetic
<1>4. QED
  BY <1>2, <1>3 DEF Tracker, Region, ContinueCopy

LEMMA ClearedFields ==
    ASSUME NEW t \in Tracker
    PROVE  /\ Cleared(t) \in Tracker
           /\ Cleared(t).changed = {} /\ Cleared(t).cached = {}
           /\ Cleared(t).copied = {}
           /\ Cleared(t).delta = t.delta /\ Cleared(t).copyOn = t.copyOn
BY DEF Tracker, Region, Cleared

LEMMA KeptFields ==
    ASSUME NEW t \in Tracker, NEW shown
    PROVE  /\ Kept(t, shown) \in Tracker
           /\ Kept(t, shown).changed = t.changed \ shown
           /\ Kept(t, shown).cached = t.cached \ shown
           /\ Kept(t, shown).copied = t.copied \ shown
           /\ Kept(t, shown).delta = t.delta /\ Kept(t, shown).copyOn = t.copyOn
BY DEF Tracker, Region, Kept

LEMMA NewTrackerFields ==
    ASSUME NEW on \in BOOLEAN
    PROVE  /\ NewTracker(on) \in Tracker
           /\ NewTracker(on).changed = {} /\ NewTracker(on).cached = {}
           /\ NewTracker(on).copied = {}
           /\ NewTracker(on).delta = <<0, 0>> /\ NewTracker(on).copyOn = on
BY DEF Tracker, Region, NewTracker, Point

-----------------------------------------------------------------------------
(* add_changed *)

\* Marking a region keeps the tracker on the display.
LEMMA AddChangedOnScreen ==
    ASSUME NEW S \in SUBSET Point, NEW t, OnScreen(S, t), NEW R \in SUBSET S
    PROVE  OnScreen(S, AddChanged(t, R))
<1>1. R \in Region /\ t \in Tracker
  BY DEF Region, OnScreen
<1>2. QED
  BY <1>1, AddChangedFields DEF OnScreen

\* Marking a region accounts for whatever changed in it.
LEMMA AddChangedAccounts ==
    ASSUME NEW S \in SUBSET Point, NEW t, OnScreen(S, t), NEW R \in SUBSET S,
           NEW was, NEW mid, NEW now, Accounts(S, was, mid, t),
           \A p \in S \ R : now[p] = mid[p]
    PROVE  Accounts(S, was, now, AddChanged(t, R))
<1> DEFINE u == AddChanged(t, R)
<1>0. R \in Region /\ t \in Tracker
  BY DEF Region, OnScreen
<1>1. /\ u.changed = t.changed \cup R /\ u.copied = t.copied /\ u.delta = t.delta
      /\ u.cached = t.cached
  BY <1>0, AddChangedFields
<1>2. t.copied \subseteq S /\ t.cached = {}
  BY DEF OnScreen
<1> HIDE DEF u
<1>3. QED
  BY <1>1, <1>2 DEF Accounts, u

-----------------------------------------------------------------------------
(* add_copied *)

\* `now' is `mid' after its pixels are moved by d to dest.
IsMove(S, mid, now, dest, d) ==
    /\ \A p \in S \ dest : now[p] = mid[p]
    /\ \A p \in dest : now[p] = mid[Minus(p, d)]

\* Region `dest' of display S is filled from display S by a move of d.
OnBothSides(S, dest, d) ==
    /\ S \in SUBSET Point /\ d \in Point
    /\ dest \in SUBSET S /\ Unshift(dest, d) \subseteq S

\* The case of a new copy that does not continue the pending one: the pending
\* one becomes pixels, and so does what would be copied from pixels still due.
LEMMA TakeNewCopyCorrect ==
    ASSUME NEW S, NEW t, NEW dest, NEW d, OnBothSides(S, dest, d),
           OnScreen(S, t), Overlap(t, dest, d) = {},
           NEW was, NEW mid, NEW now
    PROVE  /\ OnScreen(S, TakeNewCopy(t, dest, d))
           /\ Accounts(S, was, mid, t) /\ IsMove(S, mid, now, dest, d)
                 => Accounts(S, was, now, TakeNewCopy(t, dest, d))
<1> DEFINE invalid == Invalid(t, dest, d)
           u == TakeNewCopy(t, dest, d)
<1>0. t \in Tracker /\ dest \in Region /\ d \in Point
  BY DEF OnBothSides, OnScreen, Region
<1>1. /\ S \in SUBSET Point /\ d \in Point /\ dest \in SUBSET Point
      /\ dest \in SUBSET S /\ Unshift(dest, d) \subseteq S
      /\ t.changed \subseteq S /\ t.cached = {}
      /\ t.copied \subseteq S
  BY DEF OnBothSides, OnScreen
<1>2. /\ u \in Tracker
      /\ u.changed = t.changed \cup invalid \cup t.copied
      /\ u.cached = t.cached
      /\ u.copied = dest \ invalid
      /\ u.delta = d
  BY <1>0, TakeNewCopyFields
<1>3. \A p \in dest : /\ Minus(p, d) \in Unshift(dest, d)
                      /\ Minus(p, d) \in S
                      /\ Minus(p, d) \notin t.copied
  BY <1>1 DEF Unshift, Overlap
<1>4. Unshift(dest, d) \cap t.changed \subseteq Point
  BY <1>1
<1>5. \A p \in S : p \in invalid <=>
                      Minus(p, d) \in Unshift(dest, d) \cap t.changed
  BY <1>1, <1>4, ShiftMember DEF Invalid
<1>6. invalid \subseteq S
  <2> SUFFICES ASSUME NEW p \in dest, Minus(p, d) \in t.changed
               PROVE  Plus(Minus(p, d), d) \in S
    BY DEF Invalid, Shift, Unshift
  <2> QED
    BY <1>1, PointArithmetic
<1> HIDE DEF invalid, u
<1>7. OnScreen(S, u)
  BY <1>1, <1>2, <1>3, <1>6 DEF OnScreen
<1>8. ASSUME Accounts(S, was, mid, t), IsMove(S, mid, now, dest, d)
      PROVE  Accounts(S, was, now, u)
  <2>1. ASSUME NEW p \in S \ (u.changed \cup u.copied)
        PROVE  now[p] = was[p]
    BY <1>1, <1>2, <1>8, <2>1 DEF Accounts, IsMove
  <2>2. ASSUME NEW p \in u.copied \ u.changed
        PROVE  now[p] = was[Minus(p, u.delta)]
    <3>1. p \in dest /\ p \in S /\ p \notin invalid
      BY <1>1, <1>2, <2>2
    <3>2. Minus(p, d) \in S \ (t.changed \cup t.copied)
      BY <1>3, <1>5, <3>1
    <3>3. QED
      BY <1>1, <1>2, <1>8, <3>1, <3>2 DEF Accounts, IsMove
  <2>3. QED
    BY <2>1, <2>2 DEF Accounts
<1>9. QED
  BY <1>7, <1>8 DEF u

\* The case of a new copy that moves on what the pending one moved.
LEMMA ContinueCopyCorrect ==
    ASSUME NEW S, NEW t, NEW dest, NEW d, OnBothSides(S, dest, d),
           OnScreen(S, t),
           NEW was, NEW mid, NEW now
    PROVE  /\ OnScreen(S, ContinueCopy(t, dest, d))
           /\ Accounts(S, was, mid, t) /\ IsMove(S, mid, now, dest, d)
                 => Accounts(S, was, now, ContinueCopy(t, dest, d))
<1> DEFINE valid == Valid(t, dest, d)
           u == ContinueCopy(t, dest, d)
<1>1. /\ S \in SUBSET Point /\ d \in Point /\ dest \in SUBSET Point
      /\ dest \in SUBSET S /\ Unshift(dest, d) \subseteq S
      /\ t.changed \subseteq S /\ t.cached = {}
      /\ t.copied \subseteq S /\ t.delta \in Point
      /\ \A p \in t.copied : Minus(p, t.delta) \in S
  BY TrackerFields DEF OnBothSides, OnScreen
<1>0. t \in Tracker /\ dest \in Region /\ d \in Point
  BY DEF OnBothSides, OnScreen, Region
<1>2. /\ u \in Tracker
      /\ u.changed = (t.changed \cup t.copied \cup dest) \ valid
      /\ u.cached = t.cached
      /\ u.copied = valid
      /\ u.delta = Plus(t.delta, d)
  BY <1>0, ContinueCopyFields
<1>3. ASSUME NEW p \in valid
      PROVE  /\ p \in dest
             /\ Minus(p, d) \in t.copied \ t.changed
             /\ Minus(p, Plus(t.delta, d)) = Minus(Minus(p, d), t.delta)
  <2>1. PICK q \in dest : /\ Minus(q, d) \in t.copied \ t.changed
                          /\ p = Plus(Minus(q, d), d)
    BY <1>3 DEF Valid, Shift, Overlap, Unshift
  <2>2. p = q
    BY <1>1, <2>1, PointArithmetic
  <2>3. Minus(p, Plus(t.delta, d)) = Minus(Minus(p, d), t.delta)
    <3>1. p \in Point /\ d \in Point /\ t.delta \in Point
      BY <1>1, <2>2
    <3>2. QED
      BY <3>1 DEF Point, Plus, Minus
  <2>4. QED
    BY <2>1, <2>2, <2>3
<1> HIDE DEF valid, u
<1>4. OnScreen(S, u)
  BY <1>1, <1>2, <1>3 DEF OnScreen
<1>5. ASSUME Accounts(S, was, mid, t), IsMove(S, mid, now, dest, d)
      PROVE  Accounts(S, was, now, u)
  <2>1. ASSUME NEW p \in S \ (u.changed \cup u.copied)
        PROVE  now[p] = was[p]
    BY <1>1, <1>2, <1>5, <2>1 DEF Accounts, IsMove
  <2>2. ASSUME NEW p \in u.copied \ u.changed
        PROVE  now[p] = was[Minus(p, u.delta)]
    BY <1>1, <1>2, <1>3, <1>5, <2>2 DEF Accounts, IsMove
  <2>3. QED
    BY <2>1, <2>2 DEF Accounts
<1>6. QED
  BY <1>4, <1>5 DEF u

\* add_copied in all its cases.
LEMMA AddCopiedCorrect ==
    ASSUME NEW S, NEW t, NEW dest, NEW d, OnBothSides(S, dest, d),
           OnScreen(S, t),
           NEW was, NEW mid, NEW now
    PROVE  /\ OnScreen(S, AddCopied(t, dest, d))
           /\ Accounts(S, was, mid, t) /\ IsMove(S, mid, now, dest, d)
                 => Accounts(S, was, now, AddCopied(t, dest, d))
<1>1. S \in SUBSET Point /\ dest \in SUBSET S /\ t.copyOn \in BOOLEAN
  BY TrackerFields DEF OnBothSides, OnScreen
<1>2. /\ OnScreen(S, AddChanged(t, dest))
      /\ Accounts(S, was, mid, t) /\ IsMove(S, mid, now, dest, d)
            => Accounts(S, was, now, AddChanged(t, dest))
  BY <1>1, AddChangedOnScreen, AddChangedAccounts DEF IsMove
<1>3. CASE ~t.copyOn
  BY <1>2, <1>3 DEF AddCopied
<1>4. CASE t.copyOn /\ dest = {}
  <2>1. AddCopied(t, dest, d) = t
    BY <1>4 DEF AddCopied
  <2>2. t.copied \subseteq S
    BY DEF OnScreen
  <2>3. Accounts(S, was, mid, t) /\ IsMove(S, mid, now, dest, d)
           => Accounts(S, was, now, t)
    BY <1>4, <2>2 DEF Accounts, IsMove
  <2>4. QED
    BY <2>1, <2>3
<1>5. CASE t.copyOn /\ dest # {} /\ Overlap(t, dest, d) # {}
  <2>1. AddCopied(t, dest, d) = ContinueCopy(t, dest, d)
    BY <1>5 DEF AddCopied
  <2>2. QED
    BY <2>1, ContinueCopyCorrect
<1>6. CASE t.copyOn /\ dest # {} /\ Overlap(t, dest, d) = {}
  <2>1. \/ AddCopied(t, dest, d) = AddChanged(t, dest)
        \/ AddCopied(t, dest, d) = TakeNewCopy(t, dest, d)
    BY <1>6 DEF AddCopied, KeepOldCopy
  <2>2. QED
    BY <1>2, <1>6, <2>1, TakeNewCopyCorrect
<1>7. QED
  BY <1>1, <1>3, <1>4, <1>5, <1>6

-----------------------------------------------------------------------------
(* Handing one tracker's update on to another: get_update and flush_update. *)

\* Trackers compose like the changes they account for: what happened from
\* `was' to `mid' is in u, what happened from `mid' to `now' is in t, and after
\* t is handed on to u all of it is in u.
LEMMA PostedCorrect ==
    ASSUME NEW S \in SUBSET Point, NEW t, OnScreen(S, t), NEW u, OnScreen(S, u),
           NEW was, NEW mid, NEW now
    PROVE  /\ OnScreen(S, Posted(t, u))
           /\ Accounts(S, was, mid, u) /\ Accounts(S, mid, now, t)
                 => Accounts(S, was, now, Posted(t, u))
<1> DEFINE u1 == IF t.copied = {} THEN u ELSE AddCopied(u, t.copied, t.delta)
           moved == [p \in S |-> IF p \in t.copied THEN mid[Minus(p, t.delta)]
                                 ELSE mid[p]]
<1>1. /\ t \in Tracker /\ t.changed \in SUBSET S /\ t.cached = {}
      /\ t.copied \in SUBSET S /\ t.delta \in Point
      /\ \A p \in t.copied : Minus(p, t.delta) \in S
  BY TrackerFields DEF OnScreen
<1>2. OnBothSides(S, t.copied, t.delta)
  BY <1>1 DEF OnBothSides, Unshift
<1>3. IsMove(S, mid, moved, t.copied, t.delta)
  BY <1>1 DEF IsMove
<1> HIDE DEF moved
<1>4. /\ OnScreen(S, u1)
      /\ Accounts(S, was, mid, u) => Accounts(S, was, moved, u1)
  <2>1. CASE t.copied = {}
    <3>1. \A p \in S : moved[p] = mid[p]
      BY <1>3, <2>1 DEF IsMove
    <3>2. u.copied \subseteq S
      BY DEF OnScreen
    <3>3. Accounts(S, was, mid, u) => Accounts(S, was, moved, u)
      BY <3>1, <3>2 DEF Accounts
    <3>4. QED
      BY <2>1, <3>3
  <2>2. CASE t.copied # {}
    <3>1. u1 = AddCopied(u, t.copied, t.delta)
      BY <2>2
    <3> HIDE DEF u1
    <3>2. QED
      BY <1>2, <1>3, <3>1, AddCopiedCorrect
  <2>3. QED
    BY <2>1, <2>2
<1> HIDE DEF u1
<1>5. OnScreen(S, AddChanged(u1, t.changed))
  BY <1>1, <1>4, AddChangedOnScreen
<1>6. Posted(t, u) = AddChanged(u1, t.changed)
  <2>1. Posted(t, u) = AddCached(AddChanged(u1, t.changed), {})
    BY <1>1 DEF Posted, u1
  <2>2. AddChanged(u1, t.changed) \in Tracker
    BY <1>5 DEF OnScreen
  <2>3. QED
    BY <2>1, <2>2, AddNothingCached
<1>7. ASSUME Accounts(S, was, mid, u), Accounts(S, mid, now, t)
      PROVE  Accounts(S, was, now, AddChanged(u1, t.changed))
  <2>1. Accounts(S, was, moved, u1)
    BY <1>4, <1>7
  <2>2. \A p \in S \ t.changed : now[p] = moved[p]
    BY <1>1, <1>3, <1>7 DEF Accounts, IsMove
  <2>3. QED
    BY <1>1, <1>4, <2>1, <2>2, AddChangedAccounts
<1>8. QED
  BY <1>5, <1>6, <1>7

\* Flushing the whole display is handing everything on.
LEMMA FlushedIsPosted ==
    ASSUME NEW S \in SUBSET Point, NEW t, OnScreen(S, t), NEW u
    PROVE  Flushed(t, u, S) = Posted(t, u)
<1>1. t.copied \cap S = t.copied /\ t.changed \cap S = t.changed
      /\ t.cached \cap S = t.cached
  BY DEF OnScreen
<1>2. QED
  BY <1>1 DEF Flushed, Posted

\* What tracker t keeps after a flush of the whole display, or after clear(),
\* is nothing.
LEMMA NothingLeft ==
    ASSUME NEW S \in SUBSET Point, NEW t, OnScreen(S, t), NEW pic,
           NEW u \in {Kept(t, S), Cleared(t)}
    PROVE  OnScreen(S, u) /\ Accounts(S, pic, pic, u) /\ IsEmpty(u)
<1>1. /\ u \in Tracker
      /\ u.changed = {} /\ u.cached = {} /\ u.copied = {}
  BY KeptFields, ClearedFields DEF OnScreen
<1>2. QED
  BY <1>1 DEF OnScreen, Accounts, IsEmpty

\* Flushing no region changes neither tracker.
LEMMA NothingFlushed ==
    ASSUME NEW t \in Tracker, NEW u \in Tracker
    PROVE  Kept(t, {}) = t /\ Flushed(t, u, {}) = u
<1>1. Kept(t, {}) = t
  BY DEF Kept, Tracker
<1>2. Flushed(t, u, {}) = AddCached(AddChanged(u, {}), {})
  BY DEF Flushed
<1>3. AddChanged(u, {}) = u
  BY DEF AddChanged, Tracker
<1>4. QED
  BY <1>1, <1>2, <1>3, AddNothingCached

-----------------------------------------------------------------------------
(* The desktop thread's own tracker for one moved window. *)

\* The clipped copy comes from the display and goes to the display.
LEMMA OnDisplayBothSides ==
    ASSUME NEW S \in SUBSET Point, NEW dest \in SUBSET S, NEW d \in Point
    PROVE  /\ OnBothSides(S, OnDisplay(S, dest, d), d)
           /\ OnDisplay(S, dest, d) \subseteq dest
<1>1. \A p \in dest : Plus(Minus(p, d), d) = p
  BY PointArithmetic
<1>2. \A q \in OnDisplay(S, dest, d) : q \in dest /\ Minus(q, d) \in S
  BY <1>1 DEF OnDisplay, Shift, Unshift
<1>3. QED
  BY <1>2 DEF OnBothSides, Unshift

\* add_copied on a tracker that holds nothing yet.
LEMMA FirstCopy ==
    ASSUME NEW t \in Tracker, IsEmpty(t), t.copyOn,
           NEW dest \in Region, dest # {}, NEW d \in Point
    PROVE  /\ AddCopied(t, dest, d) \in Tracker
           /\ AddCopied(t, dest, d).changed = {}
           /\ AddCopied(t, dest, d).cached = {}
           /\ AddCopied(t, dest, d).copied = dest
           /\ AddCopied(t, dest, d).delta = d
<1>1. t.changed = {} /\ t.cached = {} /\ t.copied = {}
  BY DEF IsEmpty
<1>2. Overlap(t, dest, d) = {}
  BY <1>1 DEF Overlap
<1>3. AddCopied(t, dest, d) = TakeNewCopy(t, dest, d)
  BY <1>1, <1>2 DEF AddCopied
<1>4. Invalid(t, dest, d) = {}
  BY <1>1 DEF Invalid, Shift
<1> DEFINE u == TakeNewCopy(t, dest, d)
<1>5. /\ u \in Tracker
      /\ u.changed = t.changed \cup Invalid(t, dest, d) \cup t.copied
      /\ u.cached = t.cached
      /\ u.copied = dest \ Invalid(t, dest, d)
      /\ u.delta = d
  BY TakeNewCopyFields
<1> HIDE DEF u
<1>6. QED
  BY <1>1, <1>3, <1>4, <1>5 DEF u

\* A fresh tracker holds the move as it was given: the part whose source is on
\* the display as a copy, the rest as pixels.
LEMMA MoveTracked ==
    ASSUME NEW S \in SUBSET Point, NEW dest \in SUBSET S, NEW d \in Point
    PROVE  LET kept  == OnDisplay(S, dest, d)
               local == ClippedAddCopied(NewTracker(TRUE), S, dest, d)
           IN  /\ OnScreen(S, local)
               /\ local.changed = dest \ kept
               /\ local.copied = kept
               /\ kept # {} => local.delta = d
<1> DEFINE kept  == OnDisplay(S, dest, d)
           fresh == NewTracker(TRUE)
           t1    == IF kept # {} THEN AddCopied(fresh, kept, d) ELSE fresh
           local == ClippedAddCopied(fresh, S, dest, d)
<1>1. OnBothSides(S, kept, d) /\ kept \subseteq dest
  BY OnDisplayBothSides
<1>2. /\ fresh \in Tracker /\ fresh.changed = {} /\ fresh.cached = {}
      /\ fresh.copied = {} /\ fresh.copyOn /\ IsEmpty(fresh)
  BY NewTrackerFields DEF IsEmpty
<1> HIDE DEF kept, fresh
<1>3. /\ t1 \in Tracker /\ t1.changed = {} /\ t1.cached = {}
      /\ t1.copied = kept /\ (kept # {} => t1.delta = d)
  <2>1. CASE kept = {}
    BY <1>2, <2>1
  <2>2. CASE kept # {}
    <3>1. kept \in Region
      BY <1>1 DEF Region
    <3>2. t1 = AddCopied(fresh, kept, d)
      BY <2>2
    <3> HIDE DEF t1
    <3>3. QED
      BY <1>2, <2>2, <3>1, <3>2, FirstCopy
  <2>3. QED
    BY <2>1, <2>2
<1> HIDE DEF t1
<1>4. CASE dest = {}
  <2>1. local = fresh
    BY <1>4 DEF ClippedAddCopied
  <2>2. kept = {}
    BY <1>1, <1>4
  <2>3. QED
    BY <1>2, <1>4, <2>1, <2>2 DEF OnScreen, kept, fresh
<1>5. CASE dest # {}
  <2>1. dest \cap S = dest
    OBVIOUS
  <2>2. local = AddChanged(t1, dest \ kept)
    BY <1>5, <2>1 DEF ClippedAddCopied, t1, kept
  <2>3. dest \ kept \in Region
    BY DEF Region
  <2> HIDE DEF local
  <2>4. /\ local \in Tracker /\ local.changed = dest \ kept
        /\ local.cached = {} /\ local.copied = kept
        /\ (kept # {} => local.delta = d)
    <3>1. t1 \in Tracker
      BY <1>3
    <3>2. /\ local \in Tracker /\ local.changed = t1.changed \cup (dest \ kept)
          /\ local.cached = t1.cached /\ local.copied = t1.copied
          /\ local.delta = t1.delta
      BY <2>2, <2>3, <3>1, AddChangedFields
    <3>3. QED
      BY <1>3, <3>2
  <2>5. \A p \in kept : Minus(p, local.delta) \in S
    BY <1>1, <2>4 DEF OnBothSides, Unshift
  <2>6. OnScreen(S, local)
    BY <1>1, <2>4, <2>5 DEF OnScreen
  <2>7. QED
    BY <2>4, <2>6 DEF local, kept, fresh
<1>6. QED
  BY <1>4, <1>5

-----------------------------------------------------------------------------
\* A change is never lost when one tracker is handed on to another.
LEMMA PostedChanged ==
    ASSUME NEW S \in SUBSET Point, NEW t, OnScreen(S, t), NEW u, OnScreen(S, u)
    PROVE  t.changed \subseteq Posted(t, u).changed
<1> DEFINE u1 == IF t.copied = {} THEN u ELSE AddCopied(u, t.copied, t.delta)
           v  == AddChanged(u1, t.changed)
<1>1. /\ t.changed \in SUBSET S /\ t.cached = {}
      /\ t.copied \in SUBSET S /\ t.delta \in Point
      /\ \A p \in t.copied : Minus(p, t.delta) \in S
  BY TrackerFields DEF OnScreen
<1>2. OnBothSides(S, t.copied, t.delta)
  BY <1>1 DEF OnBothSides, Unshift
<1>3. u1 \in Tracker
  <2>1. OnScreen(S, AddCopied(u, t.copied, t.delta))
    BY <1>2, AddCopiedCorrect
  <2>2. QED
    BY <2>1 DEF OnScreen
<1> HIDE DEF u1
<1>4. t.changed \in Region
  BY <1>1 DEF Region
<1>5. v \in Tracker /\ v.changed = u1.changed \cup t.changed
  BY <1>3, <1>4, AddChangedFields
<1>6. Posted(t, u) = AddCached(v, {})
  BY <1>1 DEF Posted, u1
<1> HIDE DEF v
<1>7. Posted(t, u) = v
  BY <1>5, <1>6, AddNothingCached
<1>8. QED
  BY <1>5, <1>7

\* Switching copyrect on or off keeps what the tracker holds.
LEMMA CopySwitch ==
    ASSUME NEW S \in SUBSET Point, NEW t, OnScreen(S, t), NEW on \in BOOLEAN,
           NEW was, NEW now
    PROVE  /\ OnScreen(S, [t EXCEPT !.copyOn = on])
           /\ Accounts(S, was, now, t) =>
                 Accounts(S, was, now, [t EXCEPT !.copyOn = on])
<1> DEFINE u == [t EXCEPT !.copyOn = on]
<1>1. t \in Tracker
  BY DEF OnScreen
<1>2. /\ u \in Tracker
      /\ u.changed = t.changed /\ u.cached = t.cached
      /\ u.copied = t.copied /\ u.delta = t.delta
  BY <1>1 DEF Tracker
<1> HIDE DEF u
<1>3. OnScreen(S, u)
  BY <1>2 DEF OnScreen
<1>4. Accounts(S, was, now, t) => Accounts(S, was, now, u)
  BY <1>2 DEF Accounts
<1>5. QED
  BY <1>3, <1>4 DEF u

-----------------------------------------------------------------------------
(* The update thread and the viewer. *)

NoCache == "cache" \notin Events

\* The viewer, given an update that accounts for the difference between what it
\* shows and the screen, shows the screen.
LEMMA ShownIsScreen ==
    ASSUME NEW t, OnScreen(Screen, t), NEW was \in Picture, NEW now \in Picture
    PROVE  /\ Shown(was, now, UpdateInfo(t)) \in Picture
           /\ Accounts(Screen, was, now, t) =>
                 Shown(was, now, UpdateInfo(t)) = now
<1> DEFINE info == UpdateInfo(t)
           shown == Shown(was, now, info)
<1>1. /\ t.cached = {}
      /\ \A p \in t.copied : Minus(p, t.delta) \in Screen
  BY DEF OnScreen
<1>2. /\ info.changed = t.changed /\ info.cached = {}
      /\ info.copied = t.copied \ t.changed /\ info.delta = t.delta
  BY <1>1 DEF UpdateInfo
<1> HIDE DEF info
<1>3. shown = [p \in Screen |->
                  IF p \in t.changed THEN now[p]
                  ELSE IF p \in t.copied THEN was[Minus(p, t.delta)]
                  ELSE was[p]]
  BY <1>2 DEF Shown
<1>4. shown \in Picture
  BY <1>1, <1>3 DEF Picture
<1>5. ASSUME Accounts(Screen, was, now, t) PROVE shown = now
  <2>1. \A p \in Screen : shown[p] = now[p]
    BY <1>1, <1>3, <1>5 DEF Accounts
  <2>2. QED
    BY <1>4, <2>1 DEF Picture
<1>6. QED
  BY <1>4, <1>5 DEF info

-----------------------------------------------------------------------------
\* What the flush at the start of the update thread's turn makes of the two
\* trackers: either it flushes nothing, or it flushes everything.
LEMMA FlushCorrect ==
    ASSUME Inductive, Flush
    PROVE  /\ OnScreen(Screen, Due) /\ OnScreen(Screen, tracker')
           /\ Wanted \in {{}, Screen}
           /\ flushed' \in Picture /\ synced' \in BOOLEAN /\ dropped' \in BOOLEAN
           /\ ~IsEmpty(Due) => Wanted = Screen
           /\ newSize => ~synced'
           /\ Settled' => /\ Accounts(Screen, flushed', screen, tracker')
                          /\ Accounts(Screen, viewer, flushed', Due)
           /\ Wanted = Screen => flushed' = screen
<1> USE ScreenAssumption
<1>1. /\ Screen \in SUBSET Point
      /\ OnScreen(Screen, tracker) /\ OnScreen(Screen, update)
      /\ tracker \in Tracker /\ update \in Tracker
      /\ screen \in Picture /\ flushed \in Picture
      /\ synced \in BOOLEAN /\ dropped \in BOOLEAN
  BY DEF Inductive, TypeOK
<1>0. Flush => dropped' \in BOOLEAN
  BY DEF Flush
<1>2. Wanted \in {{}, Screen}
  BY DEF Inductive, TypeOK, Wanted
<1>3. CASE Wanted = Screen
  <2>1. /\ tracker' = Kept(tracker, Screen) /\ flushed' = screen
        /\ synced' = (synced \/ (Screen \subseteq tracker.changed /\ ~newSize))
        /\ dropped' = (dropped /\ ~(Screen \subseteq tracker.changed))
    BY <1>3 DEF Flush, Refreshed
  <2>2. Due = Posted(tracker, update)
    BY <1>1, <1>3, FlushedIsPosted DEF Due
  <2>3. OnScreen(Screen, Due)
    BY <1>1, <2>2, PostedCorrect
  <2>4. OnScreen(Screen, tracker') /\ Accounts(Screen, screen, screen, tracker')
    BY <1>1, <2>1, NothingLeft
  <2>5. Settled => Accounts(Screen, viewer, screen, Due)
    BY <1>1, <2>2, PostedCorrect DEF Inductive
  <2>6. Screen \subseteq tracker.changed => Accounts(Screen, viewer, screen, Due)
    <3>1. tracker.changed \subseteq Due.changed
      BY <1>1, <2>2, PostedChanged
    <3>2. Due.copied \subseteq Screen
      BY <2>3 DEF OnScreen
    <3>3. QED
      BY <3>1, <3>2 DEF Accounts
  <2>7. newSize => ~synced
    BY DEF Inductive
  <2>8. Settled' => Settled \/ Screen \subseteq tracker.changed
    BY <1>1, <2>1 DEF Settled
  <2>9. QED
    BY <1>0, <1>1, <1>2, <1>3, <2>1, <2>3, <2>4, <2>5, <2>6, <2>7, <2>8
<1>4. CASE Wanted = {} /\ Wanted # Screen
  <2>1. tracker' = tracker /\ Due = update
    BY <1>1, <1>4, NothingFlushed DEF Flush, Due
  <2>2. flushed' = flushed /\ synced' = synced /\ dropped' = dropped
    BY <1>1, <1>4 DEF Flush, Refreshed
  <2>3. IsEmpty(update)
    BY <1>4 DEF Inductive, Wanted
  <2>4. QED
    BY <1>0, <1>1, <1>2, <1>4, <2>1, <2>2, <2>3 DEF Inductive, Settled
<1>5. QED
  BY <1>2, <1>3, <1>4

-----------------------------------------------------------------------------
(* Every step keeps the invariant. *)

LEMMA InductiveInit == Init => Inductive
<1> SUFFICES ASSUME Init PROVE Inductive
  OBVIOUS
<1>1. \A on \in BOOLEAN : /\ NewTracker(on) \in Tracker
                          /\ OnScreen(Screen, NewTracker(on))
                          /\ IsEmpty(NewTracker(on))
  BY NewTrackerFields DEF OnScreen, IsEmpty
<1>2. TypeOK
  BY <1>1 DEF Init, TypeOK
<1>3. QED
  BY <1>1, <1>2 DEF Init, Inductive, Settled

\* What the desktop thread posts adds to the client's tracker what it did to
\* the back buffer.
LEMMA DesktopStep ==
    ASSUME Inductive, screen' \in Picture, OnScreen(Screen, tracker'),
           Accounts(Screen, flushed, screen, tracker) =>
                Accounts(Screen, flushed, screen', tracker'),
           UNCHANGED <<incr, clip, update, newSize, viewer, flushed, synced,
                       dropped>>
    PROVE  Inductive'
<1>1. tracker' \in Tracker
  BY DEF OnScreen
<1>2. TypeOK'
  BY <1>1 DEF Inductive, TypeOK
<1>3. QED
  BY <1>2 DEF Inductive, Settled

LEMMA DrawStep ==
    ASSUME Inductive, NEW R \in Patches, NEW pic \in [R -> Pixel], Draw(R, pic)
    PROVE  Inductive'
<1>1. /\ Screen \in SUBSET Point /\ R \in SUBSET Screen
      /\ OnScreen(Screen, tracker) /\ screen \in Picture
  BY ScreenAssumption, RegionAssumption DEF Inductive, TypeOK
<1>2. /\ screen' = [p \in Screen |-> IF p \in R THEN pic[p] ELSE screen[p]]
      /\ tracker' = AddChanged(tracker, R)
      /\ UNCHANGED <<incr, clip, update, newSize, viewer, flushed, synced,
                       dropped>>
  BY DEF Draw
<1>3. screen' \in Picture /\ \A p \in Screen \ R : screen'[p] = screen[p]
  BY <1>1, <1>2 DEF Picture
<1>4. OnScreen(Screen, tracker')
  BY <1>1, <1>2, AddChangedOnScreen
<1>5. Accounts(Screen, flushed, screen, tracker) =>
         Accounts(Screen, flushed, screen', tracker')
  BY <1>1, <1>2, <1>3, AddChangedAccounts
<1>6. QED
  BY <1>2, <1>3, <1>4, <1>5, DesktopStep

LEMMA MoveWindowStep ==
    ASSUME Inductive, NEW dest \in Windows, NEW d \in Moves,
           NEW pic \in [dest \ OnDisplay(Screen, dest, d) -> Pixel],
           MoveWindow(dest, d, pic)
    PROVE  Inductive'
<1> DEFINE kept  == OnDisplay(Screen, dest, d)
           local == ClippedAddCopied(NewTracker(TRUE), Screen, dest, d)
<1>1. /\ Screen \in SUBSET Point /\ dest \in SUBSET Screen /\ d \in Point
      /\ OnScreen(Screen, tracker) /\ screen \in Picture
  BY ScreenAssumption, RegionAssumption, MovesAssumption DEF Inductive, TypeOK
<1>2. OnBothSides(Screen, kept, d) /\ kept \subseteq dest
  BY <1>1, OnDisplayBothSides
<1>3. /\ OnScreen(Screen, local)
      /\ local.changed = dest \ kept /\ local.copied = kept
      /\ kept # {} => local.delta = d
  BY <1>1, MoveTracked
<1>4. /\ screen' = [p \in Screen |-> IF p \in dest \ kept THEN pic[p]
                                     ELSE Moved(screen, kept, d)[p]]
      /\ tracker' = Posted(local, tracker)
      /\ UNCHANGED <<incr, clip, update, newSize, viewer, flushed, synced,
                       dropped>>
  BY DEF MoveWindow
<1> HIDE DEF kept, local
<1>5. \A p \in kept : Minus(p, d) \in Screen
  BY <1>2 DEF OnBothSides, Unshift
<1>6. \A p \in Screen : Moved(screen, kept, d)[p] =
                           IF p \in kept THEN screen[Minus(p, d)] ELSE screen[p]
  BY DEF Moved
<1>7. screen' \in Picture
  BY <1>1, <1>4, <1>5, <1>6 DEF Picture, kept
<1>8. Accounts(Screen, screen, screen', local)
  <2>1. local.cached = {} /\ local.copied \subseteq Screen
    BY <1>3 DEF OnScreen
  <2>2. \A p \in Screen \ dest : screen'[p] = screen[p]
    BY <1>2, <1>4, <1>6
  <2>3. \A p \in kept : screen'[p] = screen[Minus(p, d)]
    BY <1>1, <1>2, <1>4, <1>6
  <2>4. QED
    BY <1>2, <1>3, <2>1, <2>2, <2>3 DEF Accounts
<1>9. /\ OnScreen(Screen, tracker')
      /\ Accounts(Screen, flushed, screen, tracker) =>
            Accounts(Screen, flushed, screen', tracker')
  BY <1>1, <1>3, <1>4, <1>8, PostedCorrect
<1>10. QED
  BY <1>4, <1>7, <1>9, DesktopStep

LEMMA ResizeStep ==
    ASSUME Inductive, NEW pic \in Picture, Resize(pic)
    PROVE  Inductive'
<1>1. /\ screen' = pic /\ tracker' = Cleared(tracker)
      /\ newSize' = TRUE /\ synced' = FALSE
      /\ UNCHANGED <<incr, clip, update, viewer, flushed, dropped>>
  BY DEF Resize
<1>2. OnScreen(Screen, tracker')
  BY <1>1, ScreenAssumption, NothingLeft DEF Inductive
<1>3. tracker' \in Tracker
  BY <1>2 DEF OnScreen
<1>4. TypeOK'
  BY <1>1, <1>3 DEF Inductive, TypeOK
<1>5. QED
  BY <1>1, <1>2, <1>4 DEF Inductive, Settled

\* The queued updates are gone, and with them what Inductive says of them until
\* the next full refresh.
LEMMA SwitchHookStep ==
    ASSUME Inductive, SwitchHook
    PROVE  Inductive'
<1>1. /\ tracker' = Cleared(tracker) /\ dropped' = TRUE
      /\ UNCHANGED <<screen, incr, clip, update, newSize, viewer, flushed, synced>>
  BY DEF SwitchHook
<1>2. OnScreen(Screen, tracker')
  BY <1>1, ScreenAssumption, NothingLeft DEF Inductive
<1>3. tracker' \in Tracker
  BY <1>2 DEF OnScreen
<1>4. TypeOK'
  BY <1>1, <1>3 DEF Inductive, TypeOK
<1>5. QED
  BY <1>1, <1>2, <1>4 DEF Inductive, Settled

LEMMA RequestStep ==
    ASSUME Inductive,
           \/ MarkFullRefresh
           \/ AddRequest
           \/ \E copyrect \in BOOLEAN : SetEncodings(copyrect)
    PROVE  Inductive'
<1>1. Screen \in SUBSET Point /\ OnScreen(Screen, tracker) /\ screen \in Picture
  BY ScreenAssumption DEF Inductive, TypeOK
<1>2. CASE MarkFullRefresh
  <2>1. /\ tracker' = AddChanged(tracker, Screen) /\ screen' = screen
        /\ UNCHANGED <<incr, clip, update, newSize, viewer, flushed, synced,
                       dropped>>
    BY <1>2 DEF MarkFullRefresh
  <2>2. OnScreen(Screen, tracker')
    BY <1>1, <2>1, AddChangedOnScreen
  <2>3. Accounts(Screen, flushed, screen, tracker) =>
           Accounts(Screen, flushed, screen', tracker')
    BY <1>1, <2>1, AddChangedAccounts
  <2>4. QED
    BY <1>1, <2>1, <2>2, <2>3, DesktopStep
<1>3. CASE AddRequest
  BY <1>3 DEF AddRequest, Inductive, TypeOK, Settled
<1>4. ASSUME NEW copyrect \in BOOLEAN, SetEncodings(copyrect)
      PROVE  Inductive'
  <2>1. /\ tracker' = [tracker EXCEPT !.copyOn = copyrect] /\ screen' = screen
        /\ UNCHANGED <<incr, clip, update, newSize, viewer, flushed, synced,
                       dropped>>
    BY <1>4 DEF SetEncodings
  <2>2. /\ OnScreen(Screen, tracker')
        /\ Accounts(Screen, flushed, screen, tracker) =>
              Accounts(Screen, flushed, screen', tracker')
    BY <1>1, <2>1, CopySwitch
  <2>3. QED
    BY <1>1, <2>1, <2>2, DesktopStep
<1>5. QED
  BY <1>2, <1>3, <1>4

\* The update is sent: nothing is pending, and if a request was waiting the
\* viewer shows the screen.
LEMMA UpdateSentStep ==
    ASSUME Inductive, UpdateSent
    PROVE  /\ Inductive'
           /\ Wanted = Screen /\ Settled' => viewer' = screen
<1>1. /\ ~newSize /\ Flush /\ incr' = {} /\ clip' = {}
      /\ viewer' = Shown(viewer, screen, UpdateInfo(Due))
      /\ update' = Cleared(Due)
      /\ UNCHANGED <<screen, newSize>>
  BY DEF UpdateSent, Flush
<1>2. /\ OnScreen(Screen, Due) /\ OnScreen(Screen, tracker')
      /\ flushed' \in Picture /\ synced' \in BOOLEAN /\ dropped' \in BOOLEAN
      /\ ~IsEmpty(Due) => Wanted = Screen
      /\ Wanted = Screen => flushed' = screen
      /\ Settled' => /\ Accounts(Screen, flushed', screen, tracker')
                     /\ Accounts(Screen, viewer, flushed', Due)
  BY <1>1, FlushCorrect
<1>3. Screen \in SUBSET Point /\ screen \in Picture /\ viewer \in Picture
  BY ScreenAssumption DEF Inductive, TypeOK
<1>4. /\ viewer' \in Picture
      /\ Accounts(Screen, viewer, screen, Due) => viewer' = screen
  BY <1>1, <1>2, <1>3, ShownIsScreen
<1>5. /\ OnScreen(Screen, update') /\ IsEmpty(update')
      /\ Accounts(Screen, flushed', flushed', update')
  BY <1>1, <1>2, <1>3, NothingLeft
<1>6. tracker' \in Tracker /\ update' \in Tracker
  BY <1>2, <1>5 DEF OnScreen
<1>7. TypeOK'
  BY <1>1, <1>2, <1>3, <1>4, <1>6 DEF TypeOK, Inductive
<1>8. Settled' => viewer' = flushed'
  <2>1. CASE Wanted = Screen
    BY <1>2, <1>4, <2>1
  <2>2. CASE IsEmpty(Due)
    <3>1. \A p \in Screen : viewer'[p] = viewer[p]
      BY <1>1, <2>2 DEF Shown, UpdateInfo, IsEmpty
    <3>2. Settled' => \A p \in Screen : flushed'[p] = viewer[p]
      BY <1>2, <2>2 DEF Accounts, IsEmpty
    <3>3. QED
      BY <1>2, <1>4, <3>1, <3>2 DEF Picture
  <2>3. QED
    BY <1>2, <2>1, <2>2
<1>9. QED
  BY <1>1, <1>2, <1>5, <1>7, <1>8 DEF Inductive

LEMMA UpdateHeldStep ==
    ASSUME Inductive, UpdateHeld
    PROVE  Inductive'
<1>1. /\ Flush /\ incr' = {} /\ clip' = Wanted /\ update' = Due
      /\ UNCHANGED <<screen, newSize, viewer>>
  BY DEF UpdateHeld, Flush
<1>2. /\ OnScreen(Screen, Due) /\ OnScreen(Screen, tracker')
      /\ Wanted \in {{}, Screen}
      /\ flushed' \in Picture /\ synced' \in BOOLEAN /\ dropped' \in BOOLEAN
      /\ ~IsEmpty(Due) => Wanted = Screen
      /\ newSize => ~synced'
      /\ Settled' => /\ Accounts(Screen, flushed', screen, tracker')
                     /\ Accounts(Screen, viewer, flushed', Due)
  BY <1>1, FlushCorrect
<1>3. tracker' \in Tracker /\ Due \in Tracker
  BY <1>2 DEF OnScreen
<1>4. TypeOK'
  BY <1>1, <1>2, <1>3 DEF TypeOK, Inductive
<1>5. QED
  BY <1>1, <1>2, <1>4 DEF Inductive

LEMMA NewSizeSentStep ==
    ASSUME Inductive, NEW pic \in Picture, NewSizeSent(pic)
    PROVE  Inductive'
<1>1. /\ Flush /\ incr' = {} /\ clip' = {} /\ update' = Cleared(Due)
      /\ newSize /\ newSize' = FALSE /\ viewer' = pic /\ screen' = screen
  BY DEF NewSizeSent, Flush
<1>2. /\ OnScreen(Screen, Due) /\ OnScreen(Screen, tracker')
      /\ flushed' \in Picture /\ synced' = FALSE /\ dropped' \in BOOLEAN
  BY <1>1, FlushCorrect
<1>3. OnScreen(Screen, update') /\ IsEmpty(update')
  BY <1>1, <1>2, ScreenAssumption, NothingLeft
<1>4. tracker' \in Tracker /\ update' \in Tracker
  BY <1>2, <1>3 DEF OnScreen
<1>5. TypeOK'
  BY <1>1, <1>2, <1>4 DEF TypeOK, Inductive
<1>6. QED
  BY <1>1, <1>2, <1>3, <1>5 DEF Inductive, Settled

LEMMA InductiveNext ==
    ASSUME NoCache
    PROVE  Inductive /\ [Next]_vars => Inductive'
<1> SUFFICES ASSUME Inductive, [Next]_vars PROVE Inductive'
  OBVIOUS
<1>1. ASSUME NEW R \in Patches, NEW pic \in [R -> Pixel], Draw(R, pic)
      PROVE  Inductive'
  BY <1>1, DrawStep
<1>2. ASSUME NEW R \in Patches, NEW pic \in [R -> Pixel], DrawCached(R, pic)
      PROVE  Inductive'
  BY <1>2 DEF DrawCached, NoCache
<1>3. ASSUME NEW dest \in Windows, NEW d \in Moves,
             NEW pic \in [dest \ OnDisplay(Screen, dest, d) -> Pixel],
             MoveWindow(dest, d, pic)
      PROVE  Inductive'
  BY <1>3, MoveWindowStep
<1>4. CASE SwitchHook
  BY <1>4, SwitchHookStep
<1>5. ASSUME NEW pic \in Picture, Resize(pic)
      PROVE  Inductive'
  BY <1>5, ResizeStep
<1>6. CASE \/ MarkFullRefresh
           \/ AddRequest
           \/ \E copyrect \in BOOLEAN : SetEncodings(copyrect)
  BY <1>6, RequestStep
<1>7. CASE UpdateSent
  BY <1>7, UpdateSentStep
<1>8. CASE UpdateHeld
  BY <1>8, UpdateHeldStep
<1>9. ASSUME NEW pic \in Picture, NewSizeSent(pic)
      PROVE  Inductive'
  BY <1>9, NewSizeSentStep
<1>10. CASE UNCHANGED vars
  BY <1>10 DEF vars, Inductive, TypeOK, Settled
<1>11. QED
  BY <1>1, <1>2, <1>3, <1>4, <1>5, <1>6, <1>7, <1>8, <1>9, <1>10 DEF Next

-----------------------------------------------------------------------------
\* The strengthening of the three invariants holds in every reachable state.
THEOREM InductiveHolds ==
    ASSUME NoCache
    PROVE  Spec => []Inductive
BY InductiveInit, InductiveNext, PTL DEF Spec

\* Every variable keeps its type: the viewer's picture is always defined.
THEOREM TypeCorrect ==
    ASSUME NoCache
    PROVE  Spec => []TypeOK
<1>1. Inductive => TypeOK
  BY DEF Inductive
<1>2. QED
  BY <1>1, InductiveHolds, PTL

\* Every pixel a viewer shows wrongly is still going to be sent to it.
THEOREM NoStalePixelHolds ==
    ASSUME NoCache
    PROVE  Spec => []NoStalePixel
<1>1. Inductive => NoStalePixel
  BY DEF Inductive, NoStalePixel, WrongPixelsPending, Accounts
<1>2. QED
  BY <1>1, InductiveHolds, PTL

\* A copy about to be sent moves, in the viewer, the pixels the server moved.
THEOREM CopySourcesCurrentHolds ==
    ASSUME NoCache
    PROVE  Spec => []CopySourcesCurrent
<1>1. Inductive => CopySourcesCurrent
  BY DEF Inductive, CopySourcesCurrent
<1>2. QED
  BY <1>1, InductiveHolds, PTL

\* The viewer is never told to move pixels from outside its framebuffer.
THEOREM CopySourceOnScreenHolds ==
    ASSUME NoCache
    PROVE  Spec => []CopySourceOnScreen
<1>1. Inductive => CopySourceOnScreen
  BY DEF Inductive, CopySourceOnScreen, OnScreen
<1>2. QED
  BY <1>1, InductiveHolds, PTL

\* An update that answers a request brings the viewer's whole picture to the
\* state of the screen.
THEOREM AnswerIsCurrentHolds ==
    ASSUME NoCache
    PROVE  Spec => AnswerIsCurrent
<1>1. Inductive /\ [Next]_vars =>
         [Wanted = Screen /\ Settled' /\ UpdateSent => viewer' = screen']_vars
  <2> SUFFICES ASSUME Inductive, UpdateSent, Wanted = Screen, Settled'
               PROVE  viewer' = screen'
    OBVIOUS
  <2>1. viewer' = screen
    BY UpdateSentStep
  <2>2. QED
    BY <2>1 DEF UpdateSent
<1>2. QED
  BY <1>1, InductiveHolds, PTL DEF Spec, AnswerIsCurrent
=============================================================================
