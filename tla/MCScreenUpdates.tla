--------------------------- MODULE MCScreenUpdates ---------------------------
(* Small displays for ScreenUpdates and CopyOrder. *)
EXTENDS ScreenUpdates, CopyOrder, TLC

CONSTANTS black, white
Pixels == {black, white}
\* Nothing tells the two colours apart.
Colours == Permutations(Pixels)

Row(n) == (0 .. n - 1) \X {0}

Row2 == Row(2)
Single(S) == {{p} : p \in S}
Row2Pixels == Single(Row2)
\* One patch is enough: the other pixel is drawn when a window is moved onto it
\* from outside, with which all states of two patches are reached.
LeftPixel == {{<<0, 0>>}}
Sideways == {<<1, 0>>, <<-1, 0>>}

\* The display of CopyOrder.
Grid5x3 == (0 .. 4) \X (0 .. 2)
Around == ((-2 .. 2) \X (-2 .. 2)) \ {<<0, 0>>}

\* What UpdateSent takes for granted when it moves the copied region at once
\* (Shown): the viewer gets the same when it moves it rectangle by rectangle and
\* row by row, in the order in which they are sent.  A row of pixels is too
\* small for that, so it is shown on a display of its own.
MovedAsOne == [][UpdateSent => CopiesInOrder]_vars
=============================================================================
