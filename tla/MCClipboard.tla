----------------------------- MODULE MCClipboard -----------------------------
(* A few texts and a picture for Clipboard. *)
EXTENDS Clipboard

CONSTANTS ta, tb, tc, picture

Text(t) == [text |-> t, rich |-> None]
Rich(t) == [text |-> t, rich |-> picture]
AtViewer == {Rich(ta)}
AtServer == {Text(tb), Rich(tc)}

OneAndTwo == [s \in Sides |-> IF s = "viewer" THEN 1 ELSE 2]
=============================================================================
