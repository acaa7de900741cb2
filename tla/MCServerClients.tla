--------------------------- MODULE MCServerClients ---------------------------
(* Small servers for ServerClients. *)
EXTENDS ServerClients

CONSTANTS c1, c2
Two == {c1, c2}

\* The incoming client wins and replaces the oldest; existing clients win.
IncomingWins == [priority |-> 0, replace |-> TRUE]
ExistingWins == [priority |-> 2, replace |-> FALSE]
BothWin      == {IncomingWins, ExistingWins}
OnlyExisting == {ExistingWins}
=============================================================================
