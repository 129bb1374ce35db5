--------------------------- MODULE MCExtNamespace ---------------------------
(* Three inodes and two names: a directory, a file in it and one beside it.   *)
EXTENDS ExtNamespace

CONSTANTS c1, c2, r, i1, i2, i3, x, y, none

OneClient == {c1}
TwoClients == {c1, c2}
TwoInodes == {i1, i2}
ThreeInodes == {i1, i2, i3}
TwoNames == {x, y}
=============================================================================
