----------------------------- MODULE MCControl -----------------------------
(* Three starts of a server with two process ids between them.             *)
EXTENDS Control, TLC

CONSTANTS i1, i2, i3, p1, p2, c1, c2

MCSymmetry == Permutations({i1, i2, i3}) \union Permutations({p1, p2}) \union Permutations({c1, c2})
=============================================================================
