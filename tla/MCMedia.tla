------------------------------ MODULE MCMedia ------------------------------
(* Small instances of Media, whose requests are interchangeable.            *)
EXTENDS Media, TLC

CONSTANTS c1, c2

Symmetry == Permutations(Callers)
=============================================================================
