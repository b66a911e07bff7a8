----------------------------- MODULE MCReviews -----------------------------
(* Small instances of Reviews.  Contents, targets and requests are          *)
(* interchangeable.                                                         *)
EXTENDS Reviews, TLC

CONSTANTS text1, text2, s1, s2, e1, c1, c2

Symmetry ==
  Permutations(Contents) \cup Permutations(Slots) \cup Permutations(Callers)
=============================================================================
