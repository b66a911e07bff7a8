--------------------------- MODULE MCCancellation ---------------------------
(* Small instances of Cancellation.  Requests, callers and objects are        *)
(* interchangeable, so that the safety runs use their symmetry.               *)
EXTENDS Cancellation, TLC

Symmetry == Permutations(Requests) \cup Permutations(Callers)
              \cup Permutations(Objects)
=============================================================================
