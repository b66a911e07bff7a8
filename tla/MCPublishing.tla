---------------------------- MODULE MCPublishing ----------------------------
(* Small instances of Publishing: a and b belong to the post from the start, *)
(* c replaces them when the post is updated.                                    *)
EXTENDS Publishing

CONSTANTS a, b, c
=============================================================================
