--------------------------- MODULE MCAutomations ---------------------------
(* The flow of the template "Grow followers (comments)": an opening DM with a *)
(* button, the follower check, and the DM that asks to follow and check again.*)
EXTENDS Automations, TLC

CONSTANTS opening, check, reward, again, i1, i2

MCTaps == [m \in Messages |-> IF m = "taps opening" THEN opening ELSE again]
MCThen == [d \in Dms |-> End]
MCOnTap == [d \in Dms |-> IF d = reward THEN End ELSE check]
MCOutcomes == [c \in Conditions |-> {reward, again} \cap Dms]
Symmetry == Permutations(Invocations)
=============================================================================
