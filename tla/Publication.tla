---------------------------- MODULE Publication ----------------------------
(***************************************************************************)
(* What a target's owner is promised, whatever becomes of jobs, leases and *)
(* answers: it is put up by a command, made at the provider, recorded and  *)
(* shown, in this order.  What is on record is not made again, not even by *)
(* another command, and only a command takes back what is shown.           *)
(***************************************************************************)
EXTENDS Naturals

CONSTANTS
  Targets,  \* what can be published
  Guarded   \* those that are made at most once for each command

VARIABLES
  orders,    \* how often a command has put each target up
  made,      \* how often the provider has made it
  recorded,  \* the targets whose publication is on record
  shown      \* those that are shown as published

pubVars == <<orders, made, recorded, shown>>

Init ==
  /\ orders \in [Targets -> {0, 1}]
  /\ made = [t \in Targets |-> 0]
  /\ recorded = {} /\ shown = {}

\* A command puts the targets in S up.
PutUp(S) ==
  /\ orders' =
       [t \in Targets |-> IF t \in S THEN orders[t] + 1 ELSE orders[t]]
  /\ shown' = shown \ S
  /\ UNCHANGED <<made, recorded>>

Make(t) ==
  /\ t \notin recorded
  /\ t \in Guarded => made[t] < orders[t]
  /\ made' = [made EXCEPT ![t] = @ + 1]
  /\ UNCHANGED <<orders, recorded, shown>>

Record(t) ==
  /\ made[t] > 0
  /\ recorded' = recorded \cup {t}
  /\ UNCHANGED <<orders, made, shown>>

Show(t) ==
  /\ t \in recorded
  /\ shown' = shown \cup {t}
  /\ UNCHANGED <<orders, made, recorded>>

Next ==
  \/ \E S \in SUBSET Targets : PutUp(S)
  \/ \E t \in Targets : Make(t) \/ Record(t) \/ Show(t)

Spec == Init /\ [][Next]_pubVars
=============================================================================
