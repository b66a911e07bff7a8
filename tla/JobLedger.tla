------------------------------ MODULE JobLedger ------------------------------
(***************************************************************************)
(* What a durable job object promises its callers, without storage, alarms *)
(* or messages: the intents of committed transactions replace the current  *)
(* job, each once, and the current job runs until it ends or is given up.  *)
(* DurableJob implements it.                                               *)
(***************************************************************************)
CONSTANTS Intents, Cancels, NoJob

VARIABLES
  fate,     \* what became of the transaction behind each intent
  taken,    \* the intents that have taken effect
  current,  \* the intent whose job is the current one, or NoJob
  phase     \* what is happening to that job

vars == <<fate, taken, current, phase>>

Init ==
  /\ fate = [i \in Intents |-> "unknown"]
  /\ taken = {}
  /\ current = NoJob
  /\ phase = "none"

\* A transaction commits or rolls back and so decides some of the intents.
Decide ==
  /\ fate' \in [Intents -> {"unknown", "committed", "dropped"}]
  /\ \A i \in Intents : fate[i] # "unknown" => fate'[i] = fate[i]
  /\ UNCHANGED <<taken, current, phase>>

\* A committed intent takes effect.
Take(i) ==
  /\ fate[i] = "committed"
  /\ i \notin taken
  /\ phase # "running"
  /\ taken' = taken \cup {i}
  /\ current' = IF i \in Cancels THEN NoJob ELSE i
  /\ phase' = IF i \in Cancels THEN "none" ELSE "waiting"
  /\ UNCHANGED fate

\* The job runs, ends or must be tried again, or is given up.
Run ==
  /\ \/ phase = "waiting" /\ phase' \in {"running", "failed"}
     \/ phase = "running" /\ phase' \in {"waiting", "completed"}
  /\ UNCHANGED <<fate, taken, current>>

Next == Decide \/ Run \/ \E i \in Intents : Take(i)

Spec == Init /\ [][Next]_vars /\ \A i \in Intents : SF_vars(Take(i))
=============================================================================
