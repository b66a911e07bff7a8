----------------------------- MODULE AgentRuns -----------------------------
(***************************************************************************)
(* The runs of one agent workspace on trial, their ledger and their        *)
(* approvals (services/src/agent-workspaces.ts).  The runtime that answers *)
(* is external: it delivers a response at least once, late or never, and a *)
(* call to it may fail after it has taken effect.                          *)
(*                                                                         *)
(* A statement or a transaction is one step.  The unit of money is a       *)
(* reservation, which no run costs more than; the monthly budget is        *)
(* computed like the daily one and left out.  max_run_seconds may be over  *)
(* at any time.                                                            *)
(***************************************************************************)
EXTENDS Naturals, FiniteSets

CONSTANTS
  Runs,          \* requests, one for each idempotency key
  Asking,        \* those whose response may ask for approvals
  Actions,       \* of these actions
  MaxConcurrent, \* max_concurrent_runs
  Turns,         \* trial_turns_remaining at first
  Daily,         \* daily_budget_micros, in reservations
  MaxFaults      \* bound: calls and processes that fail

ASSUME LimitsAssumption ==
  /\ IsFiniteSet(Runs) /\ Asking \subseteq Runs
  /\ MaxConcurrent \in Nat \ {0} /\ Turns \in Nat /\ Daily \in Nat
  /\ MaxFaults \in Nat

VARIABLES
  \* agent_runs and agent_workspaces.
  status,    \* the status of each run, "none" before it exists
  turns,     \* trial_turns_remaining
  \* agent_usage_ledger, by run: the day of each of its entries.
  reserved, released,
  charged,   \* the actual cost, which is one or nothing
  \* agent_action_approvals.
  approval,  \* the status of each
  \* Calls in progress.
  submitting,\* where each run's submission is
  stopping,  \* runs whose interruption calls the runtime
  telling,   \* where each decision is
  overdue,   \* runs that maintenance has found, by how far it has got
  heard,     \* runs the runtime has been given
  faults,
  \* History.
  told,      \* how often the runtime was told a decision and did not seem to
             \* fail
  refused,   \* runs of which it seemed to fail
  cut,       \* runs that were asked to stop
  stranded   \* runs and actions whose process has stopped

runVars == <<status, turns>>
ledgerVars == <<reserved, released, charged>>
callVars == <<submitting, stopping, telling, overdue>>
worldVars == <<heard, faults>>
histVars == <<told, refused, cut, stranded>>
vars == <<runVars, ledgerVars, approval, callVars, worldVars, histVars>>

ActionsOf(r) == IF r \in Asking THEN Actions ELSE {}

Days == {"never", "today", "earlier"}
Active == {"submitted", "waiting", "interrupting"}
Ended == {"completed", "failed", "interrupted", "timedOut"}

Init ==
  /\ status = [r \in Runs |-> "none"] /\ turns = Turns
  /\ reserved = [r \in Runs |-> "never"]
  /\ released = [r \in Runs |-> "never"]
  /\ charged = [r \in Runs |-> "never"]
  /\ approval = [r \in Runs |-> [a \in Actions |-> "none"]]
  /\ submitting = [r \in Runs |-> "idle"] /\ stopping = {}
  /\ telling = [r \in Runs |-> [a \in Actions |-> "idle"]]
  /\ overdue = [r \in Runs |-> "no"]
  /\ heard = {} /\ faults = 0
  /\ told = [r \in Runs |-> [a \in Actions |-> 0]]
  /\ refused = {} /\ cut = {} /\ stranded = {}

Fault == faults < MaxFaults /\ faults' = faults + 1
StatusOf(r, s) == status' = [status EXCEPT ![r] = s]
ApprovalIs(r, a, s) == approval' = [approval EXCEPT ![r][a] = s]
Today(entries) == {r \in Runs : entries[r] = "today"}

\* INSERT ... ON CONFLICT (idempotency_key) DO NOTHING.
Entered(entries, r) ==
  [entries EXCEPT ![r] = IF @ = "never" THEN "today" ELSE @]

\* The release copies the amount of the reservation.
Release(r) == released' = Entered(released, r)

\* What the ledger has of the day: reserved and charged, less what is released.
\* It is negative when what earlier days have reserved is released.
Credit == Cardinality(Today(released))
Debit == Cardinality(Today(reserved)) + Cardinality(Today(charged))

-----------------------------------------------------------------------------
(* run.                                                                    *)

ActiveRuns == {r \in Runs : status[r] \in Active}

\* Fault: the new reservation is not added.
AffordableAlready == Debit <= Daily + Credit

Affordable == Debit + 1 <= Daily + Credit

\* The claim, under the advisory locks of the payer and of the workspace.  A
\* run that exists already is returned instead.
Claim(r) ==
  /\ status[r] = "none"
  /\ Cardinality(ActiveRuns) < MaxConcurrent /\ turns > 0
  /\ Affordable
  /\ StatusOf(r, "submitted") /\ turns' = turns - 1
  /\ reserved' = Entered(reserved, r)
  /\ submitting' = [submitting EXCEPT ![r] = "calling"]
  /\ UNCHANGED <<released, charged, approval, stopping, telling, overdue,
                 worldVars, histVars>>

SubmissionEnds(r, at) ==
  /\ submitting[r] = "calling"
  /\ submitting' = [submitting EXCEPT ![r] = at]
  /\ UNCHANGED <<runVars, ledgerVars, approval, stopping, telling, overdue,
                 histVars>>

Accepted(r) ==
  SubmissionEnds(r, "idle") /\ heard' = heard \cup {r} /\ UNCHANGED faults

Refused(r) == SubmissionEnds(r, "refused") /\ UNCHANGED <<heard, faults>>

\* The answer is lost, and taken for a refusal.
AcceptedUnheard(r) ==
  SubmissionEnds(r, "refused") /\ heard' = heard \cup {r} /\ Fault

\* Fault: a run that has been answered in the meantime fails as well.
CompensableAlways(r) == TRUE

Compensable(r) == status[r] = "submitted"

\* compensateRejectedSubmission.
Compensates(r) ==
  /\ submitting[r] = "refused"
  /\ submitting' = [submitting EXCEPT ![r] = "idle"]
  /\ IF Compensable(r)
     THEN StatusOf(r, "failed") /\ Release(r) /\ turns' = turns + 1
     ELSE UNCHANGED <<runVars, released>>
  /\ UNCHANGED <<reserved, charged, approval, stopping, telling, overdue,
                 worldVars, histVars>>

SubmissionDies(r) ==
  /\ submitting[r] # "idle" /\ Fault
  /\ submitting' = [submitting EXCEPT ![r] = "idle"]
  /\ UNCHANGED <<runVars, ledgerVars, approval, stopping, telling, overdue,
                 heard, histVars>>

-----------------------------------------------------------------------------
(* interrupt.                                                              *)

Interrupt(r) ==
  /\ status[r] \in {"submitted", "waiting"} /\ r \notin stopping
  /\ StatusOf(r, "interrupting")
  /\ stopping' = stopping \cup {r} /\ cut' = cut \cup {r}
  /\ UNCHANGED <<turns, ledgerVars, approval, submitting, telling, overdue,
                 worldVars, told, refused, stranded>>

\* The runtime has been called.  The status is written whatever it is by now,
\* and the reservation is kept.
Interrupted(r) ==
  /\ r \in stopping /\ stopping' = stopping \ {r}
  /\ StatusOf(r, "interrupted")
  /\ UNCHANGED <<turns, ledgerVars, approval, submitting, telling, overdue,
                 worldVars, histVars>>

InterruptionFails(r) ==
  /\ r \in stopping /\ stopping' = stopping \ {r} /\ Fault
  /\ UNCHANGED <<runVars, ledgerVars, approval, submitting, telling, overdue,
                 heard, histVars>>

-----------------------------------------------------------------------------
(* completeExternalResponse.                                               *)

\* Fault: a repetition is taken whatever has become of the run.
AnswerableAlways(r) == TRUE

Answerable(r) == status[r] \notin Ended \cup {"waiting"}

\* The reservation is given back when the actual cost is entered.
AnsweredReleases(r) == Release(r)

Responds(r, costly, actions) ==
  /\ r \in heard /\ Answerable(r)
  /\ StatusOf(r, IF actions = {} THEN "completed" ELSE "waiting")
  /\ charged' = IF costly THEN Entered(charged, r)
                 ELSE [charged EXCEPT ![r] = IF @ = "never" THEN "free" ELSE @]
  /\ AnsweredReleases(r)
  /\ approval' = [approval EXCEPT ![r] = [a \in Actions |->
       IF a \in actions /\ @[a] = "none" THEN "pending" ELSE @[a]]]
  /\ UNCHANGED <<turns, reserved, callVars, worldVars, histVars>>

-----------------------------------------------------------------------------
(* resolveApproval.                                                        *)

TellingIs(r, a, at) == telling' = [telling EXCEPT ![r][a] = at]

\* Fifteen minutes have passed; maintenance or the next decision notices.
Expires(r, a) ==
  /\ approval[r][a] = "pending" /\ ApprovalIs(r, a, "expired")
  /\ UNCHANGED <<runVars, ledgerVars, callVars, worldVars, histVars>>

\* Fault: the UPDATE finds the approval by its code alone.
DecidableByCode(r, a) == approval[r][a] # "none"

Decidable(r, a) == approval[r][a] = "pending"

\* The approval is claimed, and the runtime called with the decision.  The
\* status of the run is not looked at.
Decides(r, a, decision) ==
  /\ telling[r][a] = "idle" /\ Decidable(r, a)
  /\ ApprovalIs(r, a, decision) /\ TellingIs(r, a, "call")
  /\ told' = [told EXCEPT ![r][a] = @ + 1]
  /\ UNCHANGED <<runVars, ledgerVars, submitting, stopping, overdue, worldVars,
                 refused, cut, stranded>>

\* The call fails, or its answer is lost.
TellingFails(r, a) ==
  /\ telling[r][a] = "call" /\ Fault
  /\ ApprovalIs(r, a, "pending") /\ TellingIs(r, a, "idle")
  /\ told' = [told EXCEPT ![r][a] = @ - 1]
  /\ refused' = refused \cup {r}
  /\ UNCHANGED <<runVars, ledgerVars, submitting, stopping, overdue, heard,
                 cut, stranded>>

Settles(r, a) ==
  /\ telling[r][a] = "call" /\ TellingIs(r, a, "count")
  /\ IF approval[r][a] = "approved" THEN ApprovalIs(r, a, "applied")
                                    ELSE UNCHANGED approval
  /\ UNCHANGED <<runVars, ledgerVars, submitting, stopping, overdue, worldVars,
                 histVars>>

\* Approvals that the run waits for.
Left(r) == {a \in Actions : approval[r][a] \in {"pending", "approved"}}

Counts(r, a) ==
  /\ telling[r][a] = "count" /\ TellingIs(r, a, "idle")
  /\ IF Left(r) = {} /\ status[r] = "waiting"
     THEN StatusOf(r, "completed") ELSE UNCHANGED status
  /\ UNCHANGED <<turns, ledgerVars, approval, submitting, stopping, overdue,
                 worldVars, histVars>>

DecisionDies(r, a) ==
  /\ telling[r][a] # "idle" /\ Fault /\ TellingIs(r, a, "idle")
  /\ stranded' = stranded \cup {r}
  /\ UNCHANGED <<runVars, ledgerVars, approval, submitting, stopping, overdue,
                 heard, told, refused, cut>>

-----------------------------------------------------------------------------
(* runMaintenance, which works through the runs it has read.               *)

OverdueIs(r, at) == overdue' = [overdue EXCEPT ![r] = at]

\* The runs that maintenance looks for and still finds.
Expiring(r) == status[r] \in Active

Finds(r) ==
  /\ overdue[r] = "no" /\ Expiring(r)
  /\ OverdueIs(r, "found")
  /\ UNCHANGED <<runVars, ledgerVars, approval, submitting, stopping, telling,
                 worldVars, histVars>>

\* The runtime has been asked to stop the run, with or without success.
TimesOut(r) ==
  /\ overdue[r] = "found" /\ OverdueIs(r, "timedOut")
  /\ IF Expiring(r) THEN StatusOf(r, "timedOut") ELSE UNCHANGED status
  /\ UNCHANGED <<turns, ledgerVars, approval, submitting, stopping, telling,
                 worldVars, histVars>>

ReleasesOverdue(r) ==
  /\ overdue[r] = "timedOut" /\ OverdueIs(r, "no") /\ Release(r)
  /\ UNCHANGED <<runVars, reserved, charged, approval, submitting, stopping,
                 telling, worldVars, histVars>>

MaintenanceDies ==
  /\ \E r \in Runs : overdue[r] # "no"
  /\ Fault
  /\ overdue' = [r \in Runs |-> "no"]
  /\ stranded' = stranded \cup {r \in Runs : overdue[r] = "timedOut"}
  /\ UNCHANGED <<runVars, ledgerVars, approval, submitting, stopping, telling,
                 heard, told, refused, cut>>

-----------------------------------------------------------------------------

DayBreaks ==
  LET before(entries) ==
        [r \in Runs |-> IF entries[r] = "today" THEN "earlier" ELSE entries[r]]
  IN
  /\ \E r \in Runs : "today" \in {reserved[r], released[r], charged[r]}
  /\ reserved' = before(reserved) /\ released' = before(released)
  /\ charged' = before(charged)
  /\ UNCHANGED <<runVars, approval, callVars, worldVars, histVars>>

Submission(r) ==
  \/ Claim(r) \/ Accepted(r) \/ Refused(r) \/ AcceptedUnheard(r)
  \/ Compensates(r) \/ SubmissionDies(r)

Decision(r, a) ==
  \/ \E decision \in {"approved", "rejected"} : Decides(r, a, decision)
  \/ Expires(r, a) \/ TellingFails(r, a)
  \/ Settles(r, a) \/ Counts(r, a) \/ DecisionDies(r, a)

Maintenance(r) == Finds(r) \/ TimesOut(r) \/ ReleasesOverdue(r)

Next ==
  \/ \E r \in Runs :
       \/ Submission(r) \/ Maintenance(r)
       \/ Interrupt(r) \/ Interrupted(r) \/ InterruptionFails(r)
       \/ \E costly \in BOOLEAN, actions \in SUBSET ActionsOf(r) :
            Responds(r, costly, actions)
       \/ \E a \in ActionsOf(r) : Decision(r, a)
  \/ MaintenanceDies \/ DayBreaks

Spec == Init /\ [][Next]_vars

-----------------------------------------------------------------------------
(* Properties.                                                             *)

\* Every variable stays within its row's domain, and a run that exists has a
\* reservation.
TypeOK ==
  /\ status \in [Runs -> {"none"} \cup Active \cup Ended]
  /\ turns \in 0..Turns
  /\ reserved \in [Runs -> Days] /\ released \in [Runs -> Days]
  /\ charged \in [Runs -> Days \cup {"free"}]
  /\ approval \in [Runs -> [Actions -> {"none", "pending", "approved",
                                        "rejected", "expired", "applied"}]]
  /\ submitting \in [Runs -> {"idle", "calling", "refused"}]
  /\ stopping \subseteq Runs
  /\ telling \in [Runs -> [Actions -> {"idle", "call", "count"}]]
  /\ overdue \in [Runs -> {"no", "found", "timedOut"}]
  /\ heard \subseteq Runs /\ faults \in 0..MaxFaults
  /\ told \in [Runs -> [Actions -> Nat]]
  /\ refused \subseteq Runs /\ cut \subseteq Runs /\ stranded \subseteq Runs
  /\ \A r \in Runs : reserved[r] = "never" <=> status[r] = "none"

\* What runs have cost on one day, and what those that are under way may still
\* cost, is within the daily budget but for as much as runs of earlier days have
\* given back on it: the release counts for the day on which it is entered.
Open == {r \in Today(reserved) : released[r] = "never"}
CarriedOver == {r \in Today(released) : reserved[r] = "earlier"}

SpendIsBounded ==
  Cardinality(Open) + Cardinality(Today(charged))
    <= Daily + Cardinality(CarriedOver)

\* A run that has ended has given its reservation back, exactly those that
\* failed have given back their turn, and no more are under way than allowed.
\* A run that was interrupted keeps its reservation, and so does one that
\* maintenance has timed out before it stopped.
EndedIsSettled ==
  /\ \A r \in Runs :
       status[r] \in Ended /\ released[r] = "never" =>
         r \in cut \cup stranded \/ overdue[r] = "timedOut"
  /\ turns + Cardinality({r \in Runs : status[r] \notin {"none", "failed"}})
       = Turns
  /\ Cardinality(ActiveRuns) <= MaxConcurrent

\* The runtime is told one decision, but for calls that seemed to fail, whoever
\* else decides meanwhile.  The last decision completes the run, of two that are
\* made together too: a run waits only for a decision, an expiry or a process
\* that has stopped, and is completed with none open but for those which the
\* runtime has refused.
DecisionsCount ==
  \A r \in Runs :
    /\ \A a \in Actions : told[r][a] <= 1
    /\ status[r] = "waiting" /\ r \notin cut \cup stranded =>
         \E a \in Actions :
           \/ approval[r][a] \in {"pending", "approved", "expired"}
           \/ telling[r][a] # "idle"
    /\ status[r] = "completed" =>
         Left(r) = {} \/ r \in cut \cup refused

\* Of a run that nobody has asked to stop the end is final and one response is
\* taken, however often the runtime delivers it: what runs beside it, the
\* compensation of a submission whose answer was lost, maintenance and the last
\* decision, each look at the status in the UPDATE that writes it.
EndIsFinalUnlessCut ==
  [][\A r \in Runs \ cut :
       /\ status[r] \in Ended => status'[r] = status[r]
       /\ charged[r] # "never" /\ status[r] # "waiting"
            => status'[r] # "waiting"]_vars

\* A delivery is "idempotent" thanks to "database claims".  It fails: between
\* the two steps of an interruption a response that has been taken is taken
\* again, and the run of a finished response starts to wait for approval.
ResponseIsTakenOnce ==
  [][\A r \in Runs :
       charged[r] # "never" /\ status[r] # "waiting"
         => status'[r] # "waiting"]_vars

\* What has ended stays as it ended.  It fails: the second UPDATE of interrupt
\* has no condition, and calls a completed run interrupted.
EndedStays ==
  [][\A r \in Runs : status[r] \in Ended => status'[r] = status[r]]_vars

=============================================================================
