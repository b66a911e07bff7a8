-------------------------- MODULE AgentRunsProofs --------------------------
(***************************************************************************)
(* The ledger and the approvals of agent runs, for every number of runs,   *)
(* actions and failures and for every limit of the workspace.              *)
(***************************************************************************)
EXTENDS AgentRuns, FiniteSetTheorems, TLAPS

(***************************************************************************)
(* The inductive invariant: four parts about each run, and three sums.     *)
(***************************************************************************)

\* Entries of the ledger follow one another, and a run that has not been
\* charged gives nothing back before it has ended.
Ledger(r) ==
  /\ released[r] # "never" => reserved[r] # "never"
  /\ released[r] = "earlier" => reserved[r] = "earlier"
  /\ released[r] # "never" /\ charged[r] = "never" => status[r] \in Ended
  /\ status[r] = "waiting" => released[r] # "never"

\* Who has ended a run, and who is about to.
Ending(r) ==
  /\ status[r] \in Ended /\ released[r] = "never" =>
       r \in cut \cup stranded \/ overdue[r] = "timedOut"
  /\ overdue[r] = "timedOut" => status[r] \in Ended
  /\ r \in stopping => r \in cut /\ status[r] \notin {"none", "failed", "submitted"}
  /\ status[r] = "interrupting" => r \in cut
  /\ r \in heard \/ submitting[r] # "idle" \/ overdue[r] # "no" =>
       status[r] # "none"

\* What the runtime has been told of each action.
Told(r, a) ==
  /\ told[r][a] <= 1
  /\ approval[r][a] \in {"none", "pending", "expired"} => told[r][a] = 0
  /\ telling[r][a] = "call" =>
       told[r][a] = 1 /\ approval[r][a] \in {"approved", "rejected"}

\* A waiting run has something to wait for, and a completed one has nothing.
Awaited(r) ==
  \E a \in Actions : \/ approval[r][a] \in {"pending", "approved", "expired"}
                     \/ telling[r][a] # "idle"

Deciding(r) ==
  /\ status[r] \in {"none", "submitted"} => \A a \in Actions : approval[r][a] = "none"
  /\ status[r] = "waiting" /\ r \notin cut \cup stranded => Awaited(r)
  /\ status[r] = "completed" => Left(r) = {} \/ r \in cut \cup refused

RunInv(r) ==
  Ledger(r) /\ Ending(r) /\ (\A a \in Actions : Told(r, a)) /\ Deciding(r)

Holding == {r \in Runs : status[r] \notin {"none", "failed"}}
TurnsAreHeld == turns + Cardinality(Holding) = Turns
FewAreActive == Cardinality(ActiveRuns) <= MaxConcurrent

IInv == /\ TypeOK /\ (\A r \in Runs : RunInv(r))
        /\ TurnsAreHeld /\ FewAreActive /\ SpendIsBounded

-----------------------------------------------------------------------------
(* The steps, by what they can change.                                       *)

\* Steps in which the ledger and the status stay as they are.
Waits(r) ==
  \/ Accepted(r) \/ Refused(r) \/ AcceptedUnheard(r) \/ SubmissionDies(r)
  \/ InterruptionFails(r) \/ Finds(r)

Tells(r, a) ==
  \/ \E decision \in {"approved", "rejected"} : Decides(r, a, decision)
  \/ Expires(r, a) \/ TellingFails(r, a) \/ Settles(r, a) \/ DecisionDies(r, a)

Answers(r) ==
  \E costly \in BOOLEAN, actions \in SUBSET ActionsOf(r) :
    Responds(r, costly, actions)

LEMMA Steps ==
  ASSUME [Next]_vars
  PROVE  \/ \E r \in Runs : \/ Claim(r) \/ Compensates(r) \/ Waits(r)
                            \/ Interrupt(r) \/ Interrupted(r) \/ TimesOut(r)
                            \/ ReleasesOverdue(r) \/ Answers(r)
                            \/ \E a \in Actions : Tells(r, a) \/ Counts(r, a)
         \/ MaintenanceDies \/ DayBreaks
         \/ UNCHANGED vars
<1>1. \A r \in Runs : ActionsOf(r) \subseteq Actions
  BY DEF ActionsOf
<1>2. QED
  BY <1>1 DEF Next, Submission, Maintenance, Decision, Waits, Tells, Answers

LEMMA Finite == \A S : S \subseteq Runs => IsFiniteSet(S) /\ Cardinality(S) \in Nat
  BY LimitsAssumption, FS_Subset, FS_CardinalityType

LEMMA Smaller ==
  ASSUME NEW S, NEW T, T \subseteq Runs, S \subseteq T
  PROVE  Cardinality(S) <= Cardinality(T)
  BY Finite, FS_Subset

LEMMA OneMore ==
  ASSUME NEW S, NEW r \in Runs, S \subseteq Runs, r \notin S
  PROVE  Cardinality(S \cup {r}) = Cardinality(S) + 1
  BY Finite, FS_AddElement

LEMMA OneMoreAtMost ==
  ASSUME NEW S, NEW r \in Runs, S \subseteq Runs
  PROVE  Cardinality(S \cup {r}) <= Cardinality(S) + 1
<1>1. CASE r \in S
  <2>1. S \cup {r} = S
    BY <1>1
  <2>2. QED
    BY <2>1, Finite
<1>2. CASE r \notin S
  BY <1>2, OneMore, Finite
<1>3. QED
  BY <1>1, <1>2
-----------------------------------------------------------------------------
(* Types.                                                                    *)

LEMMA TypeInit == Init => TypeOK
  BY LimitsAssumption DEF Init, TypeOK, Days, Active, Ended

\* TypeOK by what it speaks of.
RunTypes ==
  /\ status \in [Runs -> {"none"} \cup Active \cup Ended] /\ turns \in 0..Turns
  /\ \A r \in Runs : reserved[r] = "never" <=> status[r] = "none"
LedgerTypes ==
  /\ reserved \in [Runs -> Days] /\ released \in [Runs -> Days]
  /\ charged \in [Runs -> Days \cup {"free"}]
ApprovalTypes ==
  /\ approval \in [Runs -> [Actions -> {"none", "pending", "approved",
                                        "rejected", "expired", "applied"}]]
  /\ telling \in [Runs -> [Actions -> {"idle", "call", "count"}]]
  /\ told \in [Runs -> [Actions -> Nat]]
CallTypes ==
  /\ submitting \in [Runs -> {"idle", "calling", "refused"}]
  /\ overdue \in [Runs -> {"no", "found", "timedOut"}]
SetTypes ==
  /\ stopping \subseteq Runs /\ heard \subseteq Runs /\ faults \in 0..MaxFaults
  /\ refused \subseteq Runs /\ cut \subseteq Runs /\ stranded \subseteq Runs

Typed == RunTypes /\ LedgerTypes /\ ApprovalTypes /\ CallTypes /\ SetTypes

LEMMA Types == TypeOK <=> Typed
  BY DEF Typed, TypeOK, RunTypes, LedgerTypes, ApprovalTypes, CallTypes, SetTypes

LEMMA TypeStep ==
  ASSUME TypeOK, \A r \in Runs : RunInv(r), TurnsAreHeld, [Next]_vars
  PROVE  TypeOK'
<1> USE LimitsAssumption DEF runVars, ledgerVars, callVars, worldVars, histVars
<1>0. RunTypes /\ LedgerTypes /\ ApprovalTypes /\ CallTypes /\ SetTypes
  BY Types DEF Typed
<1>1. ASSUME NEW r \in Runs, Claim(r)
      PROVE  Typed'
  <2>1. RunTypes'
    BY <1>0, <1>1 DEF Claim, StatusOf, Entered, LedgerTypes, RunTypes,
       Active, Ended, Days
  <2>2. LedgerTypes'
    BY <1>0, <1>1 DEF Claim, StatusOf, Entered, LedgerTypes, Days
  <2>3. ApprovalTypes'
    BY <1>0, <1>1 DEF Claim, StatusOf, Entered, LedgerTypes, ApprovalTypes
  <2>4. CallTypes'
    BY <1>0, <1>1 DEF Claim, StatusOf, Entered, LedgerTypes, CallTypes
  <2>5. SetTypes'
    BY <1>0, <1>1 DEF Claim, StatusOf, Entered, LedgerTypes, SetTypes
  <2>6. QED
    BY <2>1, <2>2, <2>3, <2>4, <2>5 DEF Typed
<1>2. ASSUME NEW r \in Runs, Compensates(r)
      PROVE  Typed'
  <2>1. RunTypes'
    <3>1. CASE Compensable(r)
      <4>1. r \in Holding
        BY <3>1 DEF Holding, Compensable
      <4>2. Cardinality(Holding \ {r}) + 1 = Cardinality(Holding)
        <5>1. (Holding \ {r}) \cup {r} = Holding
          BY <4>1
        <5>2. QED
          BY <5>1, OneMore DEF Holding
      <4>3. turns + 1 <= Turns
        BY <1>0, <4>2, Finite DEF Holding, TurnsAreHeld, RunTypes
      <4>4. status' = [status EXCEPT ![r] = "failed"] /\ turns' = turns + 1
            /\ status[r] = "submitted" /\ UNCHANGED reserved
        BY <1>2, <3>1 DEF Compensates, Compensable, StatusOf
      <4>5. QED
        BY <1>0, <4>3, <4>4 DEF RunTypes, Active, Ended
    <3>2. CASE ~Compensable(r)
      BY <1>0, <1>2, <3>2 DEF Compensates, RunTypes
    <3>3. QED
      BY <3>1, <3>2
  <2>2. LedgerTypes'
    BY <1>0, <1>2 DEF Compensates, StatusOf, Release, Entered, Compensable,
       LedgerTypes, Days
  <2>3. ApprovalTypes'
    BY <1>0, <1>2 DEF Compensates, StatusOf, Release, Entered, Compensable,
       ApprovalTypes
  <2>4. CallTypes'
    BY <1>0, <1>2 DEF Compensates, StatusOf, Release, Entered, Compensable,
       CallTypes
  <2>5. SetTypes'
    BY <1>0, <1>2 DEF Compensates, StatusOf, Release, Entered, Compensable,
       SetTypes
  <2>6. QED
    BY <2>1, <2>2, <2>3, <2>4, <2>5 DEF Typed
<1>3. ASSUME NEW r \in Runs, Waits(r)
      PROVE  Typed'
  <2>1. RunTypes'
    BY <1>0, <1>3 DEF Waits, Accepted, Refused, AcceptedUnheard,
       SubmissionDies, SubmissionEnds, InterruptionFails, Finds, OverdueIs,
       Fault, RunTypes, Active, Ended, Days
  <2>2. LedgerTypes'
    BY <1>0, <1>3 DEF Waits, Accepted, Refused, AcceptedUnheard,
       SubmissionDies, SubmissionEnds, InterruptionFails, Finds, OverdueIs,
       Fault, LedgerTypes, Days
  <2>3. ApprovalTypes'
    BY <1>0, <1>3 DEF Waits, Accepted, Refused, AcceptedUnheard,
       SubmissionDies, SubmissionEnds, InterruptionFails, Finds, OverdueIs,
       Fault, ApprovalTypes
  <2>4. CallTypes'
    BY <1>0, <1>3 DEF Waits, Accepted, Refused, AcceptedUnheard,
       SubmissionDies, SubmissionEnds, InterruptionFails, Finds, OverdueIs,
       Fault, CallTypes
  <2>5. SetTypes'
    BY <1>0, <1>3 DEF Waits, Accepted, Refused, AcceptedUnheard,
       SubmissionDies, SubmissionEnds, InterruptionFails, Finds, OverdueIs,
       Fault, SetTypes
  <2>6. QED
    BY <2>1, <2>2, <2>3, <2>4, <2>5 DEF Typed
<1>4. ASSUME NEW r \in Runs, Interrupt(r) \/ Interrupted(r)
      PROVE  Typed'
  <2>1. RunTypes'
    BY <1>0, <1>4 DEF Interrupt, Interrupted, StatusOf, RunInv, Ending,
       RunTypes, Active, Ended, Days
  <2>2. LedgerTypes'
    BY <1>0, <1>4 DEF Interrupt, Interrupted, StatusOf, RunInv, Ending,
       LedgerTypes, Days
  <2>3. ApprovalTypes'
    BY <1>0, <1>4 DEF Interrupt, Interrupted, StatusOf, RunInv, Ending,
       ApprovalTypes
  <2>4. CallTypes'
    BY <1>0, <1>4 DEF Interrupt, Interrupted, StatusOf, RunInv, Ending,
       CallTypes
  <2>5. SetTypes'
    BY <1>0, <1>4 DEF Interrupt, Interrupted, StatusOf, RunInv, Ending,
       SetTypes
  <2>6. QED
    BY <2>1, <2>2, <2>3, <2>4, <2>5 DEF Typed
<1>5. ASSUME NEW r \in Runs, TimesOut(r)
      PROVE  Typed'
  <2>1. RunTypes'
    BY <1>0, <1>5 DEF TimesOut, StatusOf, OverdueIs, Expiring, RunTypes,
       Active, Ended, Days
  <2>2. LedgerTypes'
    BY <1>0, <1>5 DEF TimesOut, StatusOf, OverdueIs, Expiring, LedgerTypes,
       Days
  <2>3. ApprovalTypes'
    BY <1>0, <1>5 DEF TimesOut, StatusOf, OverdueIs, Expiring, ApprovalTypes
  <2>4. CallTypes'
    BY <1>0, <1>5 DEF TimesOut, StatusOf, OverdueIs, Expiring, CallTypes
  <2>5. SetTypes'
    BY <1>0, <1>5 DEF TimesOut, StatusOf, OverdueIs, Expiring, SetTypes
  <2>6. QED
    BY <2>1, <2>2, <2>3, <2>4, <2>5 DEF Typed
<1>6. ASSUME NEW r \in Runs, ReleasesOverdue(r)
      PROVE  Typed'
  <2>1. RunTypes'
    BY <1>0, <1>6 DEF ReleasesOverdue, OverdueIs, Release, Entered,
       RunTypes, Active, Ended, Days
  <2>2. LedgerTypes'
    BY <1>0, <1>6 DEF ReleasesOverdue, OverdueIs, Release, Entered,
       LedgerTypes, Days
  <2>3. ApprovalTypes'
    BY <1>0, <1>6 DEF ReleasesOverdue, OverdueIs, Release, Entered,
       ApprovalTypes
  <2>4. CallTypes'
    BY <1>0, <1>6 DEF ReleasesOverdue, OverdueIs, Release, Entered,
       CallTypes
  <2>5. SetTypes'
    BY <1>0, <1>6 DEF ReleasesOverdue, OverdueIs, Release, Entered, SetTypes
  <2>6. QED
    BY <2>1, <2>2, <2>3, <2>4, <2>5 DEF Typed
<1>7. ASSUME NEW r \in Runs, Answers(r)
      PROVE  Typed'
  <2>1. RunTypes'
    BY <1>0, <1>7 DEF Answers, Responds, StatusOf, Entered,
       AnsweredReleases, Release, RunInv, Ending, RunTypes, Active, Ended,
       Days
  <2>2. LedgerTypes'
    BY <1>0, <1>7 DEF Answers, Responds, StatusOf, Entered,
       AnsweredReleases, Release, RunInv, Ending, LedgerTypes, Days
  <2>3. ApprovalTypes'
    BY <1>0, <1>7 DEF Answers, Responds, StatusOf, Entered,
       AnsweredReleases, Release, RunInv, Ending, ApprovalTypes
  <2>4. CallTypes'
    BY <1>0, <1>7 DEF Answers, Responds, StatusOf, Entered,
       AnsweredReleases, Release, RunInv, Ending, CallTypes
  <2>5. SetTypes'
    BY <1>0, <1>7 DEF Answers, Responds, StatusOf, Entered,
       AnsweredReleases, Release, RunInv, Ending, SetTypes
  <2>6. QED
    BY <2>1, <2>2, <2>3, <2>4, <2>5 DEF Typed
<1>8. ASSUME NEW r \in Runs, NEW a \in Actions, Tells(r, a)
      PROVE  Typed'
  <2>1. RunTypes'
    BY <1>0, <1>8 DEF Tells, Decides, Expires, TellingFails, Settles,
       DecisionDies, ApprovalIs, TellingIs, Fault, RunInv, Told, RunTypes,
       Active, Ended, Days
  <2>2. LedgerTypes'
    BY <1>0, <1>8 DEF Tells, Decides, Expires, TellingFails, Settles,
       DecisionDies, ApprovalIs, TellingIs, Fault, RunInv, Told,
       LedgerTypes, Days
  <2>3. ApprovalTypes'
    <3>1. CASE \E decision \in {"approved", "rejected"} : Decides(r, a, decision)
      BY <1>0, <3>1 DEF Decides, ApprovalIs, TellingIs, ApprovalTypes
    <3>2. CASE Expires(r, a)
      BY <1>0, <3>2 DEF Expires, ApprovalIs, ApprovalTypes
    <3>3. CASE Settles(r, a)
      <4>1. CASE approval[r][a] = "approved"
        <5>1. /\ approval' = [approval EXCEPT ![r][a] = "applied"]
              /\ telling' = [telling EXCEPT ![r][a] = "count"] /\ UNCHANGED told
          BY <3>3, <4>1 DEF Settles, ApprovalIs, TellingIs
        <5>2. QED
          BY <1>0, <5>1 DEF ApprovalTypes
      <4>2. CASE approval[r][a] # "approved"
        BY <1>0, <3>3, <4>2 DEF Settles, TellingIs, ApprovalTypes
      <4>3. QED
        BY <4>1, <4>2
    <3>4. CASE DecisionDies(r, a)
      BY <1>0, <3>4 DEF DecisionDies, TellingIs, ApprovalTypes
    <3>5. CASE TellingFails(r, a)
      <4>1. told[r][a] = 1
        BY <3>5 DEF TellingFails, RunInv, Told
      <4>2. QED
        BY <1>0, <3>5, <4>1 DEF TellingFails, ApprovalIs, TellingIs, ApprovalTypes
    <3>6. QED
      BY <1>8, <3>1, <3>2, <3>3, <3>4, <3>5 DEF Tells
  <2>4. CallTypes'
    BY <1>0, <1>8 DEF Tells, Decides, Expires, TellingFails, Settles,
       DecisionDies, ApprovalIs, TellingIs, Fault, RunInv, Told, CallTypes
  <2>5. SetTypes'
    BY <1>0, <1>8 DEF Tells, Decides, Expires, TellingFails, Settles,
       DecisionDies, ApprovalIs, TellingIs, Fault, RunInv, Told, SetTypes
  <2>6. QED
    BY <2>1, <2>2, <2>3, <2>4, <2>5 DEF Typed
<1>9. ASSUME NEW r \in Runs, NEW a \in Actions, Counts(r, a)
      PROVE  Typed'
  <2>1. RunTypes'
    BY <1>0, <1>9 DEF Counts, TellingIs, StatusOf, RunTypes, Active, Ended,
       Days
  <2>2. LedgerTypes'
    BY <1>0, <1>9 DEF Counts, TellingIs, StatusOf, LedgerTypes, Days
  <2>3. ApprovalTypes'
    BY <1>0, <1>9 DEF Counts, TellingIs, StatusOf, ApprovalTypes
  <2>4. CallTypes'
    BY <1>0, <1>9 DEF Counts, TellingIs, StatusOf, CallTypes
  <2>5. SetTypes'
    BY <1>0, <1>9 DEF Counts, TellingIs, StatusOf, SetTypes
  <2>6. QED
    BY <2>1, <2>2, <2>3, <2>4, <2>5 DEF Typed
<1>10. ASSUME MaintenanceDies \/ DayBreaks
       PROVE  Typed'
  <2>1. RunTypes'
    BY <1>0, <1>10 DEF MaintenanceDies, DayBreaks, Fault, RunTypes, Active,
       Ended, Days
  <2>2. LedgerTypes'
    BY <1>0, <1>10 DEF MaintenanceDies, DayBreaks, Fault, LedgerTypes, Days
  <2>3. ApprovalTypes'
    BY <1>0, <1>10 DEF MaintenanceDies, DayBreaks, Fault, ApprovalTypes
  <2>4. CallTypes'
    BY <1>0, <1>10 DEF MaintenanceDies, DayBreaks, Fault, CallTypes
  <2>5. SetTypes'
    BY <1>0, <1>10 DEF MaintenanceDies, DayBreaks, Fault, SetTypes
  <2>6. QED
    BY <2>1, <2>2, <2>3, <2>4, <2>5 DEF Typed
<1>11. ASSUME UNCHANGED vars
       PROVE  Typed'
  BY <1>0, <1>11 DEF vars, Typed, RunTypes, LedgerTypes, ApprovalTypes,
                CallTypes, SetTypes
<1>12. Typed'
  BY <1>1, <1>2, <1>3, <1>4, <1>5, <1>6, <1>7, <1>8, <1>9, <1>10, <1>11, Steps
<1>13. QED
  BY <1>12 DEF Typed, TypeOK, RunTypes, LedgerTypes, ApprovalTypes, CallTypes,
                SetTypes

-----------------------------------------------------------------------------
(* The parts about each run.                                                 *)

\* What RunInv looks at.
Same(q) ==
  /\ status'[q] = status[q] /\ reserved'[q] = reserved[q]
  /\ released'[q] = released[q] /\ charged'[q] = charged[q]
  /\ approval'[q] = approval[q] /\ telling'[q] = telling[q]
  /\ told'[q] = told[q]
  /\ submitting'[q] = submitting[q] /\ overdue'[q] = overdue[q]
  /\ (q \in stopping' <=> q \in stopping) /\ (q \in heard' <=> q \in heard)
  /\ (q \in cut' <=> q \in cut) /\ (q \in refused' <=> q \in refused)
  /\ (q \in stranded' <=> q \in stranded)

LEMMA SameHolds ==
  ASSUME NEW q \in Runs, RunInv(q), Same(q)
  PROVE  RunInv(q)'
  BY DEF Same, RunInv, Ledger, Ending, Told, Deciding, Awaited, Left

LEMMA OthersStay ==
  ASSUME TypeOK, NEW r \in Runs, NEW q \in Runs, q # r,
         \/ Claim(r) \/ Compensates(r) \/ Waits(r)
         \/ Interrupt(r) \/ Interrupted(r) \/ TimesOut(r)
         \/ ReleasesOverdue(r) \/ Answers(r)
         \/ \E a \in Actions : Tells(r, a) \/ Counts(r, a)
  PROVE  Same(q)
<1> USE DEF TypeOK, Same, runVars, ledgerVars, callVars, worldVars, histVars
<1>1. CASE Claim(r)
  BY <1>1 DEF Claim, StatusOf, Entered
<1>2. CASE Compensates(r)
  BY <1>2 DEF Compensates, StatusOf, Release, Entered
<1>3. CASE Waits(r)
  BY <1>3 DEF Waits, Accepted, Refused, AcceptedUnheard, SubmissionDies,
              SubmissionEnds, InterruptionFails, Finds, OverdueIs
<1>4. CASE Interrupt(r) \/ Interrupted(r)
  BY <1>4 DEF Interrupt, Interrupted, StatusOf
<1>5. CASE TimesOut(r) \/ ReleasesOverdue(r)
  BY <1>5 DEF TimesOut, ReleasesOverdue, StatusOf, OverdueIs, Release, Entered
<1>6. CASE Answers(r)
  BY <1>6 DEF Answers, Responds, StatusOf, Entered, AnsweredReleases, Release
<1>7. CASE \E a \in Actions : Tells(r, a)
  BY <1>7 DEF Tells, Decides, Expires, TellingFails, Settles, DecisionDies,
              ApprovalIs, TellingIs
<1>8. CASE \E a \in Actions : Counts(r, a)
  BY <1>8 DEF Counts, TellingIs, StatusOf
<1>9. QED
  BY <1>1, <1>2, <1>3, <1>4, <1>5, <1>6, <1>7, <1>8

LEMMA RunInvInit == Init => \A r \in Runs : RunInv(r)
  BY DEF Init, RunInv, Ledger, Ending, Told, Deciding, Ended

\* Submission, interruption and maintenance.
LEMMA CallsStep ==
  ASSUME TypeOK, NEW r \in Runs, RunInv(r),
         \/ Claim(r) \/ Compensates(r) \/ Waits(r)
         \/ Interrupt(r) \/ Interrupted(r) \/ TimesOut(r) \/ ReleasesOverdue(r)
  PROVE  RunInv(r)'
<1> USE DEF TypeOK, RunInv, Ledger, Ending, Told, Deciding, Awaited, Left,
            Ended, Active, Days, runVars, ledgerVars, callVars, worldVars,
            histVars
<1>1. CASE Claim(r)
  BY <1>1 DEF Claim, StatusOf, Entered
<1>2. CASE Compensates(r)
  BY <1>2 DEF Compensates, Compensable, StatusOf, Release, Entered
<1>3. CASE Waits(r)
  BY <1>3 DEF Waits, Accepted, Refused, AcceptedUnheard, SubmissionDies,
              SubmissionEnds, InterruptionFails, Finds, OverdueIs, Expiring
<1>4. CASE Interrupt(r)
  BY <1>4 DEF Interrupt, StatusOf
<1>5. CASE Interrupted(r)
  BY <1>5 DEF Interrupted, StatusOf
<1>6. CASE TimesOut(r)
  <2>1. /\ overdue' = [overdue EXCEPT ![r] = "timedOut"]
        /\ UNCHANGED <<reserved, released, charged, approval, submitting,
                       stopping, telling, worldVars, histVars>>
    BY <1>6 DEF TimesOut, OverdueIs
  <2>2. CASE Expiring(r)
    <3>1. status[r] \in Active /\ status' = [status EXCEPT ![r] = "timedOut"]
      BY <1>6, <2>2 DEF TimesOut, StatusOf, Expiring
    <3>2. QED
      BY <2>1, <3>1
  <2>3. CASE ~Expiring(r)
    <3>1. status[r] \in Ended /\ UNCHANGED status
      BY <1>6, <2>3 DEF TimesOut, Expiring
    <3>2. QED
      BY <2>1, <3>1
  <2>4. QED
    BY <2>2, <2>3
<1>7. CASE ReleasesOverdue(r)
  BY <1>7 DEF ReleasesOverdue, OverdueIs, Release, Entered
<1>8. QED
  BY <1>1, <1>2, <1>3, <1>4, <1>5, <1>6, <1>7

\* A response finds the approvals of a run that was not interrupted untouched.
LEMMA AnswerStep ==
  ASSUME TypeOK, NEW r \in Runs, RunInv(r), Answers(r)
  PROVE  RunInv(r)'
<1> USE DEF TypeOK, RunInv, Ledger, Ending, Told, Deciding, Awaited, Left,
            Ended, Active, Days, callVars, worldVars, histVars
<1>1. PICK costly \in BOOLEAN, actions \in SUBSET ActionsOf(r) :
        Responds(r, costly, actions)
  BY DEF Answers
<1>2. /\ status[r] \in {"submitted", "interrupting"} /\ actions \subseteq Actions
      /\ status'[r] = IF actions = {} THEN "completed" ELSE "waiting"
      /\ released'[r] # "never" /\ charged'[r] # "never"
      /\ released'[r] = "earlier" => released[r] = "earlier"
      /\ approval'[r] = [a \in Actions |->
           IF a \in actions /\ approval[r][a] = "none" THEN "pending"
                                                      ELSE approval[r][a]]
      /\ UNCHANGED <<reserved, callVars, worldVars, histVars>>
  BY <1>1 DEF Responds, Answerable, StatusOf, Entered, AnsweredReleases,
              Release, ActionsOf
<1>3. Ledger(r)' /\ Ending(r)'
  BY <1>2
<1>4. ASSUME NEW a \in Actions PROVE Told(r, a)'
  BY <1>2
<1>5. Deciding(r)'
  BY <1>2
<1>6. QED
  BY <1>3, <1>4, <1>5

\* Decisions.
LEMMA DecisionStep ==
  ASSUME TypeOK, NEW r \in Runs, RunInv(r), NEW a \in Actions,
         Tells(r, a) \/ Counts(r, a)
  PROVE  RunInv(r)'
<1> USE DEF TypeOK, RunInv, Ledger, Ending, Told, Deciding, Awaited, Left,
            Ended, Active, Days, runVars, ledgerVars, worldVars, histVars
<1>1. CASE \E decision \in {"approved", "rejected"} : Decides(r, a, decision)
  BY <1>1 DEF Decides, Decidable, ApprovalIs, TellingIs
<1>2. CASE Expires(r, a)
  BY <1>2 DEF Expires, ApprovalIs, callVars
<1>3. CASE TellingFails(r, a)
  BY <1>3 DEF TellingFails, ApprovalIs, TellingIs
<1>4. CASE Settles(r, a)
  BY <1>4 DEF Settles, ApprovalIs, TellingIs
<1>5. CASE DecisionDies(r, a)
  BY <1>5 DEF DecisionDies, TellingIs
<1>6. CASE Counts(r, a)
  BY <1>6 DEF Counts, TellingIs, StatusOf
<1>7. QED
  BY <1>1, <1>2, <1>3, <1>4, <1>5, <1>6 DEF Tells

LEMMA RunInvStep ==
  ASSUME TypeOK, \A r \in Runs : RunInv(r), [Next]_vars, NEW q \in Runs
  PROVE  RunInv(q)'
<1>1. CASE \E r \in Runs : \/ Claim(r) \/ Compensates(r) \/ Waits(r)
                           \/ Interrupt(r) \/ Interrupted(r) \/ TimesOut(r)
                           \/ ReleasesOverdue(r) \/ Answers(r)
                           \/ \E a \in Actions : Tells(r, a) \/ Counts(r, a)
  BY <1>1, OthersStay, SameHolds, CallsStep, AnswerStep, DecisionStep
<1>2. CASE MaintenanceDies
  BY <1>2 DEF MaintenanceDies, TypeOK, RunInv, Ledger, Ending, Told, Deciding,
              Awaited, Left, runVars, ledgerVars
<1>3. CASE DayBreaks
  BY <1>3 DEF DayBreaks, TypeOK, RunInv, Ledger, Ending, Told, Deciding,
              Awaited, Left, Days, runVars, callVars, worldVars, histVars
<1>4. CASE UNCHANGED vars
  BY <1>4, SameHolds DEF vars, Same, runVars, ledgerVars, callVars, worldVars,
                         histVars
<1>5. QED
  BY <1>1, <1>2, <1>3, <1>4, Steps

-----------------------------------------------------------------------------
(* The sums.                                                                 *)

LEMMA SumsInit == Init => TurnsAreHeld /\ FewAreActive /\ SpendIsBounded
<1> SUFFICES ASSUME Init PROVE TurnsAreHeld /\ FewAreActive /\ SpendIsBounded
  OBVIOUS
<1>1. Holding = {} /\ ActiveRuns = {} /\ Open = {} /\ CarriedOver = {}
      /\ Today(charged) = {} /\ turns = Turns
  BY DEF Init, Holding, ActiveRuns, Active, Open, CarriedOver, Today
<1>2. QED
  BY <1>1, FS_EmptySet, LimitsAssumption
     DEF TurnsAreHeld, FewAreActive, SpendIsBounded

\* A turn is taken by a claim and given back by a refused submission.
LEMMA TurnsStep ==
  ASSUME TypeOK, \A r \in Runs : RunInv(r), TurnsAreHeld, [Next]_vars
  PROVE  TurnsAreHeld'
<1> USE DEF TypeOK, runVars, ledgerVars, callVars, worldVars, histVars
<1>1. ASSUME NEW r \in Runs, Claim(r)
      PROVE  TurnsAreHeld'
  <2>1. Holding' = Holding \cup {r} /\ r \notin Holding /\ turns' = turns - 1
    BY <1>1 DEF Claim, StatusOf, Holding
  <2>2. Cardinality(Holding') = Cardinality(Holding) + 1
    BY <2>1, OneMore DEF Holding
  <2>3. Cardinality(Holding) \in Nat /\ Cardinality(Holding') \in Nat
    BY Finite DEF Holding
  <2>4. QED
    BY <2>1, <2>2, <2>3, LimitsAssumption DEF TurnsAreHeld
<1>2. ASSUME NEW r \in Runs, Compensates(r), Compensable(r)
      PROVE  TurnsAreHeld'
  <2>1. Holding = Holding' \cup {r} /\ r \notin Holding' /\ turns' = turns + 1
    BY <1>2 DEF Compensates, Compensable, StatusOf, Holding
  <2>2. Cardinality(Holding) = Cardinality(Holding') + 1
    BY <2>1, OneMore DEF Holding
  <2>3. Cardinality(Holding) \in Nat /\ Cardinality(Holding') \in Nat
    BY Finite DEF Holding
  <2>4. QED
    BY <2>1, <2>2, <2>3, LimitsAssumption DEF TurnsAreHeld
<1>3. ASSUME UNCHANGED turns,
             \A q \in Runs : status[q] \in {"none", "failed"}
                              <=> status'[q] \in {"none", "failed"}
      PROVE  TurnsAreHeld'
  <2>1. Holding' = Holding
    BY <1>3 DEF Holding
  <2>2. QED
    BY <1>3, <2>1 DEF TurnsAreHeld
<1>4. ASSUME NEW r \in Runs, Compensates(r), ~Compensable(r)
      PROVE  TurnsAreHeld'
  BY <1>3, <1>4 DEF Compensates
<1>5. ASSUME NEW r \in Runs, Waits(r)
      PROVE  TurnsAreHeld'
  BY <1>3, <1>5 DEF Waits, Accepted, Refused, AcceptedUnheard, SubmissionDies,
                    SubmissionEnds, InterruptionFails, Finds
<1>6. ASSUME NEW r \in Runs, Interrupt(r) \/ Interrupted(r) \/ TimesOut(r)
                              \/ ReleasesOverdue(r)
      PROVE  TurnsAreHeld'
  BY <1>3, <1>6 DEF Interrupt, Interrupted, TimesOut, ReleasesOverdue,
                    StatusOf, Expiring, Active, RunInv, Ending
<1>7. ASSUME NEW r \in Runs, Answers(r)
      PROVE  TurnsAreHeld'
  BY <1>3, <1>7 DEF Answers, Responds, Answerable, StatusOf, Active, Ended,
                    RunInv, Ending
<1>8. ASSUME NEW r \in Runs, NEW a \in Actions, Tells(r, a) \/ Counts(r, a)
      PROVE  TurnsAreHeld'
  BY <1>3, <1>8 DEF Tells, Decides, Expires, TellingFails, Settles,
                    DecisionDies, Counts, StatusOf
<1>9. ASSUME MaintenanceDies \/ DayBreaks \/ UNCHANGED vars
      PROVE  TurnsAreHeld'
  BY <1>3, <1>9 DEF MaintenanceDies, DayBreaks, vars
<1>10. QED
  BY <1>1, <1>2, <1>4, <1>5, <1>6, <1>7, <1>8, <1>9, Steps

\* Only a claim adds to the runs under way.
LEMMA ActiveStep ==
  ASSUME TypeOK, \A r \in Runs : RunInv(r), FewAreActive, [Next]_vars
  PROVE  FewAreActive'
<1> USE DEF TypeOK, Active, runVars, ledgerVars, callVars, worldVars, histVars
<1>1. ASSUME NEW r \in Runs, Claim(r)
      PROVE  FewAreActive'
  <2>1. ActiveRuns' = ActiveRuns \cup {r} /\ Cardinality(ActiveRuns) < MaxConcurrent
    BY <1>1 DEF Claim, StatusOf, ActiveRuns
  <2>2. Cardinality(ActiveRuns') <= Cardinality(ActiveRuns) + 1
    BY <2>1, OneMoreAtMost DEF ActiveRuns
  <2>3. Cardinality(ActiveRuns) \in Nat /\ Cardinality(ActiveRuns') \in Nat
    BY Finite DEF ActiveRuns
  <2>4. QED
    BY <2>1, <2>2, <2>3, LimitsAssumption DEF FewAreActive
<1>2. ASSUME ActiveRuns' \subseteq ActiveRuns
      PROVE  FewAreActive'
  BY <1>2, Smaller, Finite, LimitsAssumption DEF FewAreActive, ActiveRuns
<1>3. ASSUME NEW r \in Runs, Compensates(r) \/ Waits(r)
      PROVE  ActiveRuns' \subseteq ActiveRuns
  BY <1>3 DEF Compensates, StatusOf, Waits, Accepted, Refused, AcceptedUnheard,
              SubmissionDies, SubmissionEnds, InterruptionFails, Finds,
              ActiveRuns
<1>4. ASSUME NEW r \in Runs, Interrupt(r) \/ Interrupted(r) \/ TimesOut(r)
                              \/ ReleasesOverdue(r)
      PROVE  ActiveRuns' \subseteq ActiveRuns
  BY <1>4 DEF Interrupt, Interrupted, TimesOut, ReleasesOverdue, StatusOf,
              ActiveRuns
<1>5. ASSUME NEW r \in Runs, Answers(r)
      PROVE  ActiveRuns' \subseteq ActiveRuns
  BY <1>5 DEF Answers, Responds, Answerable, StatusOf, Ended, RunInv, Ending,
              ActiveRuns
<1>6. ASSUME NEW r \in Runs, NEW a \in Actions, Tells(r, a) \/ Counts(r, a)
      PROVE  ActiveRuns' \subseteq ActiveRuns
  BY <1>6 DEF Tells, Decides, Expires, TellingFails, Settles, DecisionDies,
              Counts, StatusOf, ActiveRuns
<1>7. ASSUME MaintenanceDies \/ DayBreaks \/ UNCHANGED vars
      PROVE  ActiveRuns' \subseteq ActiveRuns
  BY <1>7 DEF MaintenanceDies, DayBreaks, vars, ActiveRuns
<1>8. QED
  BY <1>1, <1>2, <1>3, <1>4, <1>5, <1>6, <1>7, Steps

\* What runs may still cost only grows with a claim, which looked at the sum;
\* a response turns it into a cost, or is of a run of an earlier day.
LEMMA SpendFrame ==
  ASSUME SpendIsBounded, UNCHANGED <<reserved, released, charged>>
  PROVE  SpendIsBounded'
  BY DEF SpendIsBounded, Open, CarriedOver, Today

\* The check of a claim, in terms of the runs that are under way.
LEMMA ClaimChecks ==
  ASSUME TypeOK, \A r \in Runs : RunInv(r), Affordable
  PROVE  Cardinality(Open) + Cardinality(Today(charged)) + 1
           <= Daily + Cardinality(CarriedOver)
<1> DEFINE Both == {r \in Today(released) : reserved[r] = "today"}
<1>1. /\ Today(reserved) = Open \cup Both /\ Open \cap Both = {}
      /\ Today(released) = CarriedOver \cup Both /\ CarriedOver \cap Both = {}
  BY DEF TypeOK, Days, RunInv, Ledger, Today, Open, CarriedOver
<1>2. /\ Open \subseteq Runs /\ Both \subseteq Runs /\ CarriedOver \subseteq Runs
      /\ Today(charged) \subseteq Runs
  BY DEF Open, CarriedOver, Today
<1> HIDE DEF Both
<1>3. Cardinality(Today(reserved)) = Cardinality(Open) + Cardinality(Both)
  <2>1. IsFiniteSet(Open) /\ IsFiniteSet(Both)
    BY <1>2, Finite
  <2>2. Cardinality(Open \cup Both)
          = Cardinality(Open) + Cardinality(Both) - Cardinality(Open \cap Both)
    BY <2>1, FS_Union
  <2>3. Cardinality(Open \cap Both) = 0
    BY <1>1, FS_EmptySet
  <2>4. Cardinality(Open) \in Nat /\ Cardinality(Both) \in Nat
    BY <1>2, Finite
  <2>5. QED
    BY <1>1, <2>2, <2>3, <2>4
<1>4. Cardinality(Today(released)) = Cardinality(CarriedOver) + Cardinality(Both)
  <2>1. IsFiniteSet(CarriedOver) /\ IsFiniteSet(Both)
    BY <1>2, Finite
  <2>2. Cardinality(CarriedOver \cup Both)
          = Cardinality(CarriedOver) + Cardinality(Both) - Cardinality(CarriedOver \cap Both)
    BY <2>1, FS_Union
  <2>3. Cardinality(CarriedOver \cap Both) = 0
    BY <1>1, FS_EmptySet
  <2>4. Cardinality(CarriedOver) \in Nat /\ Cardinality(Both) \in Nat
    BY <1>2, Finite
  <2>5. QED
    BY <1>1, <2>2, <2>3, <2>4
<1>5. /\ Cardinality(Open) \in Nat /\ Cardinality(Both) \in Nat
      /\ Cardinality(CarriedOver) \in Nat /\ Cardinality(Today(charged)) \in Nat
  BY <1>2, Finite
<1>6. QED
  BY <1>3, <1>4, <1>5, LimitsAssumption DEF Affordable, Debit, Credit

\* A run enters a release, and a cost beside it, if it has none.
LEMMA ReleaseStep ==
  ASSUME TypeOK, \A r \in Runs : RunInv(r), SpendIsBounded, NEW r \in Runs,
         UNCHANGED reserved, Release(r), reserved[r] # "never",
         \/ UNCHANGED charged
         \/ /\ released[r] = "never" \/ charged[r] # "never"
            /\ \/ charged' = Entered(charged, r)
               \/ charged' = [charged EXCEPT ![r] = IF @ = "never" THEN "free" ELSE @]
  PROVE  SpendIsBounded'
<1> USE DEF TypeOK, Days
<1>1. /\ Open \subseteq Runs /\ CarriedOver \subseteq Runs
      /\ Today(charged) \subseteq Runs /\ Open' \subseteq Runs
      /\ CarriedOver' \subseteq Runs /\ Today(charged)' \subseteq Runs
  BY DEF Open, CarriedOver, Today
<1>2. /\ Cardinality(Open) \in Nat /\ Cardinality(CarriedOver) \in Nat
      /\ Cardinality(Today(charged)) \in Nat /\ Cardinality(Open') \in Nat
      /\ Cardinality(CarriedOver') \in Nat
      /\ Cardinality(Today(charged)') \in Nat
  BY <1>1, Finite
<1>3. /\ Open' \subseteq Open /\ CarriedOver \subseteq CarriedOver'
  BY DEF Open, CarriedOver, Today, Release, Entered
<1>4. /\ Cardinality(Open') <= Cardinality(Open)
      /\ Cardinality(CarriedOver) <= Cardinality(CarriedOver')
  BY <1>1, <1>3, Smaller
<1>5. CASE Today(charged)' \subseteq Today(charged)
  <2>1. Cardinality(Today(charged)') <= Cardinality(Today(charged))
    BY <1>1, <1>5, Smaller
  <2>2. QED
    BY <1>2, <1>4, <2>1, LimitsAssumption DEF SpendIsBounded
<1>6. CASE ~(Today(charged)' \subseteq Today(charged))
  <2>1. /\ released[r] = "never" /\ charged[r] = "never"
        /\ Today(charged)' = Today(charged) \cup {r}
    BY <1>6 DEF Today, Entered
  <2>2. Cardinality(Today(charged)') <= Cardinality(Today(charged)) + 1
    BY <1>1, <2>1, OneMoreAtMost
  <2>3. CASE reserved[r] = "today"
    <3>1. r \in Open /\ Open = Open' \cup {r} /\ r \notin Open'
      BY <2>1, <2>3 DEF Open, Today, Release, Entered
    <3>2. Cardinality(Open) = Cardinality(Open') + 1
      BY <1>1, <3>1, OneMore
    <3>3. QED
      BY <1>2, <1>4, <2>2, <3>2, LimitsAssumption DEF SpendIsBounded
  <2>4. CASE reserved[r] = "earlier"
    <3>1. CarriedOver' = CarriedOver \cup {r} /\ r \notin CarriedOver
      BY <2>1, <2>4 DEF CarriedOver, Today, Release, Entered
    <3>2. Cardinality(CarriedOver') = Cardinality(CarriedOver) + 1
      BY <1>1, <3>1, OneMore
    <3>3. QED
      BY <1>2, <1>4, <2>2, <3>2, LimitsAssumption DEF SpendIsBounded
  <2>5. QED
    BY <2>3, <2>4
<1>7. QED
  BY <1>5, <1>6

LEMMA SpendStep ==
  ASSUME TypeOK, \A r \in Runs : RunInv(r), SpendIsBounded, [Next]_vars
  PROVE  SpendIsBounded'
<1> USE DEF runVars, ledgerVars, callVars, worldVars, histVars
<1>1. ASSUME NEW r \in Runs, Claim(r)
      PROVE  SpendIsBounded'
  <2>1. reserved[r] = "never" /\ reserved' = [reserved EXCEPT ![r] = "today"]
        /\ UNCHANGED <<released, charged>>
    BY <1>1 DEF Claim, Entered, TypeOK
  <2>2. Open' = Open \cup {r}
        /\ CarriedOver' = CarriedOver /\ Today(charged)' = Today(charged)
    BY <2>1 DEF TypeOK, RunInv, Ledger, Open, CarriedOver, Today
  <2>3. Cardinality(Open') <= Cardinality(Open) + 1
    BY <2>2, OneMoreAtMost DEF Open, Today
  <2>4. Cardinality(Open) + Cardinality(Today(charged)) + 1
          <= Daily + Cardinality(CarriedOver)
    BY <1>1, ClaimChecks DEF Claim
  <2>5. /\ Cardinality(Open) \in Nat /\ Cardinality(Open') \in Nat
        /\ Cardinality(CarriedOver) \in Nat /\ Cardinality(Today(charged)) \in Nat
    BY Finite DEF Open, CarriedOver, Today
  <2>6. QED
    BY <2>2, <2>3, <2>4, <2>5, LimitsAssumption DEF SpendIsBounded
<1>2. ASSUME NEW r \in Runs, Compensates(r)
      PROVE  SpendIsBounded'
  <2>1. CASE Compensable(r)
    BY <1>2, <2>1, ReleaseStep DEF Compensates, Compensable, TypeOK
  <2>2. CASE ~Compensable(r)
    BY <1>2, <2>2, SpendFrame DEF Compensates
  <2>3. QED
    BY <2>1, <2>2
<1>3. ASSUME NEW r \in Runs, ReleasesOverdue(r)
      PROVE  SpendIsBounded'
  <2>1. reserved[r] # "never"
    BY <1>3 DEF ReleasesOverdue, RunInv, Ending, TypeOK
  <2>2. QED
    BY <1>3, <2>1, ReleaseStep DEF ReleasesOverdue
<1>4. ASSUME NEW r \in Runs, Answers(r)
      PROVE  SpendIsBounded'
  <2>1. PICK costly \in BOOLEAN, actions \in SUBSET ActionsOf(r) :
          Responds(r, costly, actions)
    BY <1>4 DEF Answers
  <2>2. /\ Release(r) /\ UNCHANGED reserved
        /\ \/ charged' = Entered(charged, r)
           \/ charged' = [charged EXCEPT ![r] = IF @ = "never" THEN "free" ELSE @]
    BY <2>1 DEF Responds, AnsweredReleases
  <2>3. status[r] # "none" /\ status[r] \notin Ended
    BY <2>1 DEF Responds, Answerable, RunInv, Ending
  <2>4. reserved[r] # "never" /\ (released[r] = "never" \/ charged[r] # "never")
    BY <2>3 DEF RunInv, Ledger, TypeOK
  <2>5. QED
    BY <2>2, <2>4, ReleaseStep
<1>5. ASSUME NEW r \in Runs,
             Waits(r) \/ Interrupt(r) \/ Interrupted(r) \/ TimesOut(r)
      PROVE  SpendIsBounded'
  BY <1>5, SpendFrame
     DEF Waits, Accepted, Refused, AcceptedUnheard, SubmissionDies,
         SubmissionEnds, InterruptionFails, Finds, Interrupt, Interrupted,
         TimesOut
<1>6. ASSUME NEW r \in Runs, NEW a \in Actions, Tells(r, a) \/ Counts(r, a)
      PROVE  SpendIsBounded'
  BY <1>6, SpendFrame DEF Tells, Decides, Expires, TellingFails, Settles,
                          DecisionDies, Counts
<1>7. CASE MaintenanceDies \/ UNCHANGED vars
  BY <1>7, SpendFrame DEF MaintenanceDies, vars
<1>8. CASE DayBreaks
  <2>1. Open' = {} /\ CarriedOver' = {} /\ Today(charged)' = {}
    BY <1>8 DEF DayBreaks, TypeOK, Days, Open, CarriedOver, Today
  <2>2. QED
    BY <2>1, FS_EmptySet, LimitsAssumption DEF SpendIsBounded
<1>9. QED
  BY <1>1, <1>2, <1>3, <1>4, <1>5, <1>6, <1>7, <1>8, Steps

-----------------------------------------------------------------------------

LEMMA IInit == Init => IInv
  BY TypeInit, RunInvInit, SumsInit DEF IInv

LEMMA IStep == IInv /\ [Next]_vars => IInv'
  BY TypeStep, RunInvStep, TurnsStep, ActiveStep, SpendStep DEF IInv

\* The type invariant of the runs of a workspace, for any limits.
THEOREM AgentRunsTypeCorrect == Spec => []TypeOK
<1>1. IInv => TypeOK
  BY DEF IInv
<1>2. QED
  BY <1>1, IInit, IStep, PTL DEF Spec

\* What runs have cost on one day and may still cost is within the daily budget
\* and what runs of earlier days have given back, whatever overlaps or fails.
THEOREM BudgetIsKept == Spec => []SpendIsBounded
<1>1. IInv => SpendIsBounded
  BY DEF IInv
<1>2. QED
  BY <1>1, IInit, IStep, PTL DEF Spec

\* A run that has ended has released its reservation, except when it was
\* interrupted or the process that ended it has stopped; exactly the failed
\* ones have given back their turn; and the limit of concurrent runs holds.
THEOREM EndingSettles == Spec => []EndedIsSettled
<1>1. IInv => EndedIsSettled
  BY DEF IInv, EndedIsSettled, RunInv, Ending, TurnsAreHeld, Holding,
         FewAreActive
<1>2. QED
  BY <1>1, IInit, IStep, PTL DEF Spec

\* Of decisions that are made together the runtime is told one for each action,
\* and the last one ends the run.
THEOREM DecisionsAreCounted == Spec => []DecisionsCount
<1>1. IInv => DecisionsCount
  BY DEF IInv, DecisionsCount, RunInv, Told, Deciding, Awaited
<1>2. QED
  BY <1>1, IInit, IStep, PTL DEF Spec

-----------------------------------------------------------------------------
(* The end of a run that nobody asks to stop.                                *)

\* What has been charged has been answered: only an interruption leads back.
Taken(r) ==
  charged[r] # "never" /\ r \notin cut => status[r] \in Ended \cup {"waiting"}

AllTaken == \A r \in Runs : Taken(r)

Finals ==
  \A r \in Runs \ cut :
    /\ status[r] \in Ended => status'[r] = status[r]
    /\ charged[r] # "never" /\ status[r] # "waiting" => status'[r] # "waiting"

LEMMA TakenInit == Init => AllTaken
  BY DEF Init, AllTaken, Taken

\* A step that leaves the status alone and charges nobody anew.
LEMMA TakenFrame ==
  ASSUME AllTaken, UNCHANGED status, cut \subseteq cut',
         \A r \in Runs : charged'[r] # "never" => charged[r] # "never"
  PROVE  AllTaken' /\ Finals
  BY DEF AllTaken, Taken, Finals

\* A step that writes the status of one run, which had not ended, and neither
\* charges anybody nor makes anybody wait.
LEMMA TakenWrite ==
  ASSUME AllTaken, TypeOK, NEW r \in Runs, UNCHANGED charged, cut \subseteq cut',
         NEW s, StatusOf(r, s), s # "waiting", status[r] \notin Ended,
         s \in Ended \/ r \in cut' \/ status[r] \in {"none", "submitted"}
  PROVE  AllTaken' /\ Finals
<1>1. \A q \in Runs : status'[q] = IF q = r THEN s ELSE status[q]
  BY DEF StatusOf, TypeOK
<1>2. ASSUME NEW q \in Runs PROVE Taken(q)'
  <2>1. Taken(q)
    BY DEF AllTaken
  <2>2. CASE q = r
    BY <1>1, <2>1, <2>2 DEF Taken, Ended
  <2>3. CASE q # r
    BY <1>1, <2>1, <2>3 DEF Taken
  <2> QED
    BY <2>2, <2>3
<1>3. Finals
  BY <1>1 DEF Finals
<1> QED
  BY <1>2, <1>3 DEF AllTaken

LEMMA TakenStep ==
  ASSUME IInv, AllTaken, [Next]_vars
  PROVE  AllTaken' /\ Finals
<1> USE DEF runVars, ledgerVars, callVars, worldVars, histVars
<1>1. TypeOK /\ \A r \in Runs : RunInv(r)
  BY DEF IInv
<1>2. ASSUME NEW r \in Runs, Claim(r) PROVE AllTaken' /\ Finals
  BY <1>1, <1>2, TakenWrite DEF Claim, Ended
<1>3. ASSUME NEW r \in Runs, Compensates(r) PROVE AllTaken' /\ Finals
  <2>1. CASE Compensable(r)
    BY <1>1, <1>3, <2>1, TakenWrite DEF Compensates, Compensable, Ended
  <2>2. CASE ~Compensable(r)
    BY <1>3, <2>2, TakenFrame DEF Compensates
  <2> QED
    BY <2>1, <2>2
<1>4. ASSUME NEW r \in Runs, Interrupt(r) PROVE AllTaken' /\ Finals
  BY <1>1, <1>4, TakenWrite DEF Interrupt, Ended
<1>5. ASSUME NEW r \in Runs, Interrupted(r) PROVE AllTaken' /\ Finals
  <2>1. r \in cut /\ cut' = cut /\ charged' = charged
    BY <1>1, <1>5 DEF Interrupted, RunInv, Ending
  <2>2. \A q \in Runs : q # r => status'[q] = status[q]
    BY <1>1, <1>5 DEF Interrupted, StatusOf, TypeOK
  <2> QED
    BY <2>1, <2>2 DEF AllTaken, Taken, Finals
<1>6. ASSUME NEW r \in Runs, TimesOut(r) PROVE AllTaken' /\ Finals
  <2>1. CASE Expiring(r)
    BY <1>1, <1>6, <2>1, TakenWrite DEF TimesOut, Expiring, Active, Ended
  <2>2. CASE ~Expiring(r)
    BY <1>6, <2>2, TakenFrame DEF TimesOut
  <2> QED
    BY <2>1, <2>2
<1>7. ASSUME NEW r \in Runs, Answers(r) PROVE AllTaken' /\ Finals
  <2>1. /\ status[r] \notin Ended \cup {"waiting"} /\ cut' = cut
        /\ \E s \in {"completed", "waiting"} : StatusOf(r, s)
        /\ \A q \in Runs : q # r => charged'[q] = charged[q]
    BY <1>1, <1>7 DEF Answers, Responds, Answerable, Entered, TypeOK
  <2>2. /\ status'[r] \in Ended \cup {"waiting"}
        /\ \A q \in Runs : q # r => status'[q] = status[q]
    BY <1>1, <2>1 DEF StatusOf, TypeOK, Ended
  <2>3. charged[r] = "never" \/ r \in cut
    BY <2>1 DEF AllTaken, Taken
  <2> QED
    BY <2>1, <2>2, <2>3 DEF AllTaken, Taken, Finals
<1>8. ASSUME NEW r \in Runs, NEW a \in Actions, Counts(r, a)
      PROVE  AllTaken' /\ Finals
  <2>1. CASE Left(r) = {} /\ status[r] = "waiting"
    BY <1>1, <1>8, <2>1, TakenWrite DEF Counts, Ended
  <2>2. CASE ~(Left(r) = {} /\ status[r] = "waiting")
    BY <1>8, <2>2, TakenFrame DEF Counts
  <2> QED
    BY <2>1, <2>2
<1>9. ASSUME NEW r \in Runs, Waits(r) \/ ReleasesOverdue(r)
      PROVE  AllTaken' /\ Finals
  BY <1>9, TakenFrame
     DEF Waits, Accepted, Refused, AcceptedUnheard, SubmissionDies,
         SubmissionEnds, InterruptionFails, Finds, ReleasesOverdue
<1>10. ASSUME NEW r \in Runs, NEW a \in Actions, Tells(r, a)
       PROVE  AllTaken' /\ Finals
  BY <1>10, TakenFrame DEF Tells, Decides, Expires, TellingFails, Settles,
                           DecisionDies
<1>11. CASE MaintenanceDies \/ UNCHANGED vars
  BY <1>11, TakenFrame DEF MaintenanceDies, vars
<1>12. CASE DayBreaks
  <2>1. \A r \in Runs : charged'[r] # "never" => charged[r] # "never"
    BY <1>12 DEF DayBreaks
  <2> QED
    BY <1>12, <2>1, TakenFrame DEF DayBreaks
<1> QED
  BY <1>2, <1>3, <1>4, <1>5, <1>6, <1>7, <1>8, <1>9, <1>10, <1>11, <1>12, Steps

\* Whatever is repeated, lost or made at once, a run that nobody asks to stop is
\* answered once and stays as it has ended: the conditions of the UPDATEs are
\* enough, for every number of runs, deliveries and failures.
THEOREM UncutRunsStayEnded == Spec => EndIsFinalUnlessCut
<1>1. Init => IInv /\ AllTaken
  BY IInit, TakenInit
<1>2. IInv /\ AllTaken /\ [Next]_vars => (IInv /\ AllTaken)'
  BY IStep, TakenStep
<1>3. IInv /\ AllTaken /\ [Next]_vars
        => [\A r \in Runs \ cut :
              /\ status[r] \in Ended => status'[r] = status[r]
              /\ charged[r] # "never" /\ status[r] # "waiting"
                   => status'[r] # "waiting"]_vars
  BY TakenStep DEF Finals
<1> QED
  BY <1>1, <1>2, <1>3, PTL DEF Spec, EndIsFinalUnlessCut
=============================================================================
