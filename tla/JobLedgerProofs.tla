-------------------------- MODULE JobLedgerProofs --------------------------
(***************************************************************************)
(* The order in which the durable job object applies its intents, and the  *)
(* proof that every step of it is a step of JobLedger or none, for every   *)
(* set of intents and transactions and every bound.                        *)
(***************************************************************************)
EXTENDS DurableJobProofs

(***************************************************************************)
(* The order of the calls.                                                 *)
(***************************************************************************)

\* What was acknowledged when a call was made stays acknowledged, unless its
\* transaction takes it back.
Called ==
  \A j \in Intents : \A i \in before[j] :
    i # j /\ stage[i] \in {"acked", "rolledback"}

Ahead(i, j) ==
  \A a, b \in DOMAIN intents : intents[a] = i /\ intents[b] = j => a < b

\* An intent with a receipt goes before every call that was made after its
\* acknowledgement.
InOrder ==
  \A j \in Intents : \A i \in before[j] :
    i \in witness /\ applied[i] = 0 => applied[j] = 0 /\ Ahead(i, j)

ActiveApplied == active # NoJob => applied[active.job] = 1

\* While the handler is about to claim, what is stored arrived only after it
\* had settled all there was.
NothingNew == pc = "claim" => Elements(intents) \subseteq late

Ordered ==
  Called /\ InOrder /\ ActiveApplied /\ LatestIntentDecides /\ NothingNew

LEMMA InitOrdered == Init => Ordered
  BY DEF Init, Ordered, Called, InOrder, Ahead, ActiveApplied, LatestIntentDecides,
         NothingNew

\* The job is the same one, whatever has become of it.
SameJob ==
  /\ active = NoJob <=> active' = NoJob
  /\ active # NoJob => active'.job = active.job

\* Steps that neither store nor apply.
LEMMA CalmOrdered ==
  ASSUME Called, InOrder, ActiveApplied, LatestIntentDecides, SameJob,
         witness' \subseteq witness, UNCHANGED <<intents, applied, before>>,
         \A i \in Intents : stage[i] \in {"acked", "rolledback"} =>
           stage'[i] \in {"acked", "rolledback"},
         before \in [Intents -> SUBSET Intents]
  PROVE  /\ Called' /\ InOrder' /\ ActiveApplied' /\ LatestIntentDecides'
<1>1. Called'
  BY DEF Called
<1>2. InOrder'
  BY DEF InOrder, Ahead
<1>3. ActiveApplied'
  BY DEF ActiveApplied, SameJob
<1>4. LatestIntentDecides'
  BY DEF LatestIntentDecides, SameJob
<1> QED
  BY <1>1, <1>2, <1>3, <1>4

\* What the steps make of the active job is the same job.
LEMMA SameJobUpdates ==
  ASSUME NEW a \in Jobs
  PROVE  /\ \A s \in Statuses, n \in Nat :
              Update(a, s, n) # NoJob /\ Update(a, s, n).job = a.job
         /\ [a EXCEPT !.due = TRUE] # NoJob /\ [a EXCEPT !.due = TRUE].job = a.job
         /\ [a EXCEPT !.attempts = a.attempts + 1, !.due = FALSE] # NoJob
         /\ [a EXCEPT !.attempts = a.attempts + 1, !.due = FALSE].job = a.job
<1>1. /\ \A s \in Statuses, n \in Nat : Update(a, s, n) # NoJob
      /\ [a EXCEPT !.due = TRUE] # NoJob
      /\ [a EXCEPT !.attempts = a.attempts + 1, !.due = FALSE] # NoJob
  BY UpdatedJob, JobUpdates, NoJobAssumption
<1>2. \A s \in Statuses, n \in Nat : Update(a, s, n).job = a.job
  BY DEF Update, Jobs
<1>3. /\ [a EXCEPT !.due = TRUE].job = a.job
      /\ [a EXCEPT !.attempts = a.attempts + 1, !.due = FALSE].job = a.job
  BY DEF Jobs
<1> QED
  BY <1>1, <1>2, <1>3

-----------------------------------------------------------------------------
(* The steps by what they do to the stored intents.                         *)

\* Steps of the clients after the call was made.
LEMMA ClientOrdered ==
  ASSUME IInv, Ordered, NEW t \in Txs,
         (\E i \in IntentsOf(t) : RollBackCall(t, i)) \/ Commit(t) \/ Abort(t)
  PROVE  Ordered'
<1>1. /\ witness' \subseteq witness /\ UNCHANGED <<intents, applied, before>>
      /\ UNCHANGED <<active, pc, late>>
  BY DEF RollBackCall, Commit, Abort, storeVars, handlerVars, histVars
<1>2. \A i \in Intents : stage[i] \in {"acked", "rolledback"} =>
        stage'[i] \in {"acked", "rolledback"}
  <2>1. ASSUME NEW i \in IntentsOf(t), RollBackCall(t, i)
        PROVE  stage' = [stage EXCEPT ![i] = "rolledback"]
    BY <2>1 DEF RollBackCall
  <2>2. CASE stage' = stage
    BY <2>2
  <2> QED
    BY <2>1, <2>2 DEF Commit, Abort, IInv, TypeOK
<1>3. NothingNew'
  BY <1>1 DEF Ordered, NothingNew, Elements
<1> QED
  BY <1>1, <1>2, <1>3, CalmOrdered DEF Ordered, SameJob, IInv, TypeOK

\* Steps of the handler that settle nothing, the clock and a restart.
Calm ==
  \/ AlarmFires \/ Validate \/ RemoveReceipt \/ ForgetReceipt \/ NothingToRun
  \/ ClaimExhausted \/ ClaimRun \/ ReportFailure \/ CloseFailed
  \/ \E r \in {"finished", "continues", "fails"} : ExecutionEnds(r)
  \/ BecomesDue \/ Crash

\* None of them changes the job in place of which an intent has been put.
LEMMA CalmSameJob ==
  ASSUME IInv, Calm
  PROVE  SameJob
<1>1. active # NoJob => active \in Jobs
  BY DEF IInv, TypeOK
<1>2. CASE UNCHANGED active
  BY <1>2 DEF SameJob
<1>3. CASE NothingToRun
  BY <1>3 DEF NothingToRun, Save, SameJob
<1>4. CASE ForgetReceipt
  BY <1>4 DEF ForgetReceipt, Save, OnlyMarker, SameJob
<1>5. CASE ClaimExhausted
  <2>1. active \in Jobs /\ active # NoJob /\ active.attempts \in Nat
    BY <1>1, <1>5, JobUpdates DEF ClaimExhausted, Runnable
  <2> QED
    BY <1>5, <2>1, SameJobUpdates DEF ClaimExhausted, GivingUp, SameJob, Statuses
<1>6. CASE ClaimRun
  <2>1. active \in Jobs /\ active # NoJob
    BY <1>1, <1>6 DEF ClaimRun, Runnable
  <2> QED
    BY <1>6, <2>1, SameJobUpdates DEF ClaimRun, SameJob
<1>7. CASE CloseFailed
  <2>1. active \in Jobs /\ active # NoJob /\ active.attempts \in Nat
    BY <1>1, <1>7, JobUpdates DEF CloseFailed, IInv, Attempts
  <2> QED
    BY <1>7, <2>1, SameJobUpdates DEF CloseFailed, Save, SameJob, Statuses
<1>8. ASSUME NEW r \in {"finished", "continues", "fails"}, ExecutionEnds(r)
      PROVE  SameJob
  <2>1. active \in Jobs /\ active # NoJob /\ active.attempts \in Nat
    BY <1>1, <1>8, JobUpdates DEF ExecutionEnds, IInv, Attempts
  <2>2. PICK s \in Statuses, n \in Nat : active' = Update(active, s, n)
    BY <1>8, <2>1 DEF ExecutionEnds, Save, Statuses
  <2>3. Update(active, s, n) # NoJob /\ Update(active, s, n).job = active.job
    BY <2>1, SameJobUpdates
  <2> QED
    BY <2>1, <2>2, <2>3 DEF SameJob
<1>9. CASE BecomesDue
  BY <1>1, <1>9, SameJobUpdates DEF BecomesDue, SameJob
<1> QED
  BY <1>2, <1>3, <1>4, <1>5, <1>6, <1>7, <1>8, <1>9
     DEF Calm, AlarmFires, Validate, RemoveReceipt, ReportFailure, Crash, storeVars

LEMMA CalmStepOrdered ==
  ASSUME IInv, Ordered, Calm
  PROVE  Ordered'
<1>1. /\ witness' \subseteq witness /\ UNCHANGED <<stage, intents, applied, before>>
  BY DEF Calm, AlarmFires, Validate, RemoveReceipt, ForgetReceipt, NothingToRun,
         ClaimExhausted, ClaimRun, ReportFailure, CloseFailed, ExecutionEnds,
         BecomesDue, Crash, Save, OnlyMarker, dbVars, storeVars, histVars
<1>2. NothingNew'
  <2>1. CASE AlarmFires
    BY <1>1, <2>1 DEF AlarmFires, JobTurn, NothingNew, Elements
  <2>2. CASE BecomesDue
    BY <1>1, <2>2 DEF BecomesDue, Ordered, NothingNew, Elements, handlerVars, histVars
  <2>3. CASE pc' # "claim"
    BY <2>3 DEF NothingNew
  <2> QED
    BY <2>1, <2>2, <2>3
       DEF Calm, Validate, RemoveReceipt, ForgetReceipt, NothingToRun,
           ClaimExhausted, ClaimRun, ReportFailure, CloseFailed, ExecutionEnds,
           Crash, Idle
<1> QED
  BY <1>1, <1>2, CalmSameJob, CalmOrdered DEF Ordered, IInv, TypeOK

\* A call comes after everything that has been acknowledged, and nothing that
\* was acknowledged is called again.
LEMMA PrepareOrdered ==
  ASSUME IInv, Ordered, NEW t \in Txs, NEW k \in DOMAIN Program[t], Prepare(t, k)
  PROVE  Ordered'
<1> DEFINE p == Program[t][k]
<1>1. p \in Intents
  BY IntentsOfTx
<1>2. /\ stage[p] = "unsent" /\ stage' = [stage EXCEPT ![p] = "sent"]
      /\ before' = [before EXCEPT ![p] = {j \in Intents : stage[j] = "acked"}]
      /\ witness' = witness \cup {p}
      /\ UNCHANGED <<intents, applied, active, pc, late>>
  BY DEF Prepare, storeVars, handlerVars
<1> HIDE DEF p
<1>3. applied[p] = 0 /\ p \notin Elements(intents)
  BY <1>1, <1>2 DEF IInv, Witnesses
<1>4. before \in [Intents -> SUBSET Intents] /\ stage \in [Intents -> Stages]
  BY DEF IInv, TypeOK
<1>5. \A j \in Intents : p \notin before[j]
  BY <1>2 DEF Ordered, Called
<1>6. Called'
  BY <1>1, <1>2, <1>4, <1>5 DEF Ordered, Called
<1>7. InOrder'
  BY <1>1, <1>2, <1>3, <1>4, <1>5 DEF Ordered, InOrder, Ahead, Elements
<1>8. ActiveApplied' /\ NothingNew'
  BY <1>2 DEF Ordered, ActiveApplied, NothingNew, Elements
<1>9. LatestIntentDecides'
  <2>1. \A j \in Intents : applied[j] > 0 => before'[j] = before[j]
    BY <1>1, <1>2, <1>3, <1>4
  <2>2. \A j \in Intents : applied[j] > 0 =>
          \A i \in before[j] : i \in witness' => applied[i] > 0
    BY <1>2, <1>5 DEF Ordered, LatestIntentDecides
  <2> QED
    BY <1>2, <2>1, <2>2 DEF Ordered, LatestIntentDecides
<1> QED
  BY <1>6, <1>7, <1>8, <1>9 DEF Ordered
\* The head is dropped: the others keep their order.
LEMMA TailAhead ==
  ASSUME intents \in Seq(Intents), intents # << >>, intents' = Tail(intents),
         NEW i, NEW j, Ahead(i, j)
  PROVE  Ahead(i, j)'
<1>1. /\ DOMAIN intents = 1..Len(intents) /\ Len(intents) \in Nat
      /\ DOMAIN Tail(intents) = 1..(Len(intents) - 1)
      /\ \A k \in 1..(Len(intents) - 1) : Tail(intents)[k] = intents[k + 1]
  BY HeadTailProperties, LenProperties, EmptySeq
<1> SUFFICES ASSUME NEW a \in 1..(Len(intents) - 1), NEW b \in 1..(Len(intents) - 1),
                    intents[a + 1] = i, intents[b + 1] = j
             PROVE  a < b
  BY <1>1 DEF Ahead
<1>2. a + 1 \in 1..Len(intents) /\ b + 1 \in 1..Len(intents)
  BY <1>1
<1>3. a + 1 < b + 1
  BY <1>1, <1>2 DEF Ahead
<1> QED
  BY <1>3

LEMMA SettleAbortedOrdered ==
  ASSUME IInv, Ordered, SettleAborted
  PROVE  Ordered'
<1>1. /\ intents' = Tail(intents) /\ pc' = "idle" /\ active' = active
      /\ UNCHANGED <<stage, witness, applied, before>>
  BY DEF SettleAborted, Idle, Save, dbVars
<1>2. intents \in Seq(Intents) /\ intents # << >>
  BY DEF SettleAborted, IInv, TypeOK, HandlerKnows
<1>3. \A i, j \in Intents : Ahead(i, j) => Ahead(i, j)'
  BY <1>1, <1>2, TailAhead
<1>4. before \in [Intents -> SUBSET Intents]
  BY DEF IInv, TypeOK
<1>5. InOrder'
  BY <1>1, <1>3, <1>4 DEF Ordered, InOrder
<1>6. Called' /\ ActiveApplied' /\ LatestIntentDecides' /\ NothingNew'
  BY <1>1 DEF Ordered, Called, ActiveApplied, LatestIntentDecides, NothingNew
<1> QED
  BY <1>5, <1>6 DEF Ordered

\* Every intent that has to go before the head has gone.
LEMMA NothingBeforeHead ==
  ASSUME IInv, Ordered, intents # << >>, NEW i \in before[Head(intents)]
  PROVE  i \in witness => applied[i] = 1
<1> DEFINE j == Head(intents)
<1>1. /\ intents \in Seq(Intents) /\ j \in Intents /\ i \in Intents
      /\ j = intents[1] /\ 1 \in DOMAIN intents
  <2>1. intents \in Seq(Intents) /\ before \in [Intents -> SUBSET Intents]
    BY DEF IInv, TypeOK
  <2> QED
    BY <2>1, HeadTailProperties, LenProperties, EmptySeq
<1>2. SUFFICES ASSUME i \in witness, applied[i] = 0 PROVE FALSE
  BY <1>1 DEF IInv, Witnesses
<1>3. stage[i] = "acked"
  BY <1>1, <1>2 DEF IInv, Witnesses, Ordered, Called
<1>4. i \in Elements(intents)
  BY <1>1, <1>2, <1>3 DEF IInv, Alarmed, AcknowledgedIsStored
<1>5. PICK a \in DOMAIN intents : intents[a] = i
  BY <1>4 DEF Elements
<1>6. Ahead(i, j)
  BY <1>1, <1>2 DEF Ordered, InOrder
<1>7. a < 1
  BY <1>1, <1>5, <1>6 DEF Ahead
<1> QED
  BY <1>1, <1>5, <1>7, LenProperties

LEMMA SettleCommittedOrdered ==
  ASSUME IInv, Ordered, SettleCommitted
  PROVE  Ordered'
<1>1. /\ UNCHANGED <<stage, witness, before>> /\ pc' = "idle"
      /\ Head(intents) = subject
  BY DEF SettleCommitted, Idle, dbVars
<1>2. /\ intents \in Seq(Intents) /\ intents # << >> /\ subject \in Intents
      /\ subject \in witness /\ subject \in Elements(intents)
      /\ before \in [Intents -> SUBSET Intents] /\ applied \in [Intents -> Nat]
      /\ active \in Jobs \cup {NoJob}
  <2>1. /\ intents \in Seq(Intents) /\ intents # << >> /\ subject \in Intents
        /\ subject \in witness
    BY DEF SettleCommitted, IInv, TypeOK, HandlerKnows
  <2> QED
    BY <1>1, <2>1, TailElements DEF IInv, TypeOK
<1>3. applied[subject] = 0
  BY <1>2 DEF IInv, Witnesses
<1>4. NothingNew'
  BY <1>1 DEF NothingNew
<1>5. CASE UNCHANGED <<intents, active, applied>>
  <2>1. SameJob
    BY <1>5 DEF SameJob
  <2> QED
    BY <1>1, <1>2, <1>4, <1>5, <2>1, CalmOrdered DEF Ordered
<1>6. CASE /\ intents' = Tail(intents) /\ active' = Applies(subject)
           /\ applied' = [applied EXCEPT ![subject] = @ + 1]
  <2>1. /\ applied'[subject] = 1
        /\ \A i \in Intents : i # subject => applied'[i] = applied[i]
        /\ \A i \in Intents : applied[i] \in Nat
    BY <1>2, <1>3, <1>6
  <2>2. \A i \in before[subject] : i \in witness => applied[i] = 1
    BY <1>1, <1>2, NothingBeforeHead
  <2>3. \A j \in Intents : subject \in before[j] => applied[j] = 0 /\ j # subject
    BY <1>2, <1>3 DEF Ordered, InOrder, Called
  <2>4. \A i, j \in Intents : Ahead(i, j) => Ahead(i, j)'
    BY <1>2, <1>6, TailAhead
  <2>5. Called'
    BY <1>1 DEF Ordered, Called
  <2>6. InOrder'
    <3> SUFFICES ASSUME NEW j \in Intents, NEW i \in before[j], i \in witness,
                        applied'[i] = 0
                 PROVE  applied'[j] = 0 /\ Ahead(i, j)'
      BY <1>1 DEF InOrder
    <3>1. i \in Intents /\ i # subject /\ applied[i] = 0
      BY <1>2, <2>1
    <3>2. applied[j] = 0 /\ Ahead(i, j)
      BY <3>1 DEF Ordered, InOrder
    <3>3. j # subject
      BY <2>2, <3>1
    <3> QED
      BY <2>1, <2>4, <3>1, <3>2, <3>3
  <2>7. ActiveApplied' /\ (active' # NoJob => active'.job = subject)
        /\ (subject \notin Cancels => active' # NoJob)
    <3>1. CASE subject \in Cancels
      BY <1>6, <3>1 DEF ActiveApplied, Applies
    <3>2. CASE subject \notin Cancels
      <4>1. active' = [job |-> subject, attempts |-> 0, status |-> "pending",
                       due |-> FALSE]
        BY <1>6, <3>2 DEF Applies
      <4>2. active' \in Jobs /\ active'.job = subject
        BY <1>2, <3>2, <4>1 DEF Jobs, Statuses
      <4>3. active' # NoJob
        BY <4>2, NoJobAssumption
      <4> QED
        BY <2>1, <4>2, <4>3 DEF ActiveApplied
    <3> QED
      BY <3>1, <3>2
  <2>8. LatestIntentDecides'
    <3>1. ASSUME NEW j \in Intents, applied'[j] > 0, NEW i \in before[j], i \in witness
          PROVE  applied'[i] > 0
      <4>1. CASE j = subject
        BY <1>2, <2>1, <2>2, <3>1, <4>1
      <4>2. CASE j # subject
        <5>1. applied[j] > 0 /\ i \in Intents
          BY <1>2, <2>1, <3>1, <4>2
        <5>2. applied[i] > 0
          BY <3>1, <5>1 DEF Ordered, LatestIntentDecides
        <5> QED
          BY <2>1, <5>1, <5>2
      <4> QED
        BY <4>1, <4>2
    <3>2. ASSUME NEW i \in Intents, NEW j \in Intents, applied'[i] > 0,
                 applied'[j] > 0, i \in before[j]
          PROVE  active' = NoJob \/ active'.job # i
      BY <2>1, <2>3, <2>7, <3>2
    <3>3. ASSUME NEW j \in Intents \ Cancels, applied'[j] > 0,
                 \A i \in Intents \ {j} : applied'[i] > 0 => i \in before[j]
          PROVE  active' # NoJob /\ active'.job = j
      <4>1. j = subject
        BY <1>2, <2>1, <2>3, <3>3
      <4> QED
        BY <2>7, <3>3, <4>1
    <3> QED
      BY <1>1, <3>1, <3>2, <3>3 DEF LatestIntentDecides
  <2> QED
    BY <1>4, <2>5, <2>6, <2>7, <2>8 DEF Ordered
<1> QED
  BY <1>5, <1>6 DEF SettleCommitted, Save, OnlyMarker
\* A stored intent is appended, unless it is a replay.
LEMMA FetchOrdered ==
  ASSUME IInv, Ordered, NEW x \in Intents, Fetch(x) \/ FetchInterrupted(x)
  PROVE  Ordered'
<1>1. /\ intents' = Received(x) /\ stage[x] # "unsent"
      /\ UNCHANGED <<witness, active, applied, before>>
  BY DEF Fetch, FetchInterrupted, Deliver
<1>2. /\ intents \in Seq(Intents) /\ before \in [Intents -> SUBSET Intents]
      /\ stage \in [Intents -> Stages]
  BY DEF IInv, TypeOK
<1>3. \A i \in Intents : stage[i] \in {"acked", "rolledback"} =>
        stage'[i] \in {"acked", "rolledback"}
  BY <1>2 DEF Fetch, FetchInterrupted
<1>4. Called'
  BY <1>1, <1>2, <1>3 DEF Ordered, Called
<1>5. ActiveApplied' /\ LatestIntentDecides'
  BY <1>1 DEF Ordered, ActiveApplied, LatestIntentDecides
<1>6. InOrder'
  <2> SUFFICES ASSUME NEW j \in Intents, NEW i \in before[j], i \in witness,
                      applied[i] = 0
               PROVE  applied[j] = 0 /\ Ahead(i, j)'
    BY <1>1 DEF InOrder
  <2>1. applied[j] = 0 /\ Ahead(i, j) /\ i \in Intents
    BY <1>2 DEF Ordered, InOrder
  <2>2. CASE IsReplay(x)
    BY <1>1, <2>1, <2>2 DEF Received, Ahead
  <2>3. CASE ~IsReplay(x)
    <3>1. stage[i] = "acked"
      BY <2>1 DEF Ordered, Called, IInv, Witnesses
    <3>2. i \in Elements(intents)
      BY <2>1, <3>1 DEF IInv, Alarmed, AcknowledgedIsStored
    <3>3. i # x
      BY <2>3, <3>2 DEF IsReplay
    <3>4. /\ intents' = Append(intents, x) /\ Len(intents) \in Nat
          /\ DOMAIN intents' = 1..(Len(intents) + 1)
          /\ DOMAIN intents = 1..Len(intents)
          /\ \A k \in 1..Len(intents) : intents'[k] = intents[k]
          /\ intents'[Len(intents) + 1] = x
      BY <1>1, <1>2, <2>3, AppendProperties, LenProperties DEF Received
    <3> SUFFICES ASSUME NEW a \in 1..(Len(intents) + 1),
                        NEW b \in 1..(Len(intents) + 1),
                        intents'[a] = i, intents'[b] = j
                 PROVE  a < b
      BY <2>1, <3>4 DEF Ahead
    <3>5. a \in 1..Len(intents)
      BY <3>3, <3>4
    <3>6. CASE b \in 1..Len(intents)
      BY <2>1, <3>4, <3>5, <3>6 DEF Ahead
    <3>7. CASE b = Len(intents) + 1
      BY <3>4, <3>5, <3>7
    <3> QED
      BY <3>4, <3>6, <3>7
  <2> QED
    BY <2>2, <2>3
<1>7. NothingNew'
  <2>1. CASE FetchInterrupted(x)
    BY <2>1 DEF FetchInterrupted, Idle, NothingNew
  <2>2. CASE Fetch(x)
    <3> SUFFICES ASSUME pc = "claim" PROVE Elements(intents') \subseteq late'
      BY <2>2 DEF Fetch, handlerVars, NothingNew
    <3>1. Elements(intents) \subseteq late
      BY DEF Ordered, NothingNew
    <3>2. CASE IsReplay(x)
      BY <1>1, <2>2, <3>1, <3>2 DEF Fetch, Received
    <3>3. CASE ~IsReplay(x)
      <4>1. Elements(intents') = Elements(intents) \cup {x}
        BY <1>1, <1>2, <3>3, AppendElements DEF Received
      <4> QED
        BY <2>2, <3>1, <3>3, <4>1 DEF Fetch
    <3> QED
      BY <3>2, <3>3
  <2> QED
    BY <2>1, <2>2
<1> QED
  BY <1>4, <1>5, <1>6, <1>7 DEF Ordered

LEMMA NextOrdered == IInv /\ Ordered /\ [Next]_vars => Ordered'
<1> SUFFICES ASSUME IInv, Ordered, [Next]_vars PROVE Ordered'
  OBVIOUS
<1>1. ASSUME NEW t \in Txs, Client(t) PROVE Ordered'
  BY <1>1, PrepareOrdered, ClientOrdered DEF Client
<1>2. ASSUME NEW i \in Intents, Fetch(i) \/ FetchInterrupted(i) PROVE Ordered'
  BY <1>2, FetchOrdered
<1>3. CASE Handler \/ BecomesDue \/ Crash
  BY <1>3, CalmStepOrdered, SettleCommittedOrdered, SettleAbortedOrdered
     DEF Handler, Calm
<1>4. CASE UNCHANGED vars
  BY <1>4
     DEF vars, dbVars, storeVars, handlerVars, histVars, Ordered, Called, InOrder,
         Ahead, ActiveApplied, LatestIntentDecides, NothingNew, Elements
<1> QED
  BY <1>1, <1>2, <1>3, <1>4 DEF Next

LEMMA OrderInvariance == Spec => [](IInv /\ Ordered)
<1>1. Init => IInv /\ Ordered
  BY InitIInv, InitOrdered
<1>2. (IInv /\ Ordered) /\ [Next]_vars => (IInv /\ Ordered)'
  BY NextIInv, NextOrdered
<1> QED
  BY <1>1, <1>2, PTL DEF Spec

\* No call is overtaken by one with a receipt that was acknowledged before it was
\* made, and the latest one decides what the object works on, for every number of
\* calls, deliveries and restarts (the order of "state".intents in
\* durable-job.ts).
THEOREM LatestDecides == Spec => []LatestIntentDecides
<1>1. Ordered => LatestIntentDecides
  BY DEF Ordered
<1> QED
  BY <1>1, OrderInvariance, PTL

\* No execution starts over an intent that was stored when its alarm fired
\* (durable-job.ts settles the intents before it claims the job).
THEOREM NothingIsSuperseded == Spec => NoSupersededRun
<1>1. Ordered => (pc = "claim" /\ pc' = "execute" => Elements(intents) \subseteq late)
  BY DEF Ordered, NothingNew
<1> QED
  BY <1>1, OrderInvariance, PTL DEF NoSupersededRun
-----------------------------------------------------------------------------
(* The refinement: what the steps are in the ledger.                        *)

Fate == [i \in Intents |-> LedgerFate(i)]
Taken == {i \in Intents : applied[i] > 0}
JobNow == IF active = NoJob THEN NoJob ELSE active.job
Phase == IF active = NoJob THEN "none"
         ELSE IF pc = "execute" THEN "running"
         ELSE IF active.status \in {"pending", "failing"} THEN "waiting"
         ELSE active.status

LedgerStep == [Ledger!Next]_(Ledger!vars)

LEMMA StutterStep ==
  ASSUME Fate' = Fate, Taken' = Taken, JobNow' = JobNow, Phase' = Phase
  PROVE  LedgerStep
  BY DEF LedgerStep, Ledger!vars, Fate, Taken, JobNow, Phase

LEMMA DecideStep ==
  ASSUME \A i \in Intents : Fate[i] # "unknown" => Fate'[i] = Fate[i],
         Taken' = Taken, JobNow' = JobNow, Phase' = Phase
  PROVE  LedgerStep
<1>1. Fate' \in [Intents -> {"unknown", "committed", "dropped"}]
  BY DEF Fate, LedgerFate
<1> QED
  BY <1>1 DEF LedgerStep, Ledger!Next, Ledger!Decide, Fate, Taken, JobNow, Phase

LEMMA RunStep ==
  ASSUME Fate' = Fate, Taken' = Taken, JobNow' = JobNow,
         \/ Phase = "waiting" /\ Phase' \in {"running", "failed"}
         \/ Phase = "running" /\ Phase' \in {"waiting", "completed"}
  PROVE  LedgerStep
  BY DEF LedgerStep, Ledger!Next, Ledger!Run, Fate, Taken, JobNow, Phase

LEMMA TakeStep ==
  ASSUME NEW i \in Intents, Fate[i] = "committed", i \notin Taken,
         Phase # "running", Fate' = Fate, Taken' = Taken \cup {i},
         JobNow' = IF i \in Cancels THEN NoJob ELSE i,
         Phase' = IF i \in Cancels THEN "none" ELSE "waiting"
  PROVE  LedgerStep
  BY DEF LedgerStep, Ledger!Next, Ledger!Take, Fate, Taken, JobNow, Phase
\* The clients decide the fate of intents that had none.
LEMMA ClientLedger ==
  ASSUME IInv, NEW t \in Txs, Client(t)
  PROVE  LedgerStep
<1>1. Taken' = Taken /\ JobNow' = JobNow /\ Phase' = Phase
  BY DEF Client, Prepare, RollBackCall, Commit, Abort, storeVars, handlerVars,
         histVars, Taken, JobNow, Phase
<1>2. tx \in [Txs -> {"open", "committed", "aborted"}] /\ stage \in [Intents -> Stages]
  BY DEF IInv, TypeOK
<1>3. \A i \in Intents : TxOf(i) \in Txs
  BY TxOfIntent
<1>4. tx[t] = "open"
  BY DEF Client, Prepare, RollBackCall, Commit, Abort
<1>5. ASSUME NEW i \in Intents PROVE Fate[i] # "unknown" => Fate'[i] = Fate[i]
  <2>1. CASE TxOf(i) # t
    <3>1. tx'[TxOf(i)] = tx[TxOf(i)]
      BY <1>2, <1>3, <2>1 DEF Client, Prepare, RollBackCall, Commit, Abort
    <3>2. stage'[i] = stage[i]
      <4>1. ASSUME NEW k \in DOMAIN Program[t], Prepare(t, k)
            PROVE  stage'[i] = stage[i]
        <5>1. Program[t][k] \in IntentsOf(t)
          BY IntentsOfTx
        <5>2. Program[t][k] # i
          BY <2>1, <5>1, TxOfIntent
        <5> QED
          BY <1>2, <4>1, <5>2 DEF Prepare
      <4>2. ASSUME NEW j \in IntentsOf(t), RollBackCall(t, j)
            PROVE  stage'[i] = stage[i]
        <5>1. j # i
          BY <2>1, TxOfIntent
        <5> QED
          BY <1>2, <4>2, <5>1 DEF RollBackCall
      <4> QED
        BY <4>1, <4>2 DEF Client, Commit, Abort
    <3> QED
      BY <3>1, <3>2 DEF Fate, LedgerFate
  <2>2. CASE TxOf(i) = t
    <3> SUFFICES ASSUME stage[i] = "rolledback" PROVE Fate'[i] = Fate[i]
      BY <1>4, <2>2 DEF Fate, LedgerFate
    <3>1. stage'[i] = "rolledback"
      BY <1>2 DEF Client, Prepare, RollBackCall, Commit, Abort
    <3> QED
      BY <1>4, <2>2, <3>1 DEF Fate, LedgerFate
  <2> QED
    BY <2>1, <2>2
<1> QED
  BY <1>1, <1>5, DecideStep

\* An acknowledgement decides nothing; a restart ends an execution.
LEMMA FetchLedger ==
  ASSUME IInv, NEW x \in Intents, Fetch(x) \/ FetchInterrupted(x)
  PROVE  LedgerStep
<1>1. UNCHANGED <<tx, active, applied>>
  BY DEF Fetch, FetchInterrupted
<1>2. Fate' = Fate
  <2>1. stage \in [Intents -> Stages]
    BY DEF IInv, TypeOK
  <2>2. \A i \in Intents :
          stage'[i] = stage[i] \/ (stage[i] = "sent" /\ stage'[i] = "acked")
    BY <2>1 DEF Fetch, FetchInterrupted
  <2>3. \A i \in Intents : tx[TxOf(i)] = "committed" => stage[i] # "sent"
    BY DEF IInv, Witnesses
  <2> QED
    BY <1>1, <2>2, <2>3 DEF Fate, LedgerFate
<1>3. Taken' = Taken /\ JobNow' = JobNow
  BY <1>1 DEF Taken, JobNow
<1>4. CASE pc' = pc
  <2>1. Phase' = Phase
    BY <1>1, <1>4 DEF Phase
  <2> QED
    BY <1>2, <1>3, <2>1, StutterStep
<1>5. CASE pc' = "idle" /\ pc # "execute"
  <2>1. Phase' = Phase
    BY <1>1, <1>5 DEF Phase
  <2> QED
    BY <1>2, <1>3, <2>1, StutterStep
<1>6. CASE pc' = "idle" /\ pc = "execute"
  <2>1. Phase = "running" /\ Phase' = "waiting"
    BY <1>1, <1>6 DEF Phase, IInv, Attempts
  <2> QED
    BY <1>2, <1>3, <2>1, RunStep
<1> QED
  BY <1>4, <1>5, <1>6 DEF Fetch, FetchInterrupted, Idle, handlerVars

LEMMA SettleLedger ==
  ASSUME IInv, SettleCommitted \/ SettleAborted
  PROVE  LedgerStep
<1>1. /\ Fate' = Fate /\ pc' = "idle" /\ pc = "settle"
  BY DEF SettleCommitted, SettleAborted, Idle, dbVars, Fate, LedgerFate
<1>2. CASE UNCHANGED <<active, applied>>
  <2>1. Taken' = Taken /\ JobNow' = JobNow /\ Phase' = Phase
    BY <1>1, <1>2 DEF Taken, JobNow, Phase
  <2> QED
    BY <1>1, <2>1, StutterStep
<1>3. CASE /\ SettleCommitted /\ active' = Applies(subject)
           /\ applied' = [applied EXCEPT ![subject] = @ + 1]
  <2>1. /\ subject \in Intents /\ subject \in witness
        /\ tx[TxOf(subject)] = "committed" /\ subject \in Elements(intents)
    <3>1. /\ subject \in Intents /\ subject \in witness /\ intents # << >>
          /\ tx[TxOf(subject)] = "committed" /\ Head(intents) = subject
      BY <1>3 DEF SettleCommitted, IInv, HandlerKnows
    <3> QED
      BY <3>1, TailElements DEF IInv, TypeOK
  <2>2. stage[subject] = "acked" /\ applied[subject] = 0
    BY <2>1 DEF IInv, Witnesses
  <2>3. Fate[subject] = "committed" /\ subject \notin Taken /\ Phase # "running"
    <3>1. active # NoJob => active.status \in Statuses
      BY JobUpdates DEF IInv, TypeOK
    <3> QED
      BY <1>1, <2>1, <2>2, <3>1 DEF Fate, LedgerFate, Taken, Phase, Statuses
  <2>4. Taken' = Taken \cup {subject}
    BY <1>3, <2>1, <2>2 DEF Taken, IInv, TypeOK
  <2>5. /\ JobNow' = IF subject \in Cancels THEN NoJob ELSE subject
        /\ Phase' = IF subject \in Cancels THEN "none" ELSE "waiting"
    <3>1. CASE subject \in Cancels
      BY <1>3, <3>1 DEF Applies, JobNow, Phase
    <3>2. CASE subject \notin Cancels
      <4>1. active' = [job |-> subject, attempts |-> 0, status |-> "pending",
                       due |-> FALSE]
        BY <1>3, <3>2 DEF Applies
      <4>2. active' \in Jobs
        BY <2>1, <3>2, <4>1 DEF Jobs, Statuses
      <4>3. active' # NoJob /\ active'.job = subject /\ active'.status = "pending"
        BY <4>1, <4>2, NoJobAssumption
      <4> QED
        BY <1>1, <3>2, <4>3 DEF JobNow, Phase
    <3> QED
      BY <3>1, <3>2
  <2> QED
    BY <1>1, <2>1, <2>3, <2>4, <2>5, TakeStep
<1> QED
  BY <1>2, <1>3 DEF SettleCommitted, SettleAborted, Save, OnlyMarker

\* An updated job is a job with the status it was given.
LEMMA UpdatesStatus ==
  ASSUME NEW a \in Jobs
  PROVE  \A s \in Statuses, n \in Nat :
           Update(a, s, n) # NoJob /\ Update(a, s, n).status = s
  BY UpdatedJob

LEMMA CalmLedger ==
  ASSUME IInv, Calm
  PROVE  LedgerStep
<1>1. Fate' = Fate /\ Taken' = Taken
  BY DEF Calm, AlarmFires, Validate, RemoveReceipt, ForgetReceipt, NothingToRun,
         ClaimExhausted, ClaimRun, ReportFailure, CloseFailed, ExecutionEnds,
         BecomesDue, Crash, dbVars, histVars, Fate, LedgerFate, Taken
<1>2. JobNow' = JobNow
  BY CalmSameJob DEF SameJob, JobNow
<1>3. active # NoJob => active \in Jobs
  BY DEF IInv, TypeOK
<1>4. CASE UNCHANGED active /\ pc # "execute" /\ pc' # "execute"
  <2>1. Phase' = Phase
    BY <1>4 DEF Phase
  <2> QED
    BY <1>1, <1>2, <2>1, StutterStep
<1>5. CASE ClaimExhausted
  <2>1. /\ active \in Jobs /\ active # NoJob /\ active.attempts \in Nat
        /\ active.status \in {"pending", "failing"}
    BY <1>3, <1>5, JobUpdates DEF ClaimExhausted, Runnable
  <2>2. active' # NoJob /\ active'.status = "failing"
    <3>1. active' = Update(active, "failing", active.attempts)
      BY <1>5 DEF ClaimExhausted, GivingUp
    <3>2. "failing" \in Statuses
      BY DEF Statuses
    <3> QED
      BY <2>1, <3>1, <3>2, UpdatesStatus
  <2>3. Phase = "waiting" /\ Phase' = "waiting"
    BY <1>5, <2>1, <2>2 DEF ClaimExhausted, Phase
  <2> QED
    BY <1>1, <1>2, <2>3, StutterStep
<1>6. CASE ClaimRun
  <2>1. /\ active \in Jobs /\ active # NoJob
        /\ active.status \in {"pending", "failing"}
    BY <1>3, <1>6 DEF ClaimRun, Runnable
  <2>2. active' # NoJob
    BY <1>6, <2>1, SameJobUpdates DEF ClaimRun
  <2>3. Phase = "waiting" /\ Phase' = "running"
    BY <1>6, <2>1, <2>2 DEF ClaimRun, Phase
  <2> QED
    BY <1>1, <1>2, <2>3, RunStep
<1>7. CASE CloseFailed
  <2>1. /\ active \in Jobs /\ active # NoJob /\ active.attempts \in Nat
        /\ active.status = "failing"
    BY <1>3, <1>7, JobUpdates DEF CloseFailed, IInv, Attempts
  <2>2. active' # NoJob /\ active'.status = "failed"
    <3>1. active' = Update(active, "failed", active.attempts)
      BY <1>7 DEF CloseFailed, Save
    <3>2. "failed" \in Statuses
      BY DEF Statuses
    <3> QED
      BY <2>1, <3>1, <3>2, UpdatesStatus
  <2>3. Phase = "waiting" /\ Phase' = "failed"
    BY <1>7, <2>1, <2>2 DEF CloseFailed, Idle, Phase
  <2> QED
    BY <1>1, <1>2, <2>3, RunStep
<1>8. ASSUME NEW r \in {"finished", "continues", "fails"}, ExecutionEnds(r)
      PROVE  LedgerStep
  <2>1. active \in Jobs /\ active # NoJob /\ active.attempts \in Nat
    BY <1>3, <1>8, JobUpdates DEF ExecutionEnds, IInv, Attempts
  <2>2. PICK s \in {"completed", "pending", "failing"}, n \in Nat :
          active' = Update(active, s, n)
    BY <1>8, <2>1 DEF ExecutionEnds, Save
  <2>3. active' # NoJob /\ active'.status = s
    <3>1. s \in Statuses
      BY DEF Statuses
    <3> QED
      BY <2>1, <2>2, <3>1, UpdatesStatus
  <2>4. Phase = "running" /\ Phase' \in {"waiting", "completed"}
    BY <1>8, <2>1, <2>3 DEF ExecutionEnds, Idle, Phase
  <2> QED
    BY <1>1, <1>2, <2>4, RunStep
<1>9. CASE BecomesDue
  <2>1. active \in Jobs /\ active # NoJob
    BY <1>3, <1>9 DEF BecomesDue
  <2>2. active' # NoJob /\ active'.status = active.status
    BY <1>9, <2>1, JobUpdates, NoJobAssumption DEF BecomesDue
  <2>3. Phase' = Phase
    BY <1>9, <2>1, <2>2 DEF BecomesDue, handlerVars, Phase
  <2> QED
    BY <1>1, <1>2, <2>3, StutterStep
<1>10. CASE Crash /\ pc = "execute"
  <2>1. Phase = "running" /\ Phase' = "waiting"
    BY <1>10 DEF Crash, Idle, storeVars, Phase, IInv, Attempts
  <2> QED
    BY <1>1, <1>2, <2>1, RunStep
<1> QED
  BY <1>4, <1>5, <1>6, <1>7, <1>8, <1>9, <1>10
     DEF Calm, AlarmFires, Validate, RemoveReceipt, ForgetReceipt, NothingToRun,
         ReportFailure, Crash, Idle, Save, OnlyMarker, storeVars

LEMMA NextLedger == IInv /\ [Next]_vars => [Ledger!Next]_(Ledger!vars)
<1> SUFFICES ASSUME IInv, [Next]_vars PROVE LedgerStep
  BY DEF LedgerStep
<1>1. ASSUME NEW t \in Txs, Client(t) PROVE LedgerStep
  BY <1>1, ClientLedger
<1>2. ASSUME NEW i \in Intents, Fetch(i) \/ FetchInterrupted(i) PROVE LedgerStep
  BY <1>2, FetchLedger
<1>3. CASE Handler \/ BecomesDue \/ Crash
  BY <1>3, CalmLedger, SettleLedger DEF Handler, Calm
<1>4. CASE UNCHANGED vars
  <2>1. Fate' = Fate /\ Taken' = Taken /\ JobNow' = JobNow /\ Phase' = Phase
    BY <1>4 DEF vars, dbVars, storeVars, handlerVars, histVars, Fate, LedgerFate,
                Taken, JobNow, Phase
  <2> QED
    BY <2>1, StutterStep
<1> QED
  BY <1>1, <1>2, <1>3, <1>4 DEF Next

LEMMA InitLedger == Init => Ledger!Init
  BY TxOfIntent DEF Init, Ledger!Init, LedgerFate

\* The safety part of ImplementsLedger: the object, with its storage, alarms,
\* repeated deliveries and restarts, begins as the ledger does and takes no step
\* that the ledger could not take.
THEOREM StepsAreTheLedgers == Spec => Ledger!Init /\ [][Ledger!Next]_(Ledger!vars)
  BY InitLedger, NextLedger, Invariance, PTL DEF Spec
=============================================================================
