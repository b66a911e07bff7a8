----------------------------- MODULE DurableJob -----------------------------
(***************************************************************************)
(* One durable job object (apps/api/src/durable-job.ts) together with the  *)
(* database transactions that write its intents (services/src/jobs.ts) and *)
(* the receipt check that ties the two (apps/api/src/job-runtime.ts).      *)
(*                                                                         *)
(* A business transaction inserts a receipt row for every job it enqueues  *)
(* or cancels and sends the object an intent that names the row.  The      *)
(* object stores the intent at once, but acts on it only when the database *)
(* says that the transaction committed and that the row survived.          *)
(*                                                                         *)
(* The object lives in one isolate: its alarm handler runs one at a time,  *)
(* fetches interleave with it wherever it awaits, and a restart loses the  *)
(* handler but not the storage.  Time is abstracted: an alarm that is set  *)
(* may fire, and a pending job may become due, at any moment.              *)
(***************************************************************************)
EXTENDS Naturals, Sequences, FiniteSets

CONSTANTS
  Intents,        \* the intents ever sent to this object, one receipt id each
  Cancels,        \* the intents that carry no job (JobService.cancel)
  Txs,            \* the business transactions
  Program,        \* [Txs -> Seq(Intents)]: what each one enqueues, in order
  NoJob,          \* the absent active job
  MaxAttempts,    \* DurableJob.maxAttempts (5 by default in the code)
  MaxUnsettled,   \* the limit on stored intents (100 in the code)
  MaxDeliveries,  \* bound: how often the network delivers one intent
  MaxCrashes      \* bound: how often the object restarts

ASSUME IntentsAssumption ==
  /\ Cancels \subseteq Intents
  /\ Program \in [Txs -> Seq(Intents)]
  /\ \A i \in Intents : \E t \in Txs : \E k \in DOMAIN Program[t] :
       /\ i = Program[t][k]
       /\ \A u \in Txs : \A j \in DOMAIN Program[u] :
            i = Program[u][j] => u = t /\ j = k

ASSUME BoundsAssumption ==
  /\ MaxAttempts \in Nat \ {0}
  /\ MaxUnsettled \in Nat \ {0}
  /\ MaxDeliveries \in Nat
  /\ MaxCrashes \in Nat

VARIABLES
  \* The database and its clients.
  tx,          \* the fate of each transaction
  stage,       \* how far each enqueue or cancel call has come
  witness,     \* rows of execution_receipts (rolled-back ones are gone)
  deliveries,  \* how often each intent has reached the object
  \* The storage of the object.
  intents,     \* "state".intents
  cleanup,     \* "state".cleanup
  active,      \* "state".active
  marker,      \* the ids i for which the key receipt:i is stored
  alarm,       \* "set" or "none"
  \* The alarm handler, lost by a restart.
  pc,          \* the await at which it is suspended
  subject,     \* the intent it is working on (first, or cleanup[0])
  verdict,     \* what runtime.receipt answered
  crashes,     \* restarts so far
  \* History variables, for the properties only.
  applied,     \* how often each intent has replaced the active job
  before,      \* what was acknowledged already when each call was made
  late,        \* intents stored since the alarm that is about to claim fired
  runs,        \* execute() calls since the job was set or last did not fail
  reported     \* has runtime.failed been called for the active job?

dbVars      == <<tx, stage, witness, deliveries>>
storeVars   == <<intents, cleanup, active, marker, alarm>>
handlerVars == <<pc, subject, verdict>>
histVars    == <<applied, before, late, runs, reported>>
vars        == <<dbVars, storeVars, handlerVars, crashes, histVars>>

Stages == {"unsent", "sent", "acked", "rolledback"}
Places == {"idle", "validate", "settle", "remove", "forget",
           "claim", "execute", "report", "close"}
Statuses == {"pending", "failing", "completed", "failed"}
Jobs == [job : Intents \ Cancels, attempts : Nat, status : Statuses,
         due : BOOLEAN]

ASSUME NoJobAssumption == NoJob \notin Intents /\ NoJob \notin Jobs

TypeOK ==
  /\ tx \in [Txs -> {"open", "committed", "aborted"}]
  /\ stage \in [Intents -> Stages]
  /\ witness \subseteq Intents
  /\ deliveries \in [Intents -> Nat]
  /\ intents \in Seq(Intents)
  /\ cleanup \subseteq Intents
  /\ active \in Jobs \cup {NoJob}
  /\ marker \subseteq Intents
  /\ alarm \in {"set", "none"}
  /\ pc \in Places
  /\ subject \in Intents \cup {NoJob}
  /\ verdict \in {"none", "committed", "aborted"}
  /\ crashes \in Nat
  /\ applied \in [Intents -> Nat]
  /\ before \in [Intents -> SUBSET Intents]
  /\ late \subseteq Intents
  /\ runs \in Nat
  /\ reported \in BOOLEAN

Init ==
  /\ tx = [t \in Txs |-> "open"]
  /\ stage = [i \in Intents |-> "unsent"]
  /\ witness = {}
  /\ deliveries = [i \in Intents |-> 0]
  /\ intents = << >>
  /\ cleanup = {}
  /\ active = NoJob
  /\ marker = {}
  /\ alarm = "none"
  /\ pc = "idle"
  /\ subject = NoJob
  /\ verdict = "none"
  /\ crashes = 0
  /\ applied = [i \in Intents |-> 0]
  /\ before = [i \in Intents |-> {}]
  /\ late = {}
  /\ runs = 0
  /\ reported = FALSE

Elements(s) == {s[k] : k \in DOMAIN s}

IntentsOf(t) == Elements(Program[t])

TxOf(i) == CHOOSE t \in Txs : i \in IntentsOf(t)

-----------------------------------------------------------------------------
(* The business transaction.                                               *)

\* prepare(key, job): the transaction inserts the receipt row and sends the
\* intent; its calls are awaited one after the other.
Prepare(t, k) ==
  LET i == Program[t][k] IN
  /\ tx[t] = "open"
  /\ stage[i] = "unsent"
  /\ \A j \in 1..(k - 1) : stage[Program[t][j]] \in {"acked", "rolledback"}
  /\ witness' = witness \cup {i}
  /\ stage' = [stage EXCEPT ![i] = "sent"]
  /\ before' = [before EXCEPT ![i] = {j \in Intents : stage[j] = "acked"}]
  /\ UNCHANGED <<tx, deliveries, storeVars, handlerVars, crashes, applied, late,
                 runs, reported>>

\* The call times out after 5 seconds or fails, or a savepoint around it rolls
\* back: the row is gone, though the intent may still be on its way.
RollBackCall(t, i) ==
  /\ tx[t] = "open"
  /\ stage[i] \in {"sent", "acked"}
  /\ stage' = [stage EXCEPT ![i] = "rolledback"]
  /\ witness' = witness \ {i}
  /\ UNCHANGED <<tx, deliveries, storeVars, handlerVars, crashes, histVars>>

\* The transaction ends once no call is outstanding.
Commit(t) ==
  /\ tx[t] = "open"
  /\ \A i \in IntentsOf(t) : stage[i] # "sent"
  /\ tx' = [tx EXCEPT ![t] = "committed"]
  /\ UNCHANGED <<stage, witness, deliveries, storeVars, handlerVars, crashes,
                 histVars>>

\* A failure anywhere in the transaction, or the loss of its connection.
Abort(t) ==
  /\ tx[t] = "open"
  /\ tx' = [tx EXCEPT ![t] = "aborted"]
  /\ witness' = witness \ IntentsOf(t)
  /\ UNCHANGED <<stage, deliveries, storeVars, handlerVars, crashes, histVars>>

-----------------------------------------------------------------------------
(* The object's storage.                                                   *)

\* Faults: save() overlooks one kind of work when it picks the alarm.
OutstandingButIntents(is, cs, act) ==
  \/ cs # {}
  \/ act # NoJob /\ act.status \in {"pending", "failing"}
OutstandingButCleanup(is, cs, act) ==
  \/ is # << >>
  \/ act # NoJob /\ act.status \in {"pending", "failing"}
OutstandingButFailing(is, cs, act) ==
  \/ is # << >>
  \/ cs # {}
  \/ act # NoJob /\ act.status = "pending"
OutstandingButPending(is, cs, act) ==
  \/ is # << >>
  \/ cs # {}
  \/ act # NoJob /\ act.status = "failing"

\* Does save() set an alarm (else it deletes it)?
Outstanding(is, cs, act) ==
  \/ is # << >>
  \/ cs # {}
  \/ act # NoJob /\ act.status \in {"pending", "failing"}

AlarmFor(is, cs, act) == IF Outstanding(is, cs, act) THEN "set" ELSE "none"

Restarts ==
  /\ crashes < MaxCrashes
  /\ crashes' = crashes + 1

Idle == pc' = "idle" /\ subject' = NoJob /\ verdict' = "none" /\ late' = {}

\* save(): the snapshot, then the alarm.  The object may stop in between.
Save(is, cs, act) ==
  /\ intents' = is
  /\ cleanup' = cs
  /\ active' = act
  /\ \/ alarm' = AlarmFor(is, cs, act) /\ UNCHANGED crashes
     \/ UNCHANGED alarm /\ Restarts

\* The put of an interrupted block that had only reached its receipt: key.
OnlyMarker(ms) ==
  /\ marker' = ms
  /\ Restarts
  /\ UNCHANGED <<intents, cleanup, active, alarm>>

-----------------------------------------------------------------------------
(* fetch(): store an intent, unless it is a replay.                        *)

\* Fault: only the intents not yet settled are compared.
IsReplayWhileStored(i) == i \in Elements(intents)

IsReplay(i) == i \in Elements(intents) \/ i \in marker

\* Fault: the newest intent goes first.
ReceivedFirst(i) == IF IsReplay(i) THEN intents ELSE <<i>> \o intents

Received(i) == IF IsReplay(i) THEN intents ELSE Append(intents, i)

Deliver(i) ==
  /\ stage[i] # "unsent"
  /\ deliveries[i] < MaxDeliveries
  /\ IsReplay(i) \/ Len(intents) < MaxUnsettled
  /\ deliveries' = [deliveries EXCEPT ![i] = @ + 1]

Fetch(i) ==
  /\ Deliver(i)
  /\ intents' = Received(i)
  /\ alarm' = AlarmFor(intents', cleanup, active)
  /\ stage' = IF stage[i] = "sent" THEN [stage EXCEPT ![i] = "acked"]
                                   ELSE stage
  /\ late' = IF pc = "claim" /\ ~IsReplay(i) THEN late \cup {i} ELSE late
  /\ UNCHANGED <<tx, witness, cleanup, active, marker, handlerVars, crashes,
                 applied, before, runs, reported>>

\* The object stops after the put and before setAlarm; nobody is told.
FetchInterrupted(i) ==
  /\ Deliver(i)
  /\ Restarts
  /\ intents' = Received(i)
  /\ Idle
  /\ UNCHANGED <<tx, stage, witness, cleanup, active, marker, alarm,
                 applied, before, runs, reported>>

-----------------------------------------------------------------------------
(* alarm().                                                                *)

\* Fault: the handler relies on save() to set its next alarm.
NotRearmed == "none"

\* setAlarm(now + RETRY_MS), before anything else is done.
Rearmed == "set"

\* Fault: the job is served before the intents.
JobFirst == cleanup = {}

\* The job's turn comes when there is nothing to settle and to clean up.
JobTurn == intents = << >> /\ cleanup = {}

\* The alarm is consumed and set again before anything else is done; the
\* handler then picks its work: an intent, a receipt to remove, or the job.
AlarmFires ==
  /\ pc = "idle"
  /\ alarm = "set"
  /\ alarm' = Rearmed
  /\ \/ /\ intents # << >>
        /\ pc' = "validate"
        /\ subject' = Head(intents)
     \/ /\ intents = << >>
        /\ subject' \in cleanup
        /\ pc' = "remove"
     \/ /\ JobTurn
        /\ pc' = "claim"
        /\ UNCHANGED subject
  /\ UNCHANGED <<dbVars, intents, cleanup, active, marker, verdict, crashes,
                 histVars>>

\* Faults: the transaction's fate is taken for the receipt's, or a row that is
\* not visible to others yet for a committed one.
ReceiptOfTransaction(i) ==
  CASE tx[TxOf(i)] = "open"      -> "pending"
    [] tx[TxOf(i)] = "aborted"   -> "aborted"
    [] tx[TxOf(i)] = "committed" -> "committed"
ReceiptTooEarly(i) == IF i \in witness THEN "committed" ELSE "aborted"

\* runtime.receipt(first).
Receipt(i) ==
  CASE tx[TxOf(i)] = "open"      -> "pending"
    [] tx[TxOf(i)] = "aborted"   -> "aborted"
    [] tx[TxOf(i)] = "committed" ->
         IF i \in witness THEN "committed" ELSE "aborted"

Validate ==
  /\ pc = "validate"
  /\ \/ /\ Receipt(subject) = "pending"
        /\ Idle
     \/ /\ Receipt(subject) # "pending"
        /\ verdict' = Receipt(subject)
        /\ pc' = "settle"
        /\ UNCHANGED <<subject, late>>
  /\ UNCHANGED <<dbVars, storeVars, crashes, applied, before, runs, reported>>

\* The job with a new status and a new count of attempts.
Update(job, status, attempts) ==
  [job EXCEPT !.status = status, !.attempts = attempts]

\* What a committed intent makes of the active job.
Applies(i) ==
  IF i \in Cancels
    THEN NoJob
    ELSE [job |-> i, attempts |-> 0, status |-> "pending", due |-> FALSE]

\* A committed intent becomes the active job; its receipt is due for removal.
SettleCommitted ==
  /\ pc = "settle"
  /\ verdict = "committed"
  /\ Head(intents) = subject
  /\ Idle
  /\ \/ /\ marker' = marker \cup {subject}
        /\ Save(Tail(intents), cleanup \cup {subject}, Applies(subject))
        /\ applied' = [applied EXCEPT ![subject] = @ + 1]
        /\ runs' = 0
        /\ reported' = FALSE
     \/ /\ OnlyMarker(marker \cup {subject})
        /\ UNCHANGED <<applied, runs, reported>>
  /\ UNCHANGED <<dbVars, before>>

\* An intent whose transaction or savepoint rolled back is dropped.
SettleAborted ==
  /\ pc = "settle"
  /\ verdict = "aborted"
  /\ Head(intents) = subject
  /\ Idle
  /\ Save(Tail(intents), cleanup, active)
  /\ UNCHANGED <<dbVars, marker, applied, before, runs, reported>>

\* runtime.removeReceipt(cleanup[0]).
RemoveReceipt ==
  /\ pc = "remove"
  /\ witness' = witness \ {subject}
  /\ pc' = "forget"
  /\ UNCHANGED <<tx, stage, deliveries, storeVars, subject, verdict, crashes,
                 histVars>>

\* The replay marker goes once the row that could revive the intent is gone.
ForgetReceipt ==
  /\ pc = "forget"
  /\ Idle
  /\ \/ /\ marker' = marker \ {subject}
        /\ Save(intents, cleanup \ {subject}, active)
     \/ OnlyMarker(marker \ {subject})
  /\ UNCHANGED <<dbVars, applied, before, runs, reported>>

Runnable ==
  /\ active # NoJob
  /\ active.status = "pending" => active.due
  /\ active.status \in {"pending", "failing"}

Exhausted == active.attempts >= MaxAttempts

\* Fault: the failure is final before it is on record.
GivingUpAtOnce == Update(active, "failed", active.attempts)

GivingUp == Update(active, "failing", active.attempts)

\* There is no job, it has ended, or its time has not come.
NothingToRun ==
  /\ pc = "claim"
  /\ ~Runnable
  /\ Idle
  /\ Save(intents, cleanup, active)
  /\ UNCHANGED <<dbVars, marker, applied, before, runs, reported>>

\* The attempts are used up, be it by failures or by restarts.
ClaimExhausted ==
  /\ pc = "claim"
  /\ Runnable
  /\ Exhausted
  /\ active' = GivingUp
  /\ alarm' = "set"
  /\ pc' = "report"
  /\ late' = {}
  /\ UNCHANGED <<dbVars, intents, cleanup, marker, subject, verdict, crashes,
                 applied, before, runs, reported>>

\* The attempt is counted before it starts; the alarm set on entry stays.
ClaimRun ==
  /\ pc = "claim"
  /\ Runnable
  /\ ~Exhausted
  /\ active' = [active EXCEPT !.attempts = active.attempts + 1, !.due = FALSE]
  /\ pc' = "execute"
  /\ runs' = runs + 1
  /\ late' = {}
  /\ UNCHANGED <<dbVars, intents, cleanup, marker, alarm, subject, verdict,
                 crashes, applied, before, reported>>

\* runtime.failed(job): the SQL that records the failure for the user.
ReportFailure ==
  /\ pc = "report"
  /\ reported' = TRUE
  /\ pc' = "close"
  /\ UNCHANGED <<dbVars, storeVars, subject, verdict, crashes, applied, before,
                 late, runs>>

CloseFailed ==
  /\ pc = "close"
  /\ Idle
  /\ Save(intents, cleanup, Update(active, "failed", active.attempts))
  /\ UNCHANGED <<dbVars, marker, applied, before, runs, reported>>

\* execute() answers: no more work, a time to continue at, or an error.
ExecutionEnds(result) ==
  /\ pc = "execute"
  /\ Idle
  /\ Save(intents, cleanup,
          CASE result = "finished"  -> Update(active, "completed", 0)
            [] result = "continues" -> Update(active, "pending", 0)
            [] result = "fails"     ->
                 Update(active, IF Exhausted THEN "failing" ELSE "pending",
                        active.attempts))
  /\ runs' = IF result = "fails" THEN runs ELSE 0
  /\ UNCHANGED <<dbVars, marker, applied, before, reported>>

-----------------------------------------------------------------------------
(* The environment.                                                        *)

\* active.job.runAt passes.
BecomesDue ==
  /\ active # NoJob
  /\ active.status = "pending"
  /\ ~active.due
  /\ active' = [active EXCEPT !.due = TRUE]
  /\ UNCHANGED <<dbVars, intents, cleanup, marker, alarm, handlerVars, crashes,
                 histVars>>

\* The isolate is evicted or fails while the handler is suspended.
Crash ==
  /\ pc # "idle"
  /\ Restarts
  /\ Idle
  /\ UNCHANGED <<dbVars, storeVars, applied, before, runs, reported>>

-----------------------------------------------------------------------------
Client(t) ==
  \/ \E k \in DOMAIN Program[t] : Prepare(t, k)
  \/ \E i \in IntentsOf(t) : RollBackCall(t, i)
  \/ Commit(t)
  \/ Abort(t)

Handler ==
  \/ AlarmFires
  \/ Validate
  \/ SettleCommitted
  \/ SettleAborted
  \/ RemoveReceipt
  \/ ForgetReceipt
  \/ NothingToRun
  \/ ClaimExhausted
  \/ ClaimRun
  \/ ReportFailure
  \/ CloseFailed
  \/ \E r \in {"finished", "continues", "fails"} : ExecutionEnds(r)

Next ==
  \/ \E t \in Txs : Client(t)
  \/ \E i \in Intents : Fetch(i) \/ FetchInterrupted(i)
  \/ Handler
  \/ BecomesDue
  \/ Crash

Spec == Init /\ [][Next]_vars

\* Every transaction ends (the database ends those whose client is gone), an
\* alarm that is set fires, the calls the handler awaits return, and time goes
\* on.  Nothing is assumed of the network.
Fairness ==
  /\ \A t \in Txs : WF_vars(Commit(t) \/ Abort(t))
  /\ WF_vars(Handler)
  /\ WF_vars(BecomesDue)

FairSpec == Spec /\ Fairness

-----------------------------------------------------------------------------
(* Safety.                                                                 *)

\* "It proves the surrounding business transaction committed, including when
\* a nested savepoint rolled back" (jobs.ts): nothing else ever becomes the
\* active job, however late or often an intent is delivered.
OnlyCommittedApplies ==
  \A i \in Intents :
    applied[i] > 0 => tx[TxOf(i)] = "committed" /\ stage[i] = "acked"

\* "Replayed transport acknowledgements must not enqueue the same intent
\* twice" (durable-job.ts): a replay that arrives before, during or after the
\* removal of the receipt, or after a restart half way, changes nothing.
AppliedAtMostOnce == \A i \in Intents : applied[i] <= 1

\* "Acknowledges only after the intent and its alarm are durably stored"
\* (job-transport.ts): until an acknowledged intent has taken effect or its
\* receipt is gone, it is stored and the alarm that will look at it is set.
AcknowledgedIsStored ==
  \A i \in Intents :
    stage[i] = "acked" /\ i \in witness /\ applied[i] = 0 =>
      i \in Elements(intents) /\ alarm = "set"

\* "No global scan or idle recovery timer" (durable-job.ts): the one alarm is
\* all that can wake the object, so no work may be left without it.
NeverStranded ==
  (cleanup # {} \/ (active # NoJob /\ active.status \in {"pending", "failing"}))
    => alarm = "set"

\* A call made after another was acknowledged is never overtaken by it, and
\* the job that the object works on is the one the latest call asked for:
\* neither a restart nor the end of an execution brings an older one back.
LatestIntentDecides ==
  /\ \A j \in Intents : applied[j] > 0 =>
       \A i \in before[j] : i \in witness => applied[i] > 0
  /\ \A i, j \in Intents :
       applied[i] > 0 /\ applied[j] > 0 /\ i \in before[j] =>
         active = NoJob \/ active.job # i
  /\ \A j \in Intents \ Cancels :
       applied[j] > 0
       /\ (\A i \in Intents \ {j} : applied[i] > 0 => i \in before[j]) =>
         active # NoJob /\ active.job = j

\* Restarts count as attempts: a job that takes its object down with it is
\* not started more often than maxAttempts allows.
AttemptsAreBounded == runs <= MaxAttempts

\* A job is only given up once its attempts are used up and the failure is on
\* record: a restart between the two steps records it again, never not at all.
FailureIsReported ==
  active # NoJob /\ active.status = "failed" => reported /\ runs = MaxAttempts

\* An execution never starts while an intent that was stored when the alarm
\* fired waits to be settled: it might cancel or replace that very job.
NoSupersededRun ==
  [][pc = "claim" /\ pc' = "execute" => Elements(intents) \subseteq late]_vars

-----------------------------------------------------------------------------
(* Liveness.                                                               *)

\* What a transaction committed takes effect in the end.
CommittedTakesEffect ==
  \A t \in Txs : \A i \in IntentsOf(t) :
    tx[t] = "committed" /\ stage[i] = "acked" ~> applied[i] > 0

\* execution_receipts does not grow for ever: each row is removed in the end.
ReceiptsAreReclaimed == \A i \in Intents : i \in witness ~> i \notin witness

\* A pending job is run, replaced, cancelled or given up; a failing one does
\* not stay so.
JobsAreNotForgotten ==
  /\ \A j \in Intents :
       active # NoJob /\ active.job = j /\ active.status = "pending" ~>
         \/ pc = "execute"
         \/ active = NoJob \/ active.job # j \/ active.status # "pending"
  /\ (active # NoJob /\ active.status = "failing") ~>
         (active = NoJob \/ active.status # "failing")

-----------------------------------------------------------------------------
(* What the object promises, and why it keeps the promise: JobLedger.      *)

LedgerFate(i) ==
  IF tx[TxOf(i)] = "open" /\ stage[i] # "rolledback" THEN "unknown"
  ELSE IF tx[TxOf(i)] = "committed" /\ stage[i] = "acked" THEN "committed"
  ELSE "dropped"

Ledger == INSTANCE JobLedger WITH
  fate    <- [i \in Intents |-> LedgerFate(i)],
  taken   <- {i \in Intents : applied[i] > 0},
  current <- IF active = NoJob THEN NoJob ELSE active.job,
  phase   <- IF active = NoJob THEN "none"
             ELSE IF pc = "execute" THEN "running"
             ELSE IF active.status \in {"pending", "failing"} THEN "waiting"
             ELSE active.status

\* The object implements the ledger: an intent takes effect in one step,
\* once, only after its fate is known, never in the middle of an execution,
\* and, if committed, for certain.
ImplementsLedger == Ledger!Spec
=============================================================================
