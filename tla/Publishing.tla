----------------------------- MODULE Publishing -----------------------------
(***************************************************************************)
(* One post and its targets: the commands of PostService                   *)
(* (services/src/posts.ts), the execution of a PublishTarget job           *)
(* (apps/api/src/execute-job.ts, packages/worker/publish-target.ts) and    *)
(* the end of a subscription (services/src/subscription-access.ts).        *)
(*                                                                         *)
(* A target's job lives in a durable job object of its own.  What such an  *)
(* object does is the subject of DurableJob; here it is reduced to what    *)
(* JobLedger promises: the last intent of a committed transaction takes    *)
(* effect between two executions, never during one, and none starts while  *)
(* an intent waits.                                                        *)
(*                                                                         *)
(* The database runs at READ COMMITTED.  A transaction that reads rows it  *)
(* does not lock is two steps, the read and the commit, and keeps the lock *)
(* on its own target in between; every other one is a single step.         *)
(***************************************************************************)
EXTENDS Naturals, FiniteSets

CONSTANTS
  Targets,      \* the rows of post_targets that can exist
  First,        \* those the post is created with
  Resumable,    \* those of a platform with an upload session (YOUTUBE)
  Unguarded,    \* those of a platform that does not classify its create call
                \* with fromUnknownCreate (FACEBOOK, INSTAGRAM, THREADS, ...)
  MaxAttempts,  \* DurableJob.maxAttempts
  MaxCommands,  \* bound: commands of users and of the billing webhook
  MaxFaults     \* bound: restarts, failed calls and continuations

ASSUME TargetsAssumption ==
  /\ First \subseteq Targets /\ First # {}
  /\ Resumable \subseteq Targets
  /\ Unguarded \subseteq Targets \ Resumable

ASSUME LimitsAssumption ==
  MaxAttempts \in Nat \ {0} /\ MaxCommands \in Nat /\ MaxFaults \in Nat

VARIABLES
  \* posts
  post,       \* posts.status
  shelf,      \* "kept", or "deleted" once deleted_at is set
  \* post_targets
  live,       \* the rows that exist
  status,     \* their status
  attempts,   \* the fence: how often the row was acquired
  confirmed,  \* rows whose provider_state holds a PUBLISHED executionOutcome
  session,    \* rows whose provider_state holds an upload session
  stale,      \* rows not updated for 15 minutes
  \* The job object of each target.
  asked,      \* the intent that waits: "nothing", "run" or "cancel"
  job,        \* its active job
  tries,      \* ActiveJob.attempts
  \* The execution in each object, lost by a restart.
  pc,         \* the await it is at
  acquired,   \* the value of the fence it goes by
  verdict,    \* what came of it
  summary,    \* the post status that its open transaction will write
  \* Callers and the payer.
  retrying,   \* targets whose retryTarget call has not enqueued yet
  billing,    \* "active" or "ended"
  commands, faults,  \* the budgets used
  \* The provider, and history.
  created,    \* posts the provider has created for each target
  uploaded,   \* sessions that hold a complete upload
  requests,   \* how often a command put the target up for publication
  unasked     \* targets that were put up without a job: no time was given, it
              \* was taken away, or the command died before it asked for one

postVars == <<post, shelf>>
rowVars  == <<live, status, attempts, confirmed, session, stale>>
jobVars  == <<asked, job, tries>>
runVars  == <<pc, acquired, verdict, summary>>
userVars == <<retrying, billing, commands>>
histVars == <<created, uploaded, requests, unasked>>
vars     == <<postVars, rowVars, jobVars, runVars, userVars, faults, histVars>>

TargetStatuses == {"pending", "publishing", "published", "failed"}
PostStatuses == {"draft", "scheduled", "publishing", "published",
                 "partially_failed", "failed"}
JobStatuses == {"none", "pending", "failing", "done", "gaveup"}
Places == {"idle", "gate", "load", "acquire", "call", "created", "persist",
           "settle", "refuse", "roll", "giveup", "answer"}
Verdicts == {"none", "nothing", "later", "thrown", "published", "retryable",
             "failed", "refused", "uncertain", "gaveup"}

TypeOK ==
  /\ post \in PostStatuses
  /\ shelf \in {"kept", "deleted"}
  /\ live \subseteq Targets
  /\ status \in [Targets -> TargetStatuses]
  /\ attempts \in [Targets -> Nat]
  /\ confirmed \subseteq Targets
  /\ session \subseteq Resumable
  /\ stale \subseteq Targets
  /\ asked \in [Targets -> {"nothing", "run", "cancel"}]
  /\ job \in [Targets -> JobStatuses]
  /\ tries \in [Targets -> 0..MaxAttempts]
  /\ pc \in [Targets -> Places]
  /\ acquired \in [Targets -> Nat]
  /\ verdict \in [Targets -> Verdicts]
  /\ summary \in [Targets -> PostStatuses \cup {"none"}]
  /\ retrying \subseteq Targets
  /\ billing \in {"active", "ended"}
  /\ commands \in 0..MaxCommands
  /\ faults \in 0..MaxFaults
  /\ created \in [Targets -> Nat]
  /\ uploaded \subseteq Resumable
  /\ requests \in [Targets -> Nat]
  /\ unasked \subseteq Targets

-----------------------------------------------------------------------------
(* Statuses and intents.                                                   *)

\* Fault: what is not published yet is not looked at.
RollupHopeful(statuses) ==
  CASE "publishing" \in statuses -> "publishing"
    [] {"published", "failed"} \subseteq statuses
       /\ "publishing" \notin statuses -> "partially_failed"
    [] "published" \in statuses
       /\ {"publishing", "failed"} \cap statuses = {} -> "published"
    [] statuses = {"failed"} -> "failed"
    [] OTHER -> "scheduled"

\* rollupPostStatus, for a post that is not under review.
Rollup(statuses) ==
  CASE "publishing" \in statuses -> "publishing"
    [] statuses = {"published"} -> "published"
    [] {"published", "failed"} \subseteq statuses
       /\ "publishing" \notin statuses -> "partially_failed"
    [] statuses = {"failed"} -> "failed"
    [] OTHER -> "scheduled"

\* The rollup that a transaction sees which has given target t the status s:
\* of the other targets it reads what is committed.
Summary(t, s) ==
  Rollup({IF u = t THEN s ELSE status[u] : u \in live})

\* A transaction of t's execution has updated the row and not yet committed.
Locked(t) == pc[t] = "roll"

\* Intents sent to the objects of the targets in S.
Ask(S, intent) ==
  asked' = [t \in Targets |-> IF t \in S THEN intent ELSE asked[t]]

Request(S) ==
  requests' = [t \in Targets |-> IF t \in S THEN requests[t] + 1
                                            ELSE requests[t]]

SetStatus(S, s) ==
  /\ status' = [t \in Targets |-> IF t \in S THEN s ELSE status[t]]
  /\ stale' = stale \ S

-----------------------------------------------------------------------------
(* PostService.                                                            *)

\* create: a draft, a schedule for some of the targets, or publish_now.
Init ==
  /\ \/ post = "draft" /\ asked = [t \in Targets |-> "nothing"]
     \/ /\ post = "publishing"
        /\ asked = [t \in Targets |-> IF t \in First THEN "run" ELSE "nothing"]
     \/ /\ post = "scheduled"
        /\ \E S \in SUBSET First \ {{}} :
             asked = [t \in Targets |-> IF t \in S THEN "run" ELSE "nothing"]
  /\ shelf = "kept"
  /\ live = First
  /\ status = [t \in Targets |-> "pending"]
  /\ attempts = [t \in Targets |-> 0]
  /\ confirmed = {}
  /\ session = {}
  /\ stale = {}
  /\ job = [t \in Targets |-> "none"]
  /\ tries = [t \in Targets |-> 0]
  /\ pc = [t \in Targets |-> "idle"]
  /\ acquired = [t \in Targets |-> 0]
  /\ verdict = [t \in Targets |-> "none"]
  /\ summary = [t \in Targets |-> "none"]
  /\ retrying = {}
  /\ billing = "active"
  /\ commands = 0
  /\ faults = 0
  /\ created = [t \in Targets |-> 0]
  /\ uploaded = {}
  /\ requests = [t \in Targets |-> IF asked[t] = "run" THEN 1 ELSE 0]
  /\ unasked = {t \in First : asked[t] = "nothing"}

Command == commands < MaxCommands /\ commands' = commands + 1

\* update: every target row is replaced and every job cancelled, whatever the
\* targets are doing.
Replace(S) ==
  /\ Command
  /\ shelf = "kept"
  /\ live = First
  /\ Targets # First
  /\ \A t \in live : ~Locked(t)
  /\ live' = Targets \ First
  /\ asked' = [t \in Targets |-> IF t \in live THEN "cancel"
                                 ELSE IF t \in S THEN "run" ELSE asked[t]]
  /\ post' = IF S = {} THEN "draft" ELSE "scheduled"
  /\ Request(S)
  /\ unasked' = live' \ S
  /\ UNCHANGED <<shelf, status, attempts, confirmed, session, stale, job, tries,
                 runVars, retrying, billing, faults, created, uploaded>>

\* remove
Remove ==
  /\ Command
  /\ shelf = "kept"
  /\ shelf' = "deleted"
  /\ Ask(live, "cancel")
  /\ UNCHANGED <<post, rowVars, job, tries, runVars, retrying, billing, faults,
                 histVars>>

\* retryTarget, first statement: it commits on its own.
Retry(t) ==
  /\ Command
  /\ t \in live
  /\ status[t] = "failed"
  /\ ~Locked(t)
  /\ SetStatus({t}, "pending")
  /\ retrying' = retrying \cup {t}
  /\ Request({t})
  /\ UNCHANGED <<postVars, live, attempts, confirmed, session, jobVars, runVars,
                 billing, faults, created, uploaded, unasked>>

\* retryTarget, second statement; it may never be reached.
RetryEnqueues(t) ==
  /\ t \in retrying
  /\ retrying' = retrying \ {t}
  /\ Ask({t}, "run")
  /\ unasked' = unasked \ {t}
  /\ UNCHANGED <<postVars, rowVars, job, tries, runVars, billing, commands,
                 faults, created, uploaded, requests>>

RetryDies(t) ==
  /\ t \in retrying
  /\ faults < MaxFaults
  /\ faults' = faults + 1
  /\ retrying' = retrying \ {t}
  /\ unasked' = unasked \cup {t}
  /\ UNCHANGED <<postVars, rowVars, jobVars, runVars, billing, commands,
                 created, uploaded, requests>>

\* A publishing or published target cannot be edited.
Editable(t) == t \in live /\ status[t] \notin {"publishing", "published"}

\* updateTarget with a new time, with none, or without a word about it.
EditTarget(t, plan) ==
  /\ Command
  /\ shelf = "kept"
  /\ Editable(t)
  /\ ~Locked(t)
  /\ SetStatus({t}, "pending")
  /\ CASE plan = "schedule"   -> Ask({t}, "run")
       [] plan = "unschedule" -> Ask({t}, "cancel")
       [] plan = "keep"       -> UNCHANGED asked
  /\ unasked' = IF plan = "schedule" THEN unasked \ {t}
                ELSE IF plan = "unschedule" \/ status[t] = "failed"
                       THEN unasked \cup {t} ELSE unasked
  /\ Request({t})
  /\ UNCHANGED <<postVars, live, attempts, confirmed, session, job, tries,
                 runVars, retrying, billing, faults, created, uploaded>>

PublishNow ==
  /\ Command
  /\ shelf = "kept"
  /\ post \notin {"publishing", "published"}
  /\ live # {}
  /\ \A t \in live : ~Locked(t)
  /\ post' = "publishing"
  /\ SetStatus(live, "pending")
  /\ Ask(live, "run")
  /\ Request(live)
  /\ unasked' = unasked \ live
  /\ UNCHANGED <<shelf, live, attempts, confirmed, session, job, tries, runVars,
                 retrying, billing, faults, created, uploaded>>

\* A billing webhook ends or restores the subscription.
ChangeBilling ==
  /\ Command
  /\ billing' = IF billing = "active" THEN "ended" ELSE "active"
  /\ UNCHANGED <<postVars, rowVars, jobVars, runVars, retrying, faults, histVars>>

\* It ends a subscription whose cancellation was scheduled.
StopBilledWorkspaceWork ==
  /\ Command
  /\ billing' = "ended"
  /\ \A t \in live : ~Locked(t)
  /\ post' = IF post \in {"scheduled", "publishing"} THEN "failed" ELSE post
  /\ SetStatus({t \in live : status[t] \in {"pending", "publishing"}}, "failed")
  /\ UNCHANGED <<shelf, live, attempts, confirmed, session, jobVars, runVars,
                 retrying, faults, histVars>>

-----------------------------------------------------------------------------
(* The job object, reduced to what JobLedger promises.                     *)

Fault == faults < MaxFaults /\ faults' = faults + 1

Go(t, place) == pc' = [pc EXCEPT ![t] = place]

\* The program has its outcome v and goes on at place with it.
Conclude(t, v, place) ==
  /\ verdict' = [verdict EXCEPT ![t] = v]
  /\ Go(t, place)

\* Nothing of the execution is left.
Rest(t) ==
  /\ Go(t, "idle")
  /\ acquired' = [acquired EXCEPT ![t] = 0]
  /\ verdict' = [verdict EXCEPT ![t] = "none"]
  /\ summary' = [summary EXCEPT ![t] = "none"]

SetJob(t, s, n) ==
  /\ job' = [job EXCEPT ![t] = s]
  /\ tries' = [tries EXCEPT ![t] = n]

\* The waiting intent replaces the job.
TakeRequest(t) ==
  /\ pc[t] = "idle"
  /\ asked[t] # "nothing"
  /\ asked' = [asked EXCEPT ![t] = "nothing"]
  /\ SetJob(t, IF asked[t] = "run" THEN "pending" ELSE "none", 0)
  /\ UNCHANGED <<postVars, rowVars, runVars, userVars, faults, histVars>>

AttemptLeft(t) == tries[t] < MaxAttempts

ClaimRun(t) ==
  /\ pc[t] = "idle"
  /\ asked[t] = "nothing"
  /\ job[t] = "pending"
  /\ AttemptLeft(t)
  /\ SetJob(t, "pending", tries[t] + 1)
  /\ Go(t, "gate")
  /\ UNCHANGED <<postVars, rowVars, asked, acquired, verdict, summary, userVars,
                 faults, histVars>>

\* Fault: a job whose last attempt was cut short by a restart is overlooked.
OutOfAttemptsFailing(t) == job[t] = "failing"

OutOfAttempts(t) ==
  job[t] \in {"pending", "failing"} /\ tries[t] = MaxAttempts

ClaimExhausted(t) ==
  /\ pc[t] = "idle"
  /\ asked[t] = "nothing"
  /\ OutOfAttempts(t)
  /\ SetJob(t, "failing", tries[t])
  /\ Go(t, "giveup")
  /\ UNCHANGED <<postVars, rowVars, asked, acquired, verdict, summary, userVars,
                 faults, histVars>>

\* Fault: the time at which to look again is not passed on.
AgainNever(v) == FALSE

\* Outcomes with which the program returns a time 15 minutes away, or that of
\* the provider.
Again(v) == v \in {"later", "uncertain"}

\* The execution has answered: the job ends, continues later, is tried again or
\* begins to fail.
Answer(t) ==
  /\ pc[t] = "answer"
  /\ Rest(t)
  /\ LET v == verdict[t] IN
     IF job[t] = "failing"
       THEN SetJob(t, IF v = "thrown" THEN "failing" ELSE "gaveup", tries[t])
     ELSE IF v \in {"thrown", "retryable"}
       THEN SetJob(t, IF tries[t] = MaxAttempts THEN "failing" ELSE "pending",
                   tries[t])
     ELSE SetJob(t, IF Again(v) THEN "pending" ELSE "done", 0)
  /\ UNCHANGED <<postVars, rowVars, asked, userVars, faults, histVars>>

-----------------------------------------------------------------------------
(* executeJob and publishTarget.                                           *)

\* Is the workspace's subscription active?
Gate(t) ==
  /\ pc[t] = "gate"
  /\ IF billing = "active" THEN Go(t, "load") /\ UNCHANGED verdict
                           ELSE Conclude(t, "thrown", "answer")
  /\ UNCHANGED <<postVars, rowVars, jobVars, acquired, summary, userVars, faults,
                 histVars>>

\* Fault: an outcome on record is not looked at.
OnRecordNever(t) == FALSE

OnRecord(t) == t \in confirmed

\* The row as it is now: nothing to do, an outcome on record to finalize, or
\* something to publish, unless its content is not valid.
Load(t) ==
  /\ pc[t] = "load"
  /\ \/ /\ \/ shelf = "deleted"
           \/ t \notin live
           \/ status[t] = "published"
           \/ status[t] = "failed" /\ ~OnRecord(t)
        /\ Conclude(t, "nothing", "answer")
        /\ UNCHANGED acquired
     \/ /\ shelf = "kept"
        /\ t \in live
        /\ status[t] # "published"
        /\ OnRecord(t)
        /\ Conclude(t, "published", "settle")
        /\ acquired' = [acquired EXCEPT ![t] = attempts[t]]
     \/ /\ shelf = "kept"
        /\ t \in live
        /\ status[t] \in {"pending", "publishing"}
        /\ ~OnRecord(t)
        /\ \/ Go(t, "acquire") /\ UNCHANGED verdict
           \/ Conclude(t, "refused", "refuse")
        /\ UNCHANGED acquired
  /\ UNCHANGED <<postVars, rowVars, jobVars, summary, userVars, faults, histVars>>

\* Fault: a lease that ran out is taken over, whatever became of its holder.
AbandonedNever(t) == FALSE

\* The attempt that held the row is gone and nobody knows what it did; an upload
\* session can be asked.
Abandoned(t) ==
  status[t] = "publishing" /\ t \in stale /\ t \notin session

\* Take the row: one that waits, or one whose holder has been silent for 15
\* minutes.
Acquire(t) ==
  /\ pc[t] = "acquire"
  /\ t \in live
  /\ status[t] = "pending" \/ (status[t] = "publishing" /\ t \in stale)
  /\ ~Abandoned(t)
  /\ SetStatus({t}, "publishing")
  /\ attempts' = [attempts EXCEPT ![t] = attempts[t] + 1]
  /\ acquired' = [acquired EXCEPT ![t] = attempts[t] + 1]
  /\ post' = "publishing"
  /\ Go(t, "call")
  /\ UNCHANGED <<shelf, live, confirmed, session, jobVars, verdict, summary,
                 userVars, faults, histVars>>

\* failBeforePublish, in the transaction that found the row abandoned.
AcquireAbandoned(t) ==
  /\ pc[t] = "acquire"
  /\ t \in live
  /\ Abandoned(t)
  /\ summary' = [summary EXCEPT ![t] = Summary(t, "failed")]
  /\ Conclude(t, "uncertain", "roll")
  /\ UNCHANGED <<postVars, rowVars, jobVars, acquired, userVars, faults,
                 histVars>>

\* The row is gone or somebody else's: look again in 15 minutes.
AcquireNot(t) ==
  /\ pc[t] = "acquire"
  /\ \/ t \notin live
     \/ status[t] \in {"published", "failed"}
     \/ status[t] = "publishing" /\ t \notin stale
  /\ Conclude(t, "later", "answer")
  /\ UNCHANGED <<postVars, rowVars, jobVars, acquired, summary, userVars, faults,
                 histVars>>

\* The fence of everything written during the attempt.
Holds(t) ==
  t \in live /\ status[t] = "publishing" /\ attempts[t] = acquired[t]

\* resolveMediaUrls fails.
ResolveFails(t) ==
  /\ pc[t] = "call"
  /\ Conclude(t, "refused", "refuse")
  /\ UNCHANGED <<postVars, rowVars, jobVars, acquired, summary, userVars, faults,
                 histVars>>

\* persistProviderState(session), before any byte is sent.
OpenSession(t) ==
  /\ pc[t] = "call"
  /\ t \in Resumable \ session
  /\ Holds(t)
  /\ session' = session \cup {t}
  /\ stale' = stale \ {t}
  /\ UNCHANGED <<postVars, live, status, attempts, confirmed, jobVars, runVars,
                 userVars, faults, histVars>>

\* The provider creates the post; a complete upload is not created again.
Create(t) ==
  /\ pc[t] = "call"
  /\ t \in Resumable => t \in session
  /\ IF t \in uploaded
       THEN UNCHANGED <<created, uploaded>>
       ELSE /\ created' = [created EXCEPT ![t] = created[t] + 1]
            /\ uploaded' = IF t \in Resumable THEN uploaded \cup {t}
                                              ELSE uploaded
  /\ Go(t, "created")
  /\ UNCHANGED <<postVars, rowVars, jobVars, acquired, verdict, summary, userVars,
                 faults, requests, unasked>>

\* The provider, or its adapter, reports a failure without having created it.
Reject(t) ==
  /\ pc[t] = "call"
  /\ \E v \in {"retryable", "failed"} : Conclude(t, v, "settle")
  /\ UNCHANGED <<postVars, rowVars, jobVars, acquired, summary, userVars, faults,
                 histVars>>

\* 404 and 410 are final.
SessionVerdict == "failed"

\* The upload session has expired.
SessionGone(t) ==
  /\ pc[t] = "call"
  /\ t \in session
  /\ Holds(t)
  /\ session' = session \ {t}
  /\ uploaded' = uploaded \ {t}
  /\ stale' = stale \ {t}
  /\ Conclude(t, SessionVerdict, "settle")
  /\ UNCHANGED <<postVars, live, status, attempts, confirmed, jobVars, acquired,
                 summary, userVars, faults, created, requests, unasked>>

\* CONTINUE: the provider needs more time; the row is given back.
Continue(t) ==
  /\ pc[t] = "call"
  /\ Fault
  /\ IF Holds(t) THEN SetStatus({t}, "pending") ELSE UNCHANGED <<status, stale>>
  /\ Conclude(t, "later", "answer")
  /\ UNCHANGED <<postVars, live, attempts, confirmed, session, jobVars, acquired,
                 summary, userVars, histVars>>

\* Its answer is lost: fromUnknownCreate makes that final, fromUnknownHttp a
\* reason to try again, which is safe where a session can be asked.
AnswerLost(t) ==
  /\ pc[t] = "created"
  /\ Conclude(t, IF t \in Resumable \cup Unguarded THEN "retryable" ELSE "failed",
              "settle")
  /\ UNCHANGED <<postVars, rowVars, jobVars, acquired, summary, userVars, faults,
                 histVars>>

AnswerArrives(t) ==
  /\ pc[t] = "created"
  /\ Conclude(t, "published", "persist")
  /\ UNCHANGED <<postVars, rowVars, jobVars, acquired, summary, userVars, faults,
                 histVars>>

\* "Persist the confirmed result before ancillary work can fail."
Persist(t) ==
  /\ pc[t] = "persist"
  /\ IF Holds(t)
       THEN /\ confirmed' = confirmed \cup {t}
            /\ stale' = stale \ {t}
            /\ Go(t, "settle")
            /\ UNCHANGED verdict
       ELSE /\ Conclude(t, "thrown", "answer")
            /\ UNCHANGED <<confirmed, stale>>
  /\ UNCHANGED <<postVars, live, status, attempts, session, jobVars, acquired,
                 summary, userVars, faults, histVars>>

-----------------------------------------------------------------------------
(* finalizeOutcome, failBeforePublish and failJob.                         *)

\* The status that an outcome gives the target.
StatusAfter(v) ==
  CASE v = "published" -> "published"
    [] v = "retryable" -> "pending"
    [] OTHER           -> "failed"

\* Fault: only the attempt that still holds the row may settle it.
FenceStrict(t) ==
  t \in live /\ status[t] = "publishing" /\ attempts[t] = acquired[t]

\* A row marked failed meanwhile is still settled; a republished one is not.
Fence(t) ==
  /\ t \in live
  /\ status[t] \in {"pending", "publishing", "failed"}
  /\ attempts[t] = acquired[t]

\* finalizeOutcome: lock and update the row, read the others.
Settle(t) ==
  /\ pc[t] = "settle"
  /\ IF Fence(t)
       THEN /\ summary' = [summary EXCEPT
                             ![t] = Summary(t, StatusAfter(verdict[t]))]
            /\ Go(t, "roll")
            /\ UNCHANGED verdict
       ELSE Conclude(t, "thrown", "answer") /\ UNCHANGED summary
  /\ UNCHANGED <<postVars, rowVars, jobVars, acquired, userVars, faults, histVars>>

\* failBeforePublish: the same, whatever the row says now.
Refuse(t) ==
  /\ pc[t] = "refuse"
  /\ summary' = [summary EXCEPT ![t] = Summary(t, "failed")]
  /\ Go(t, "roll")
  /\ UNCHANGED <<postVars, rowVars, jobVars, acquired, verdict, userVars, faults,
                 histVars>>

GivesUp(t) == t \in live /\ status[t] \in {"pending", "publishing"}

\* failJob: a confirmed outcome is finalized instead.
GiveUp(t) ==
  /\ pc[t] = "giveup"
  /\ \/ /\ OnRecord(t)
        /\ Go(t, "load")
        /\ UNCHANGED <<verdict, summary>>
     \/ /\ ~OnRecord(t)
        /\ GivesUp(t)
        /\ summary' = [summary EXCEPT ![t] = Summary(t, "failed")]
        /\ Conclude(t, "gaveup", "roll")
     \/ /\ ~OnRecord(t)
        /\ ~GivesUp(t)
        /\ Conclude(t, "gaveup", "answer")
        /\ UNCHANGED summary
  /\ UNCHANGED <<postVars, rowVars, jobVars, acquired, userVars, faults, histVars>>

\* The transaction commits: the target's status and the post's.
Roll(t) ==
  /\ pc[t] = "roll"
  /\ IF t \in live THEN SetStatus({t}, StatusAfter(verdict[t]))
                   ELSE UNCHANGED <<status, stale>>
  /\ post' = summary[t]
  /\ Go(t, "answer")
  /\ UNCHANGED <<shelf, live, attempts, confirmed, session, jobVars, acquired,
                 verdict, summary, userVars, faults, histVars>>

-----------------------------------------------------------------------------
(* Time and failures.                                                      *)

\* 15 minutes pass without a write to the row.  It matters to the next
\* execution only, so it may as well happen between two.
Age(t) ==
  /\ pc[t] = "idle"
  /\ t \in live \ stale
  /\ status[t] = "publishing"
  /\ stale' = stale \cup {t}
  /\ UNCHANGED <<postVars, live, status, attempts, confirmed, session, jobVars,
                 runVars, userVars, faults, histVars>>

\* A statement fails, or its transaction is the victim of a deadlock.
Throw(t) ==
  /\ pc[t] \in {"gate", "load", "acquire", "persist", "settle", "refuse", "roll",
                "giveup"}
  /\ Fault
  /\ Conclude(t, "thrown", "answer")
  /\ UNCHANGED <<postVars, rowVars, jobVars, acquired, summary, userVars,
                 histVars>>

\* The object restarts.
Crash(t) ==
  /\ pc[t] # "idle"
  /\ Fault
  /\ Rest(t)
  /\ UNCHANGED <<postVars, rowVars, jobVars, userVars, histVars>>

-----------------------------------------------------------------------------
Commands ==
  \/ \E S \in SUBSET (Targets \ First) : Replace(S)
  \/ Remove
  \/ \E t \in Targets : Retry(t)
  \/ \E t \in Targets, plan \in {"schedule", "unschedule", "keep"} :
       EditTarget(t, plan)
  \/ PublishNow
  \/ ChangeBilling
  \/ StopBilledWorkspaceWork

\* The object of t serves its intents and runs its job.
Serve(t) == TakeRequest(t) \/ ClaimRun(t) \/ ClaimExhausted(t) \/ Answer(t)

\* The provider answers in the end; it need not create anything.
Provider(t) ==
  \/ ResolveFails(t) \/ OpenSession(t) \/ Create(t) \/ Reject(t)
  \/ SessionGone(t) \/ AnswerLost(t) \/ AnswerArrives(t)

\* The steps of the execution itself.
Execute(t) ==
  \/ Gate(t) \/ Load(t) \/ Acquire(t) \/ AcquireAbandoned(t) \/ AcquireNot(t)
  \/ Persist(t) \/ Settle(t) \/ Refuse(t) \/ GiveUp(t) \/ Roll(t)

Next ==
  \/ Commands
  \/ \E t \in Targets :
       \/ RetryEnqueues(t) \/ RetryDies(t)
       \/ Serve(t) \/ Execute(t) \/ Provider(t) \/ Continue(t)
       \/ Age(t) \/ Throw(t) \/ Crash(t)

Spec == Init /\ [][Next]_vars

\* An object's alarm keeps firing, awaited calls return, and time passes: an
\* object that looks again every 15 minutes finds the row aged.
Fairness ==
  \A t \in Targets :
    /\ WF_vars(Serve(t) \/ Execute(t) \/ Provider(t))
    /\ SF_vars(Age(t))

FairSpec == Spec /\ Fairness

-----------------------------------------------------------------------------
(* Safety.                                                                 *)

\* An uncertain outcome never becomes a second post by itself: through restarts,
\* lost answers, retries and lapsed leases the provider creates at most one post
\* for each time a command put the target up for publication, on every platform
\* that classifies its create call (publish-target.ts, failBeforePublish of an
\* abandoned row; errors.ts, fromUnknownCreate).
OneCreationPerRequest ==
  \A t \in Targets \ Unguarded : created[t] <= requests[t]

\* No intent waits for t and its job has come to its end.
Ended(t) ==
  /\ t \in live
  /\ shelf = "kept"
  /\ asked[t] = "nothing"
  /\ pc[t] = "idle"
  /\ job[t] \in {"done", "gaveup"}

\* A job never ends, in success or in failure, and leaves its target
\* "publishing": nothing else would ever move the target on.
NeverLeftPublishing ==
  \A t \in Targets : Ended(t) => status[t] # "publishing"

\* A job for t is waiting or will be tried again.
Served(t) ==
  \/ asked[t] = "run"
  \/ asked[t] = "nothing" /\ job[t] \in {"pending", "failing"}

\* Nothing is stranded: a row that is to be published has a job, or the command
\* that put it up is about to ask for one, unless it was put up without: through
\* restarts, lapsed attempts, attempts used up, edits and cancellations under
\* way, a retry whose service dies (posts.ts, retryTarget) and an update that
\* gives no time (updateTarget) are the only ways to lose one.  A row that is
\* "publishing" then has had its job withdrawn.
NoneIsStranded ==
  \A t \in live :
    /\ shelf = "kept" /\ status[t] = "pending" =>
         Served(t) \/ t \in retrying \cup unasked
    /\ shelf = "kept" /\ status[t] = "publishing" =>
         \/ Served(t)
         \/ t \in unasked /\ (asked[t] = "cancel" \/ job[t] = "none")

\* A publication on record is never lost: when the job has ended, even as a
\* failure or after the subscription ended, the target is "published"
\* (failJob's check of executionOutcome).
ConfirmedIsPublished ==
  \A t \in Targets : Ended(t) /\ t \in confirmed => status[t] = "published"

\* A post is only called published when all of its targets are, whatever the
\* order in which their transactions read and wrote (finalizeOutcome and its
\* rollup).  It is not said of a post whose targets were replaced while they
\* were being published: the transaction of a deleted row locks nothing.
PublishedMeansAll ==
  live = First /\ post = "published" => \A t \in live : status[t] = "published"

\* Only publishing the whole post anew takes a published target back, and then
\* its job is asked to run again.
PublishedIsFinal ==
  [][\A t \in live \cap live' :
       status[t] = "published" /\ status'[t] # "published" =>
         status'[t] = "pending" /\ asked'[t] = "run" /\ post' = "publishing"]_vars

-----------------------------------------------------------------------------
(* What the owner of a target is promised: Publication.                    *)

Promise == INSTANCE Publication WITH
  Guarded  <- Targets \ Unguarded,
  orders   <- requests,
  made     <- created,
  recorded <- confirmed,
  shown    <- {t \in Targets : status[t] = "published"}

\* Every step of the commands, the executions and the provider is one that
\* Publication allows, or none: a target is created for a command and with
\* nothing on record, recorded when it was created, shown when it is on record,
\* and taken back by a command only.
ImplementsPublication == Promise!Spec

-----------------------------------------------------------------------------
(* Liveness.                                                               *)

\* A target that is to be published is published or fails in the end, unless
\* it is deleted or its job is cancelled.
RequestsSettle ==
  \A t \in Targets :
    (asked[t] = "run" ~> \/ status[t] \in {"published", "failed"}
                         \/ t \notin live
                         \/ shelf = "deleted"
                         \/ asked[t] = "cancel")

\* A recorded publication is shown in the end.
ConfirmedSettles ==
  \A t \in Targets :
    (t \in confirmed ~> \/ status[t] = "published"
                        \/ t \notin live
                        \/ shelf = "deleted"
                        \/ job[t] = "none")

-----------------------------------------------------------------------------
(* What documentation and comments say and the code does not do.           *)

Settled ==
  \A t \in live :
    /\ pc[t] = "idle"
    /\ asked[t] = "nothing"
    /\ status[t] \in {"published", "failed"}

\* "Post state summarizes its targets" (publishing-lifecycle.mdx), at least
\* when all of them have come to rest.
PostSummarizesTargets ==
  Settled => post = Rollup({status[t] : t \in live})

\* "A partially failed post can have both published and failed targets"
\* (publishing-lifecycle.mdx), which a failed one therefore cannot.
FailedMeansNone ==
  Settled /\ post = "failed" => \A t \in live : status[t] # "published"

\* "All cross-row changes are atomic" (posts.ts): a retry that has changed the
\* target also reaches its job.
RetryIsAtomic ==
  [][\A t \in Targets :
       t \in retrying /\ t \notin retrying' => asked'[t] = "run"]_vars

\* "Each social target has its own durable publishing state and idempotent
\* provider key" (publishing-lifecycle.mdx): one request, one post.
IdempotentTargets == \A t \in Targets : created[t] <= requests[t]

\* "A persisted retry protects interruption during [...] execution"
\* (durable-job.ts): an interrupted execution is taken up again.
InterruptionIsProtected ==
  \A t \in live :
    shelf = "kept" /\ status[t] = "publishing" /\ pc[t] = "idle" =>
      asked[t] = "run" \/ job[t] \in {"pending", "failing"}
=============================================================================
