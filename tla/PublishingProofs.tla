-------------------------- MODULE PublishingProofs --------------------------
(***************************************************************************)
(* The safety of publication for every set of targets, every limit and any *)
(* number of commands and failures.                                        *)
(***************************************************************************)
EXTENDS Publishing, TLAPS

(***************************************************************************)
(* The inductive invariant, part by part for one target.  Its heart is     *)
(* Credit: what the provider has created and what it may still be asked to *)
(* create without a new command is never more than the commands given.     *)
(***************************************************************************)

\* Places at which an attempt works on a row that it found unpublished.
Working == {"acquire", "call", "created", "persist", "settle", "refuse", "roll"}

\* Outcomes with which a job ends.
Final == {"nothing", "published", "failed", "refused", "gaveup"}

\* A target that only an update can bring to life.
Fresh(t) ==
  live = First /\ t \notin First =>
    /\ pc[t] = "idle" /\ job[t] = "none" /\ asked[t] = "nothing"
    /\ t \notin retrying

\* Where an execution is, what its outcome can be, and the state of its job.
Stage(t) ==
  /\ pc[t] \in {"idle", "gate", "load", "acquire", "call", "created", "giveup"} =>
       verdict[t] = "none"
  /\ pc[t] = "persist" => verdict[t] = "published"
  /\ pc[t] = "settle" => verdict[t] \in {"published", "retryable", "failed"}
  /\ pc[t] = "refuse" => verdict[t] = "refused"
  /\ pc[t] = "created" /\ t \in Resumable => t \in session
  /\ pc[t] = "roll" =>
       /\ verdict[t] \in {"published", "retryable", "failed", "refused",
                          "uncertain", "gaveup"}
       /\ summary[t] # "none"
  /\ pc[t] = "answer" => verdict[t] # "none"
  /\ pc[t] # "idle" => job[t] \in {"pending", "failing"}
  /\ pc[t] = "giveup" => job[t] = "failing"

\* A job that is failing only finalizes what is on record.
Failing(t) ==
  job[t] = "failing" =>
    /\ pc[t] \in {"idle", "giveup", "load", "settle", "roll", "answer"}
    /\ verdict[t] \in {"none", "nothing", "published", "gaveup", "thrown"}
    /\ pc[t] = "load" => OnRecord(t)

\* An attempt is only made, and only fails, with nothing on record.
Unrecorded(t) ==
  \/ pc[t] \in {"acquire", "call", "created", "persist", "refuse"}
  \/ verdict[t] \in {"refused", "failed", "gaveup", "uncertain", "retryable"}
  => ~OnRecord(t)

\* Nobody publishes the row under an attempt.
Unpublished(t) ==
  pc[t] \in Working /\ t \in live => status[t] # "published"

\* What is true when an execution ends its job stays true.
Closed(t) ==
  /\ t \in live
  /\ shelf = "kept"
  /\ \/ pc[t] = "answer" /\ verdict[t] \in Final
     \/ pc[t] = "idle" /\ job[t] \in {"done", "gaveup"}
  => /\ status[t] # "publishing"
     /\ OnRecord(t) /\ asked[t] = "nothing" => status[t] = "published"

\* Nothing happens that nobody asked for.
Asked(t) ==
  \/ asked[t] = "run"
  \/ job[t] # "none"
  \/ t \in retrying
  \/ created[t] > 0
  => requests[t] > 0

\* A session outlives its upload.
Uploads == uploaded \subseteq session

\* One if b holds, and none otherwise.
Flag(b) == IF b THEN 1 ELSE 0

\* The creations that t may still make without another command.
Due(t) ==
  IF t \in session
    THEN Flag(t \notin uploaded)
    ELSE Flag(status[t] = "pending") + Flag(pc[t] = "call")
         + Flag(pc[t] \in {"settle", "roll"} /\ verdict[t] = "retryable")

Credit(t) ==
  t \notin Unguarded =>
    created[t] + Due(t) <= IF requests[t] = 0 THEN 1 ELSE requests[t]

TargetInv(t) ==
  /\ Fresh(t) /\ Stage(t) /\ Failing(t) /\ Unrecorded(t) /\ Unpublished(t)
  /\ Closed(t) /\ Asked(t) /\ Credit(t)

IInv ==
  /\ TypeOK
  /\ Uploads
  /\ \A t \in Targets : TargetInv(t)

\* A post that is called published is, without regard to an update.
AllPublished ==
  post = "published" => \A t \in live : status[t] = "published"

\* While no target is replaced: a rollup to "published" is right when it is
\* read, and its transaction keeps it right until it commits.
Together ==
  /\ live = Targets
  /\ AllPublished
  /\ \A t \in Targets : pc[t] = "roll" /\ summary[t] = "published" =>
       /\ StatusAfter(verdict[t]) = "published"
       /\ \A u \in Targets \ {t} : status[u] = "published"
-----------------------------------------------------------------------------
\* The step does not touch what the invariant says of t.
Untouched(t) ==
  /\ status'[t] = status[t] /\ asked'[t] = asked[t] /\ job'[t] = job[t]
  /\ pc'[t] = pc[t] /\ verdict'[t] = verdict[t] /\ summary'[t] = summary[t]
  /\ created'[t] = created[t] /\ requests'[t] = requests[t]
  /\ (t \in retrying') = (t \in retrying)
  /\ (t \in confirmed') = (t \in confirmed)
  /\ (t \in session') = (t \in session)
  /\ (t \in uploaded') = (t \in uploaded)

\* What an untouched target satisfied it still satisfies.
LEMMA UntouchedInv ==
  ASSUME NEW t \in Targets, TargetInv(t), Untouched(t), live' = live,
         shelf' = "kept" => shelf = "kept"
  PROVE  TargetInv(t)'
<1>1. Fresh(t)' /\ Stage(t)' /\ Failing(t)' /\ Unrecorded(t)'
  BY DEF TargetInv, Untouched, Fresh, Stage, Failing, Unrecorded, OnRecord
<1>2. Unpublished(t)' /\ Closed(t)' /\ Asked(t)'
  BY DEF TargetInv, Untouched, Unpublished, Closed, Asked, OnRecord
<1>3. Credit(t)'
  BY DEF TargetInv, Untouched, Credit, Due, Flag
<1>4. QED
  BY <1>1, <1>2, <1>3 DEF TargetInv


\* A rollup is a status of a post.
LEMMA RollupType ==
  ASSUME NEW S
  PROVE  Rollup(S) \in PostStatuses /\ Rollup(S) # "none"
  BY DEF Rollup, PostStatuses

\* The intent that is taken was asked for; the new job has not ended.
LEMMA TakeRequestIInv ==
  ASSUME IInv, NEW u \in Targets, TakeRequest(u)
  PROVE  IInv'
<1> USE DEF IInv, TypeOK, postVars, rowVars, runVars, userVars, histVars
<1>1. TypeOK'
  BY LimitsAssumption DEF TakeRequest, SetJob, JobStatuses
<1>2. ASSUME NEW t \in Targets \ {u} PROVE TargetInv(t)'
  BY UntouchedInv DEF Untouched, TakeRequest, SetJob
<1>3. TargetInv(u)'
  <2> USE DEF TargetInv, TakeRequest, SetJob
  <2>1. Fresh(u)' /\ Stage(u)' /\ Failing(u)' /\ Unrecorded(u)'
    BY DEF Fresh, Stage, Failing, Unrecorded
  <2>2. Unpublished(u)' /\ Closed(u)'
    BY DEF Unpublished, Closed
  <2>3. Asked(u)'
    BY DEF Asked
  <2>4. Credit(u)'
    BY DEF Credit, Due
  <2>5. QED
    BY <2>1, <2>2, <2>3, <2>4
<1>4. QED
  BY <1>1, <1>2, <1>3 DEF Uploads, TakeRequest

\* An execution starts with a pending job and no outcome.
LEMMA ClaimRunIInv ==
  ASSUME IInv, NEW u \in Targets, ClaimRun(u)
  PROVE  IInv'
<1> USE DEF IInv, TypeOK, postVars, rowVars, userVars, histVars
<1>1. TypeOK'
  BY LimitsAssumption DEF ClaimRun, SetJob, AttemptLeft, Go, Places
<1>2. ASSUME NEW t \in Targets \ {u} PROVE TargetInv(t)'
  BY UntouchedInv DEF Untouched, ClaimRun, SetJob, Go
<1>3. TargetInv(u)'
  <2> USE DEF TargetInv, ClaimRun, SetJob, Go
  <2>1. Fresh(u)' /\ Stage(u)' /\ Failing(u)' /\ Unrecorded(u)'
    BY DEF Fresh, Stage, Failing, Unrecorded
  <2>2. Unpublished(u)' /\ Closed(u)'
    BY DEF Unpublished, Closed, Working, Fresh
  <2>3. Asked(u)'
    BY DEF Asked
  <2>4. Credit(u)'
    BY DEF Credit, Due
  <2>5. QED
    BY <2>1, <2>2, <2>3, <2>4
<1>4. QED
  BY <1>1, <1>2, <1>3 DEF Uploads, ClaimRun

\* A job that begins to give up is failing.
LEMMA ClaimExhaustedIInv ==
  ASSUME IInv, NEW u \in Targets, ClaimExhausted(u)
  PROVE  IInv'
<1> USE DEF IInv, TypeOK, postVars, rowVars, userVars, histVars
<1>1. TypeOK'
  BY DEF ClaimExhausted, SetJob, Go, Places, JobStatuses
<1>2. ASSUME NEW t \in Targets \ {u} PROVE TargetInv(t)'
  BY UntouchedInv DEF Untouched, ClaimExhausted, SetJob, Go
<1>3. TargetInv(u)'
  <2> USE DEF TargetInv, ClaimExhausted, SetJob, OutOfAttempts, Go
  <2>1. Fresh(u)' /\ Stage(u)' /\ Failing(u)' /\ Unrecorded(u)'
    BY DEF Fresh, Stage, Failing, Unrecorded
  <2>2. Unpublished(u)' /\ Closed(u)'
    BY DEF Unpublished, Closed, Working, Fresh
  <2>3. Asked(u)'
    BY DEF Asked
  <2>4. Credit(u)'
    BY DEF Credit, Due
  <2>5. QED
    BY <2>1, <2>2, <2>3, <2>4
<1>4. QED
  BY <1>1, <1>2, <1>3 DEF Uploads, ClaimExhausted

\* A job ends with a final outcome only, and then Closed already holds.
LEMMA AnswerIInv ==
  ASSUME IInv, NEW u \in Targets, Answer(u)
  PROVE  IInv'
<1> USE DEF IInv, TypeOK, postVars, rowVars, userVars, histVars
<1>1. TypeOK'
  BY LimitsAssumption DEF Answer, SetJob, Rest, Go, Places, Verdicts,
       JobStatuses
<1>2. ASSUME NEW t \in Targets \ {u} PROVE TargetInv(t)'
  BY UntouchedInv DEF Untouched, Answer, SetJob, Rest, Go
<1>3. TargetInv(u)'
  <2> USE DEF TargetInv, Answer, SetJob, Rest, Go, Again
  <2>1. Fresh(u)' /\ Stage(u)' /\ Failing(u)' /\ Unrecorded(u)'
    BY DEF Fresh, Stage, Failing, Unrecorded
  <2>2. Unpublished(u)'
    BY DEF Unpublished, Working
  <2>3. job'[u] \in {"done", "gaveup"} => verdict[u] \in Final
    BY DEF Stage, Failing, Final, Verdicts
  <2>4. Closed(u)'
    BY <2>3 DEF Closed, OnRecord
  <2>5. Asked(u)'
    BY DEF Asked, Stage
  <2>6. Credit(u)'
    BY DEF Credit, Due
  <2>7. QED
    BY <2>1, <2>2, <2>4, <2>5, <2>6
<1>4. QED
  BY <1>1, <1>2, <1>3 DEF Uploads, Answer

\* Either way the execution is still that of its job.
LEMMA GateIInv ==
  ASSUME IInv, NEW u \in Targets, Gate(u)
  PROVE  IInv'
<1> USE DEF IInv, TypeOK, postVars, rowVars, jobVars, userVars, histVars
<1>1. TypeOK'
  BY DEF Gate, Go, Conclude, Places, Verdicts
<1>2. ASSUME NEW t \in Targets \ {u} PROVE TargetInv(t)'
  BY UntouchedInv DEF Untouched, Gate, Go, Conclude
<1>3. TargetInv(u)'
  <2> USE DEF TargetInv, Gate, Go, Conclude
  <2>1. Fresh(u)' /\ Stage(u)' /\ Failing(u)' /\ Unrecorded(u)'
    BY DEF Fresh, Stage, Failing, Unrecorded
  <2>2. Unpublished(u)' /\ Closed(u)'
    BY DEF Unpublished, Closed, Working, Final, Fresh
  <2>3. Asked(u)'
    BY DEF Asked
  <2>4. Credit(u)'
    BY DEF Credit, Due
  <2>5. QED
    BY <2>1, <2>2, <2>3, <2>4
<1>4. QED
  BY <1>1, <1>2, <1>3 DEF Uploads, Gate

\* What is on record is finalized, and only what is not on record is attempted.
LEMMA LoadIInv ==
  ASSUME IInv, NEW u \in Targets, Load(u)
  PROVE  IInv'
<1> USE DEF IInv, TypeOK, postVars, rowVars, jobVars, userVars, histVars
<1>1. TypeOK'
  BY DEF Load, Go, Conclude, Places, Verdicts
<1>2. ASSUME NEW t \in Targets \ {u} PROVE TargetInv(t)'
  BY UntouchedInv DEF Untouched, Load, Go, Conclude
<1>3. TargetInv(u)'
  <2> USE DEF TargetInv, Load, Go, Conclude, OnRecord
  <2>1. Fresh(u)' /\ Stage(u)' /\ Failing(u)' /\ Unrecorded(u)'
    BY DEF Fresh, Stage, Failing, Unrecorded
  <2>2. Unpublished(u)' /\ Closed(u)'
    BY DEF Unpublished, Closed, Working, Fresh
  <2>3. Asked(u)'
    BY DEF Asked
  <2>4. Credit(u)'
    BY DEF Credit, Due
  <2>5. QED
    BY <2>1, <2>2, <2>3, <2>4
<1>4. QED
  BY <1>1, <1>2, <1>3 DEF Uploads, Load

\* The row's credit passes to the call: a pending row is no longer pending, and a
\* stale one is only taken over with its session.
LEMMA AcquireIInv ==
  ASSUME IInv, NEW u \in Targets, Acquire(u)
  PROVE  IInv'
<1> USE DEF IInv, TypeOK, jobVars, userVars, histVars
<1>1. TypeOK'
  BY DEF Acquire, SetStatus, Go, Places, TargetStatuses, PostStatuses
<1>2. ASSUME NEW t \in Targets \ {u} PROVE TargetInv(t)'
  BY UntouchedInv DEF Untouched, Acquire, SetStatus, Go
<1>3. TargetInv(u)'
  <2> USE DEF TargetInv, Acquire, SetStatus, Go, Abandoned
  <2>1. Fresh(u)' /\ Stage(u)' /\ Failing(u)' /\ Unrecorded(u)'
    BY DEF Fresh, Stage, Failing, Unrecorded, OnRecord
  <2>2. Unpublished(u)' /\ Closed(u)'
    BY DEF Unpublished, Closed
  <2>3. Asked(u)'
    BY DEF Asked
  <2>4. Credit(u)'
    BY DEF Credit, Due, Flag, Asked
  <2>5. QED
    BY <2>1, <2>2, <2>3, <2>4
<1>4. QED
  BY <1>1, <1>2, <1>3 DEF Uploads, Acquire

\* The outcome is uncertain, and nothing is on record.
LEMMA AcquireAbandonedIInv ==
  ASSUME IInv, NEW u \in Targets, AcquireAbandoned(u)
  PROVE  IInv'
<1> USE DEF IInv, TypeOK, postVars, rowVars, jobVars, userVars, histVars
<1>1. TypeOK'
  BY RollupType DEF AcquireAbandoned, Conclude, Go, Summary, Places, Verdicts
<1>2. ASSUME NEW t \in Targets \ {u} PROVE TargetInv(t)'
  BY UntouchedInv DEF Untouched, AcquireAbandoned, Conclude, Go
<1>3. TargetInv(u)'
  <2> USE DEF TargetInv, AcquireAbandoned, Conclude, Go, Summary, Abandoned
  <2>1. Fresh(u)' /\ Stage(u)' /\ Failing(u)' /\ Unrecorded(u)'
    BY RollupType DEF Fresh, Stage, Failing, Unrecorded, OnRecord
  <2>2. Unpublished(u)' /\ Closed(u)'
    BY DEF Unpublished, Closed
  <2>3. Asked(u)'
    BY DEF Asked
  <2>4. Credit(u)'
    BY DEF Credit, Due
  <2>5. QED
    BY <2>1, <2>2, <2>3, <2>4
<1>4. QED
  BY <1>1, <1>2, <1>3 DEF Uploads, AcquireAbandoned

\* The job will look again.
LEMMA AcquireNotIInv ==
  ASSUME IInv, NEW u \in Targets, AcquireNot(u)
  PROVE  IInv'
<1> USE DEF IInv, TypeOK, postVars, rowVars, jobVars, userVars, histVars
<1>1. TypeOK'
  BY DEF AcquireNot, Conclude, Go, Places, Verdicts
<1>2. ASSUME NEW t \in Targets \ {u} PROVE TargetInv(t)'
  BY UntouchedInv DEF Untouched, AcquireNot, Conclude, Go
<1>3. TargetInv(u)'
  <2> USE DEF TargetInv, AcquireNot, Conclude, Go
  <2>1. Fresh(u)' /\ Stage(u)' /\ Failing(u)' /\ Unrecorded(u)'
    BY DEF Fresh, Stage, Failing, Unrecorded
  <2>2. Unpublished(u)' /\ Closed(u)'
    BY DEF Unpublished, Closed, Working, Final, Fresh
  <2>3. Asked(u)'
    BY DEF Asked
  <2>4. Credit(u)'
    BY DEF Credit, Due
  <2>5. QED
    BY <2>1, <2>2, <2>3, <2>4
<1>4. QED
  BY <1>1, <1>2, <1>3 DEF Uploads, AcquireNot

\* The call is given up.
LEMMA ResolveFailsIInv ==
  ASSUME IInv, NEW u \in Targets, ResolveFails(u)
  PROVE  IInv'
<1> USE DEF IInv, TypeOK, postVars, rowVars, jobVars, userVars, histVars
<1>1. TypeOK'
  BY DEF ResolveFails, Conclude, Go, Places, Verdicts
<1>2. ASSUME NEW t \in Targets \ {u} PROVE TargetInv(t)'
  BY UntouchedInv DEF Untouched, ResolveFails, Conclude, Go
<1>3. TargetInv(u)'
  <2> USE DEF TargetInv, ResolveFails, Conclude, Go
  <2>1. Fresh(u)' /\ Stage(u)' /\ Failing(u)' /\ Unrecorded(u)'
    BY DEF Fresh, Stage, Failing, Unrecorded, OnRecord
  <2>2. Unpublished(u)' /\ Closed(u)'
    BY DEF Unpublished, Closed, Working, Fresh
  <2>3. Asked(u)'
    BY DEF Asked
  <2>4. Credit(u)'
    BY DEF Credit, Due, Flag, Asked
  <2>5. QED
    BY <2>1, <2>2, <2>3, <2>4
<1>4. QED
  BY <1>1, <1>2, <1>3 DEF Uploads, ResolveFails

\* The credit of the call becomes that of the session.
LEMMA OpenSessionIInv ==
  ASSUME IInv, NEW u \in Targets, OpenSession(u)
  PROVE  IInv'
<1> USE DEF IInv, TypeOK, postVars, jobVars, runVars, userVars, histVars
<1>1. TypeOK'
  BY DEF OpenSession
<1>2. ASSUME NEW t \in Targets \ {u} PROVE TargetInv(t)'
  BY UntouchedInv DEF Untouched, OpenSession
<1>3. TargetInv(u)'
  <2> USE DEF TargetInv, OpenSession
  <2>1. Fresh(u)' /\ Stage(u)' /\ Failing(u)' /\ Unrecorded(u)'
    BY DEF Fresh, Stage, Failing, Unrecorded, OnRecord
  <2>2. Unpublished(u)' /\ Closed(u)'
    BY DEF Unpublished, Closed
  <2>3. Asked(u)'
    BY DEF Asked
  <2>4. Credit(u)'
    BY DEF Credit, Due, Flag, Asked
  <2>5. QED
    BY <2>1, <2>2, <2>3, <2>4
<1>4. QED
  BY <1>2, <1>3 DEF Uploads, OpenSession

\* The one step that creates: it uses up the credit of the call or of the session.
LEMMA CreateIInv ==
  ASSUME IInv, NEW u \in Targets, Create(u)
  PROVE  IInv'
<1> USE DEF IInv, TypeOK, postVars, rowVars, jobVars, userVars
<1>1. TypeOK'
  BY DEF Create, Go, Places
<1>2. ASSUME NEW t \in Targets \ {u} PROVE TargetInv(t)'
  BY UntouchedInv DEF Untouched, Create, Go
<1>3. TargetInv(u)'
  <2> USE DEF TargetInv, Create, Go
  <2>1. Fresh(u)' /\ Stage(u)' /\ Failing(u)' /\ Unrecorded(u)'
    BY DEF Fresh, Stage, Failing, Unrecorded, OnRecord
  <2>2. Unpublished(u)' /\ Closed(u)'
    BY DEF Unpublished, Closed, Working, Fresh
  <2>3. Asked(u)'
    BY DEF Asked, Stage
  <2>4. Credit(u)'
    BY DEF Credit, Due, Flag, Asked
  <2>5. QED
    BY <2>1, <2>2, <2>3, <2>4
<1>4. QED
  BY <1>1, <1>2, <1>3 DEF Uploads, Create

\* A retryable outcome keeps the credit of the call.
LEMMA RejectIInv ==
  ASSUME IInv, NEW u \in Targets, Reject(u)
  PROVE  IInv'
<1> USE DEF IInv, TypeOK, postVars, rowVars, jobVars, userVars, histVars
<1>1. TypeOK'
  BY DEF Reject, Conclude, Go, Places, Verdicts
<1>2. ASSUME NEW t \in Targets \ {u} PROVE TargetInv(t)'
  BY UntouchedInv DEF Untouched, Reject, Conclude, Go
<1>3. TargetInv(u)'
  <2> USE DEF TargetInv, Reject, Conclude, Go
  <2>1. Fresh(u)' /\ Stage(u)' /\ Failing(u)' /\ Unrecorded(u)'
    BY DEF Fresh, Stage, Failing, Unrecorded, OnRecord
  <2>2. Unpublished(u)' /\ Closed(u)'
    BY DEF Unpublished, Closed, Working, Fresh
  <2>3. Asked(u)'
    BY DEF Asked
  <2>4. Credit(u)'
    BY DEF Credit, Due, Flag, Asked
  <2>5. QED
    BY <2>1, <2>2, <2>3, <2>4
<1>4. QED
  BY <1>1, <1>2, <1>3 DEF Uploads, Reject

\* The session and its upload go together, with a final outcome.
LEMMA SessionGoneIInv ==
  ASSUME IInv, NEW u \in Targets, SessionGone(u)
  PROVE  IInv'
<1> USE DEF IInv, TypeOK, postVars, jobVars, userVars
<1>1. TypeOK'
  BY DEF SessionGone, Conclude, Go, SessionVerdict, Places, Verdicts
<1>2. ASSUME NEW t \in Targets \ {u} PROVE TargetInv(t)'
  BY UntouchedInv DEF Untouched, SessionGone, Conclude, Go
<1>3. TargetInv(u)'
  <2> USE DEF TargetInv, SessionGone, Conclude, Go, SessionVerdict, Holds
  <2>1. Fresh(u)' /\ Stage(u)' /\ Failing(u)' /\ Unrecorded(u)'
    BY DEF Fresh, Stage, Failing, Unrecorded, OnRecord
  <2>2. Unpublished(u)' /\ Closed(u)'
    BY DEF Unpublished, Closed
  <2>3. Asked(u)'
    BY DEF Asked
  <2>4. Credit(u)'
    BY DEF Credit, Due, Flag, Asked
  <2>5. QED
    BY <2>1, <2>2, <2>3, <2>4
<1>4. QED
  BY <1>1, <1>2, <1>3 DEF Uploads, SessionGone

\* The credit of the call goes back to the row, if it is still held.
LEMMA ContinueIInv ==
  ASSUME IInv, NEW u \in Targets, Continue(u)
  PROVE  IInv'
<1> USE DEF IInv, TypeOK, postVars, jobVars, userVars, histVars
<1>1. TypeOK'
  BY LimitsAssumption DEF Continue, Conclude, Go, Fault, SetStatus, Places,
       Verdicts, TargetStatuses
<1>2. ASSUME NEW t \in Targets \ {u} PROVE TargetInv(t)'
  BY UntouchedInv DEF Untouched, Continue, Conclude, Go, SetStatus
<1>3. TargetInv(u)'
  <2> USE DEF TargetInv, Continue, Conclude, Go
  <2>1. Fresh(u)' /\ Stage(u)' /\ Failing(u)' /\ Unrecorded(u)'
    BY DEF Fresh, Stage, Failing, Unrecorded
  <2>2. Unpublished(u)' /\ Closed(u)'
    BY DEF Unpublished, Closed, Working, Final, Fresh
  <2>3. Asked(u)'
    BY DEF Asked
  <2>4. Credit(u)'
    BY DEF Credit, Due, Flag, Asked
  <2>5. QED
    BY <2>1, <2>2, <2>3, <2>4
<1>4. QED
  BY <1>1, <1>2, <1>3 DEF Uploads, Continue

\* A retryable outcome without a session occurs on unguarded platforms only.
LEMMA AnswerLostIInv ==
  ASSUME IInv, NEW u \in Targets, AnswerLost(u)
  PROVE  IInv'
<1> USE DEF IInv, TypeOK, postVars, rowVars, jobVars, userVars, histVars
<1>1. TypeOK'
  BY DEF AnswerLost, Conclude, Go, Places, Verdicts
<1>2. ASSUME NEW t \in Targets \ {u} PROVE TargetInv(t)'
  BY UntouchedInv DEF Untouched, AnswerLost, Conclude, Go
<1>3. TargetInv(u)'
  <2> USE DEF TargetInv, AnswerLost, Conclude, Go
  <2>1. Fresh(u)' /\ Stage(u)' /\ Failing(u)' /\ Unrecorded(u)'
    BY DEF Fresh, Stage, Failing, Unrecorded, OnRecord
  <2>2. Unpublished(u)' /\ Closed(u)'
    BY DEF Unpublished, Closed, Working, Fresh
  <2>3. Asked(u)'
    BY DEF Asked
  <2>4. Credit(u)'
    BY DEF Credit, Due, Asked, Stage
  <2>5. QED
    BY <2>1, <2>2, <2>3, <2>4
<1>4. QED
  BY <1>1, <1>2, <1>3 DEF Uploads, AnswerLost

\* The outcome is published.
LEMMA AnswerArrivesIInv ==
  ASSUME IInv, NEW u \in Targets, AnswerArrives(u)
  PROVE  IInv'
<1> USE DEF IInv, TypeOK, postVars, rowVars, jobVars, userVars, histVars
<1>1. TypeOK'
  BY DEF AnswerArrives, Conclude, Go, Places, Verdicts
<1>2. ASSUME NEW t \in Targets \ {u} PROVE TargetInv(t)'
  BY UntouchedInv DEF Untouched, AnswerArrives, Conclude, Go
<1>3. TargetInv(u)'
  <2> USE DEF TargetInv, AnswerArrives, Conclude, Go
  <2>1. Fresh(u)' /\ Stage(u)' /\ Failing(u)' /\ Unrecorded(u)'
    BY DEF Fresh, Stage, Failing, Unrecorded, OnRecord
  <2>2. Unpublished(u)' /\ Closed(u)'
    BY DEF Unpublished, Closed, Working, Fresh
  <2>3. Asked(u)'
    BY DEF Asked
  <2>4. Credit(u)'
    BY DEF Credit, Due
  <2>5. QED
    BY <2>1, <2>2, <2>3, <2>4
<1>4. QED
  BY <1>1, <1>2, <1>3 DEF Uploads, AnswerArrives

\* The outcome is on record before it is shown.
LEMMA PersistIInv ==
  ASSUME IInv, NEW u \in Targets, Persist(u)
  PROVE  IInv'
<1> USE DEF IInv, TypeOK, postVars, jobVars, userVars, histVars
<1>1. TypeOK'
  BY DEF Persist, Conclude, Go, Places, Verdicts
<1>2. ASSUME NEW t \in Targets \ {u} PROVE TargetInv(t)'
  BY UntouchedInv DEF Untouched, Persist, Conclude, Go
<1>3. TargetInv(u)'
  <2> USE DEF TargetInv, Persist, Conclude, Go
  <2>1. Fresh(u)' /\ Stage(u)' /\ Failing(u)' /\ Unrecorded(u)'
    BY DEF Fresh, Stage, Failing, Unrecorded
  <2>2. Unpublished(u)' /\ Closed(u)'
    BY DEF Unpublished, Closed, Working, Final, Fresh
  <2>3. Asked(u)'
    BY DEF Asked
  <2>4. Credit(u)'
    BY DEF Credit, Due, Asked, Stage
  <2>5. QED
    BY <2>1, <2>2, <2>3, <2>4
<1>4. QED
  BY <1>1, <1>2, <1>3 DEF Uploads, Persist

\* The fence finds the row unpublished.
LEMMA SettleIInv ==
  ASSUME IInv, NEW u \in Targets, Settle(u)
  PROVE  IInv'
<1> USE DEF IInv, TypeOK, postVars, rowVars, jobVars, userVars, histVars
<1>1. TypeOK'
  BY RollupType DEF Settle, Conclude, Go, Summary, Places, Verdicts
<1>2. ASSUME NEW t \in Targets \ {u} PROVE TargetInv(t)'
  BY UntouchedInv DEF Untouched, Settle, Conclude, Go
<1>3. TargetInv(u)'
  <2> USE DEF TargetInv, Settle, Conclude, Go, Summary
  <2>1. Fresh(u)' /\ Stage(u)' /\ Failing(u)' /\ Unrecorded(u)'
    BY RollupType DEF Fresh, Stage, Failing, Unrecorded, OnRecord
  <2>2. Unpublished(u)' /\ Closed(u)'
    BY DEF Unpublished, Closed, Working, Final, Fresh
  <2>3. Asked(u)'
    BY DEF Asked
  <2>4. Credit(u)'
    BY DEF Credit, Due, Flag, Asked
  <2>5. QED
    BY <2>1, <2>2, <2>3, <2>4
<1>4. QED
  BY <1>1, <1>2, <1>3 DEF Uploads, Settle

\* The row was not published when it was read, and nobody else publishes it.
LEMMA RefuseIInv ==
  ASSUME IInv, NEW u \in Targets, Refuse(u)
  PROVE  IInv'
<1> USE DEF IInv, TypeOK, postVars, rowVars, jobVars, userVars, histVars
<1>1. TypeOK'
  BY RollupType DEF Refuse, Go, Summary, Places
<1>2. ASSUME NEW t \in Targets \ {u} PROVE TargetInv(t)'
  BY UntouchedInv DEF Untouched, Refuse, Go
<1>3. TargetInv(u)'
  <2> USE DEF TargetInv, Refuse, Go, Summary
  <2>1. Fresh(u)' /\ Stage(u)' /\ Failing(u)' /\ Unrecorded(u)'
    BY RollupType DEF Fresh, Stage, Failing, Unrecorded, OnRecord
  <2>2. Unpublished(u)' /\ Closed(u)'
    BY DEF Unpublished, Closed, Working, Fresh
  <2>3. Asked(u)'
    BY DEF Asked
  <2>4. Credit(u)'
    BY DEF Credit, Due, Asked, Stage
  <2>5. QED
    BY <2>1, <2>2, <2>3, <2>4
<1>4. QED
  BY <1>1, <1>2, <1>3 DEF Uploads, Refuse

\* A failing job finalizes what is on record and fails what is not.
LEMMA GiveUpIInv ==
  ASSUME IInv, NEW u \in Targets, GiveUp(u)
  PROVE  IInv'
<1> USE DEF IInv, TypeOK, postVars, rowVars, jobVars, userVars, histVars
<1>1. TypeOK'
  BY RollupType DEF GiveUp, Conclude, Go, Summary, Places, Verdicts
<1>2. ASSUME NEW t \in Targets \ {u} PROVE TargetInv(t)'
  BY UntouchedInv DEF Untouched, GiveUp, Conclude, Go
<1>3. TargetInv(u)'
  <2> USE DEF TargetInv, GiveUp, Conclude, Go, GivesUp, Summary, OnRecord
  <2>1. Fresh(u)' /\ Stage(u)' /\ Failing(u)' /\ Unrecorded(u)'
    BY RollupType DEF Fresh, Stage, Failing, Unrecorded
  <2>2. Unpublished(u)' /\ Closed(u)'
    BY DEF Unpublished, Closed, Working, Fresh
  <2>3. Asked(u)'
    BY DEF Asked
  <2>4. Credit(u)'
    BY DEF Credit, Due
  <2>5. QED
    BY <2>1, <2>2, <2>3, <2>4
<1>4. QED
  BY <1>1, <1>2, <1>3 DEF Uploads, GiveUp

\* The row gets the status of its outcome, which is never "publishing".
LEMMA RollIInv ==
  ASSUME IInv, NEW u \in Targets, Roll(u)
  PROVE  IInv'
<1> USE DEF IInv, TypeOK, jobVars, userVars, histVars
<1>0. summary[u] \in PostStatuses
  BY DEF Roll, TargetInv, Stage
<1>1. TypeOK'
  BY <1>0 DEF Roll, Go, SetStatus, StatusAfter, TargetStatuses, Places
<1>2. ASSUME NEW t \in Targets \ {u} PROVE TargetInv(t)'
  BY UntouchedInv DEF Untouched, Roll, Go, SetStatus
<1>3. TargetInv(u)'
  <2> USE DEF TargetInv, Roll, Go, SetStatus, StatusAfter
  <2>1. Fresh(u)' /\ Stage(u)' /\ Failing(u)' /\ Unrecorded(u)'
    BY DEF Fresh, Stage, Failing, Unrecorded, OnRecord
  <2>2. Unpublished(u)' /\ Closed(u)'
    BY DEF Stage, Unrecorded, Unpublished, Closed, Working, OnRecord, Fresh
  <2>3. Asked(u)'
    BY DEF Asked
  <2>4. Credit(u)'
    BY DEF Credit, Due, Flag, Asked
  <2>5. QED
    BY <2>1, <2>2, <2>3, <2>4
<1>4. QED
  BY <1>1, <1>2, <1>3 DEF Uploads, Roll

\* Nothing but the age of the row changes.
LEMMA AgeIInv ==
  ASSUME IInv, NEW u \in Targets, Age(u)
  PROVE  IInv'
<1> USE DEF IInv, TypeOK, postVars, jobVars, runVars, userVars, histVars
<1>1. TypeOK'
  BY DEF Age
<1>2. ASSUME NEW t \in Targets \ {u} PROVE TargetInv(t)'
  BY UntouchedInv DEF Untouched, Age
<1>3. TargetInv(u)'
  <2> USE DEF TargetInv, Age
  <2>1. Fresh(u)' /\ Stage(u)' /\ Failing(u)' /\ Unrecorded(u)'
    BY DEF Fresh, Stage, Failing, Unrecorded
  <2>2. Unpublished(u)' /\ Closed(u)'
    BY DEF Unpublished, Closed
  <2>3. Asked(u)'
    BY DEF Asked
  <2>4. Credit(u)'
    BY DEF Credit, Due
  <2>5. QED
    BY <2>1, <2>2, <2>3, <2>4
<1>4. QED
  BY <1>2, <1>3 DEF Uploads, Age

\* The job will be tried again.
LEMMA ThrowIInv ==
  ASSUME IInv, NEW u \in Targets, Throw(u)
  PROVE  IInv'
<1> USE DEF IInv, TypeOK, postVars, rowVars, jobVars, userVars, histVars
<1>1. TypeOK'
  BY LimitsAssumption DEF Throw, Conclude, Go, Fault, Places, Verdicts
<1>2. ASSUME NEW t \in Targets \ {u} PROVE TargetInv(t)'
  BY UntouchedInv DEF Untouched, Throw, Conclude, Go
<1>3. TargetInv(u)'
  <2> USE DEF TargetInv, Throw, Conclude, Go
  <2>1. Fresh(u)' /\ Stage(u)' /\ Failing(u)' /\ Unrecorded(u)'
    BY DEF Fresh, Stage, Failing, Unrecorded
  <2>2. Unpublished(u)' /\ Closed(u)'
    BY DEF Unpublished, Closed, Working, Final, Fresh
  <2>3. Asked(u)'
    BY DEF Asked
  <2>4. Credit(u)'
    BY DEF Credit, Due, Flag, Asked
  <2>5. QED
    BY <2>1, <2>2, <2>3, <2>4
<1>4. QED
  BY <1>1, <1>2, <1>3 DEF Uploads, Throw

\* The job is still pending or failing.
LEMMA CrashIInv ==
  ASSUME IInv, NEW u \in Targets, Crash(u)
  PROVE  IInv'
<1> USE DEF IInv, TypeOK, postVars, rowVars, jobVars, userVars, histVars
<1>1. TypeOK'
  BY LimitsAssumption DEF Crash, Rest, Go, Fault, Places, Verdicts
<1>2. ASSUME NEW t \in Targets \ {u} PROVE TargetInv(t)'
  BY UntouchedInv DEF Untouched, Crash, Rest, Go
<1>3. TargetInv(u)'
  <2> USE DEF TargetInv, Crash, Rest, Go
  <2>1. Fresh(u)' /\ Stage(u)' /\ Failing(u)' /\ Unrecorded(u)'
    BY DEF Fresh, Stage, Failing, Unrecorded
  <2>2. Unpublished(u)' /\ Closed(u)'
    BY DEF Stage, Unpublished, Closed, Working, Fresh
  <2>3. Asked(u)'
    BY DEF Asked
  <2>4. Credit(u)'
    BY DEF Credit, Due, Flag, Asked
  <2>5. QED
    BY <2>1, <2>2, <2>3, <2>4
<1>4. QED
  BY <1>1, <1>2, <1>3 DEF Uploads, Crash

\* A new command pays for the row that is pending again.
LEMMA RetryIInv ==
  ASSUME IInv, NEW u \in Targets, Retry(u)
  PROVE  IInv'
<1> USE DEF IInv, TypeOK, postVars, jobVars, runVars
<1>1. TypeOK'
  BY LimitsAssumption DEF Retry, Command, SetStatus, Request, TargetStatuses
<1>2. ASSUME NEW t \in Targets \ {u} PROVE TargetInv(t)'
  BY UntouchedInv DEF Untouched, Retry, SetStatus, Request
<1>3. TargetInv(u)'
  <2> USE DEF TargetInv, Retry, SetStatus, Request
  <2>1. Fresh(u)' /\ Stage(u)' /\ Failing(u)' /\ Unrecorded(u)'
    BY DEF Fresh, Stage, Failing, Unrecorded, OnRecord
  <2>2. Unpublished(u)' /\ Closed(u)'
    BY DEF Unpublished, Closed, OnRecord, Fresh
  <2>3. Asked(u)'
    BY DEF Asked
  <2>4. Credit(u)'
    BY DEF Credit, Due, Flag, Asked, Stage
  <2>5. QED
    BY <2>1, <2>2, <2>3, <2>4
<1>4. QED
  BY <1>1, <1>2, <1>3 DEF Uploads, Retry

\* The command was counted when the row was updated.
LEMMA RetryEnqueuesIInv ==
  ASSUME IInv, NEW u \in Targets, RetryEnqueues(u)
  PROVE  IInv'
<1> USE DEF IInv, TypeOK, postVars, rowVars, runVars, histVars
<1>1. TypeOK'
  BY DEF RetryEnqueues, Ask
<1>2. ASSUME NEW t \in Targets \ {u} PROVE TargetInv(t)'
  BY UntouchedInv DEF Untouched, RetryEnqueues, Ask
<1>3. TargetInv(u)'
  <2> USE DEF TargetInv, RetryEnqueues, Ask
  <2>1. Fresh(u)' /\ Stage(u)' /\ Failing(u)' /\ Unrecorded(u)'
    BY DEF Fresh, Stage, Failing, Unrecorded, OnRecord
  <2>2. Unpublished(u)' /\ Closed(u)'
    BY DEF Unpublished, Closed
  <2>3. Asked(u)'
    BY DEF Asked
  <2>4. Credit(u)'
    BY DEF Credit, Due
  <2>5. QED
    BY <2>1, <2>2, <2>3, <2>4
<1>4. QED
  BY <1>1, <1>2, <1>3 DEF Uploads, RetryEnqueues

\* Nothing is asked for.
LEMMA RetryDiesIInv ==
  ASSUME IInv, NEW u \in Targets, RetryDies(u)
  PROVE  IInv'
<1> USE DEF IInv, TypeOK, postVars, rowVars, jobVars, runVars, histVars
<1>1. TypeOK'
  BY LimitsAssumption DEF RetryDies
<1>2. ASSUME NEW t \in Targets \ {u} PROVE TargetInv(t)'
  BY UntouchedInv DEF Untouched, RetryDies
<1>3. TargetInv(u)'
  <2> USE DEF TargetInv, RetryDies
  <2>1. Fresh(u)' /\ Stage(u)' /\ Failing(u)' /\ Unrecorded(u)'
    BY DEF Fresh, Stage, Failing, Unrecorded, OnRecord
  <2>2. Unpublished(u)' /\ Closed(u)'
    BY DEF Unpublished, Closed, OnRecord, Fresh
  <2>3. Asked(u)'
    BY DEF Asked
  <2>4. Credit(u)'
    BY DEF Credit, Due
  <2>5. QED
    BY <2>1, <2>2, <2>3, <2>4
<1>4. QED
  BY <1>1, <1>2, <1>3 DEF Uploads, RetryDies

\* A new command pays for the row; a published one is not touched.
LEMMA EditTargetIInv ==
  ASSUME IInv, NEW u \in Targets, 
         NEW plan \in {"schedule", "unschedule", "keep"}, EditTarget(u, plan)
  PROVE  IInv'
<1> USE DEF IInv, TypeOK, postVars, runVars
<1>0. asked' \in [Targets -> {"nothing", "run", "cancel"}]
  BY DEF EditTarget, Ask
<1>b. unasked' \subseteq Targets
  BY DEF EditTarget
<1>1. TypeOK'
  BY <1>0, <1>b, LimitsAssumption DEF EditTarget, Command, SetStatus, Request,
       TargetStatuses
<1>2. ASSUME NEW t \in Targets \ {u} PROVE TargetInv(t)'
  BY UntouchedInv DEF Untouched, EditTarget, SetStatus, Ask, Request
<1>3. TargetInv(u)'
  <2> USE DEF TargetInv, EditTarget, Editable, SetStatus, Ask, Request
  <2>1. Fresh(u)' /\ Stage(u)' /\ Failing(u)' /\ Unrecorded(u)'
    BY DEF Fresh, Stage, Failing, Unrecorded, OnRecord
  <2>2. Unpublished(u)' /\ Closed(u)'
    BY DEF Unpublished, Closed, OnRecord, Fresh
  <2>3. Asked(u)'
    BY DEF Asked
  <2>4. Credit(u)'
    BY DEF Credit, Due, Flag, Asked, Stage
  <2>5. QED
    BY <2>1, <2>2, <2>3, <2>4
<1>4. QED
  BY <1>1, <1>2, <1>3 DEF Uploads, EditTarget

\* A subscription changes nothing about a post by itself.
LEMMA ChangeBillingIInv ==
  ASSUME IInv, ChangeBilling
  PROVE  IInv'
<1> USE DEF IInv, TypeOK, postVars, rowVars, jobVars, runVars, userVars,
     histVars,
            ChangeBilling, Command
<1>1. TypeOK'
  BY LimitsAssumption
<1>2. ASSUME NEW t \in Targets PROVE TargetInv(t)'
  BY UntouchedInv DEF Untouched
<1>3. QED
  BY <1>1, <1>2 DEF Uploads

\* A deleted post promises nothing more of its targets.
LEMMA RemoveIInv ==
  ASSUME IInv, Remove
  PROVE  IInv'
<1> USE DEF IInv, TypeOK, postVars, rowVars, jobVars, runVars, userVars,
     histVars,
            Remove, Command, Ask
<1>1. TypeOK'
  BY LimitsAssumption
<1>2. ASSUME NEW t \in Targets PROVE TargetInv(t)'
  <2>1. Fresh(t)' /\ Stage(t)' /\ Failing(t)' /\ Unrecorded(t)'
    BY DEF TargetInv, Fresh, Stage, Failing, Unrecorded, OnRecord
  <2>2. Unpublished(t)' /\ Closed(t)' /\ Asked(t)'
    BY DEF TargetInv, Unpublished, Closed, Asked
  <2>3. Credit(t)'
    BY DEF TargetInv, Credit, Due, Flag
  <2>4. QED
    BY <2>1, <2>2, <2>3 DEF TargetInv
<1>3. QED
  BY <1>1, <1>2 DEF Uploads

\* The new targets were not touched before; the old ones are dead.
LEMMA ReplaceIInv ==
  ASSUME IInv, NEW S \in SUBSET (Targets \ First), Replace(S)
  PROVE  IInv'
<1> USE DEF IInv, TypeOK, postVars, rowVars, jobVars, runVars, userVars,
     histVars,
            Replace, Command, Request
<1>1. TypeOK'
  BY LimitsAssumption DEF PostStatuses
<1>2. live' # First
  BY TargetsAssumption
<1>3. ASSUME NEW t \in Targets PROVE TargetInv(t)'
  <2>1. Fresh(t)' /\ Stage(t)' /\ Failing(t)' /\ Unrecorded(t)'
    BY <1>2 DEF TargetInv, Fresh, Stage, Failing, Unrecorded, OnRecord
  <2>2. t \in live' => pc[t] = "idle" /\ job[t] = "none"
    BY DEF TargetInv, Fresh
  <2>3. Unpublished(t)' /\ Closed(t)'
    BY <2>2 DEF Unpublished, Closed, Working
  <2>4. Asked(t)'
    BY DEF TargetInv, Asked
  <2>5. Credit(t)'
    BY DEF TargetInv, Credit, Due, Flag
  <2>6. QED
    BY <2>1, <2>3, <2>4, <2>5 DEF TargetInv
<1>4. QED
  BY <1>1, <1>3 DEF Uploads

\* Every row waits again, for a job that is asked to run.
LEMMA PublishNowIInv ==
  ASSUME IInv, PublishNow
  PROVE  IInv'
<1> USE DEF IInv, TypeOK, postVars, rowVars, jobVars, runVars, userVars,
     histVars,
            PublishNow, Command, Request, SetStatus, Ask
<1>1. TypeOK'
  BY LimitsAssumption DEF PostStatuses, TargetStatuses
<1>2. ASSUME NEW t \in Targets \ live PROVE TargetInv(t)'
  BY <1>2, UntouchedInv DEF Untouched
<1>3. ASSUME NEW t \in live PROVE TargetInv(t)'
  <2>0. t \in Targets
    OBVIOUS
  <2>1. Fresh(t)' /\ Stage(t)' /\ Failing(t)' /\ Unrecorded(t)'
    BY <2>0 DEF TargetInv, Fresh, Stage, Failing, Unrecorded, OnRecord
  <2>2. Unpublished(t)' /\ Closed(t)' /\ Asked(t)'
    BY <2>0 DEF Unpublished, Closed, Asked
  <2>3. Credit(t)'
    BY <2>0 DEF TargetInv, Credit, Due, Flag, Asked, Stage
  <2>4. QED
    BY <2>1, <2>2, <2>3 DEF TargetInv
<1>4. QED
  BY <1>1, <1>2, <1>3 DEF Uploads

\* Rows fail that have not come to rest, and none is published by it.
LEMMA StopBilledWorkspaceWorkIInv ==
  ASSUME IInv, StopBilledWorkspaceWork
  PROVE  IInv'
<1> USE DEF IInv, TypeOK, postVars, rowVars, jobVars, runVars, userVars,
     histVars,
            StopBilledWorkspaceWork, Command, SetStatus
<1>1. TypeOK'
  BY LimitsAssumption DEF PostStatuses, TargetStatuses
<1>2. ASSUME NEW t \in Targets PROVE TargetInv(t)'
  <2>1. Fresh(t)' /\ Stage(t)' /\ Failing(t)' /\ Unrecorded(t)'
    BY DEF TargetInv, Fresh, Stage, Failing, Unrecorded, OnRecord
  <2>2. Unpublished(t)' /\ Closed(t)' /\ Asked(t)'
    BY DEF TargetInv, Unpublished, Closed, Asked, OnRecord
  <2>3. Credit(t)'
    BY DEF TargetInv, Credit, Due, Flag
  <2>4. QED
    BY <2>1, <2>2, <2>3 DEF TargetInv
<1>3. QED
  BY <1>1, <1>2 DEF Uploads

-----------------------------------------------------------------------------
(* The invariant holds initially and is preserved.                         *)

\* A post starts with pending rows and at most one request for each.
LEMMA InitIInv == Init => IInv
<1> SUFFICES ASSUME Init PROVE IInv
  OBVIOUS
<1> USE DEF Init
<1>1. TypeOK
  BY TargetsAssumption, LimitsAssumption
     DEF TypeOK, PostStatuses, TargetStatuses, JobStatuses, Places, Verdicts
<1>2. ASSUME NEW t \in Targets PROVE TargetInv(t)
  <2>1. Fresh(t) /\ Stage(t) /\ Failing(t) /\ Unrecorded(t)
    BY DEF Fresh, Stage, Failing, Unrecorded, OnRecord
  <2>2. Unpublished(t) /\ Closed(t) /\ Asked(t) /\ Credit(t)
    BY DEF Unpublished, Working, Closed, Asked, Credit, Due, Flag
  <2>3. QED
    BY <2>1, <2>2 DEF TargetInv
<1>3. QED
  BY <1>1, <1>2 DEF IInv, Uploads

\* A step that changes nothing.
LEMMA StutterIInv ==
  ASSUME IInv, UNCHANGED vars
  PROVE  IInv'
<1> USE DEF IInv, vars, postVars, rowVars, jobVars, runVars, userVars, histVars
<1>1. TypeOK'
  BY DEF TypeOK
<1>2. ASSUME NEW t \in Targets PROVE TargetInv(t)'
  BY UntouchedInv DEF Untouched
<1>3. QED
  BY <1>1, <1>2 DEF Uploads

\* Every step preserves the invariant.
LEMMA NextIInv == IInv /\ [Next]_vars => IInv'
<1> SUFFICES ASSUME IInv, [Next]_vars PROVE IInv'
  OBVIOUS
<1>1. CASE Commands
  BY <1>1, ReplaceIInv, RemoveIInv, RetryIInv, EditTargetIInv, PublishNowIInv,
     ChangeBillingIInv, StopBilledWorkspaceWorkIInv DEF Commands
<1>2. ASSUME NEW t \in Targets, Serve(t) PROVE IInv'
  BY <1>2, TakeRequestIInv, ClaimRunIInv, ClaimExhaustedIInv,
       AnswerIInv DEF Serve
<1>3. ASSUME NEW t \in Targets, Execute(t) PROVE IInv'
  BY <1>3, GateIInv, LoadIInv, AcquireIInv, AcquireAbandonedIInv,
       AcquireNotIInv,
     PersistIInv, SettleIInv, RefuseIInv, GiveUpIInv, RollIInv DEF Execute
<1>4. ASSUME NEW t \in Targets, Provider(t) PROVE IInv'
  BY <1>4, ResolveFailsIInv, OpenSessionIInv, CreateIInv, RejectIInv,
     SessionGoneIInv, AnswerLostIInv, AnswerArrivesIInv DEF Provider
<1>5. ASSUME NEW t \in Targets,
             RetryEnqueues(t) \/ RetryDies(t) \/ Continue(t) \/ Age(t)
               \/ Throw(t) \/ Crash(t)
      PROVE  IInv'
  BY <1>5, RetryEnqueuesIInv, RetryDiesIInv, ContinueIInv, AgeIInv, ThrowIInv,
     CrashIInv
<1>6. QED
  BY <1>1, <1>2, <1>3, <1>4, <1>5, StutterIInv DEF Next

-----------------------------------------------------------------------------
(* The theorems.                                                           *)

\* Every reachable state satisfies the inductive invariant.
THEOREM Invariance == Spec => []IInv
  BY InitIInv, NextIInv, PTL DEF Spec

\* Rows, jobs, executions and budgets keep their shape.
THEOREM PublishingTypeCorrect == Spec => []TypeOK
<1>1. IInv => TypeOK
  BY DEF IInv
<1>2. QED
  BY <1>1, Invariance, PTL

\* However often objects restart, answers are lost, leases lapse and commands
\* are repeated, no guarded platform creates more posts than commands asked for.
THEOREM CreatedOncePerRequest == Spec => []OneCreationPerRequest
<1>1. IInv => OneCreationPerRequest
  <2> SUFFICES ASSUME IInv, NEW t \in Targets \ Unguarded
               PROVE  created[t] <= requests[t]
    BY DEF OneCreationPerRequest
  <2>1. created[t] \in Nat /\ requests[t] \in Nat /\ Due(t) \in Nat
    BY DEF IInv, TypeOK, Due, Flag
  <2>2. created[t] > 0 => requests[t] > 0
    BY DEF IInv, TargetInv, Asked
  <2>3. requests[t] > 0 => created[t] + Due(t) <= requests[t]
    BY <2>1 DEF IInv, TargetInv, Credit
  <2>4. QED
    BY <2>1, <2>2, <2>3
<1>2. QED
  BY <1>1, Invariance, PTL

\* No job ends, in success or in failure, and leaves its target "publishing".
THEOREM JobsLeaveNothingPublishing == Spec => []NeverLeftPublishing
<1>1. IInv => NeverLeftPublishing
  BY DEF IInv, TargetInv, Closed, NeverLeftPublishing, Ended
<1>2. QED
  BY <1>1, Invariance, PTL

\* Whatever ends a job, a publication on record is shown.
THEOREM RecordsAreShown == Spec => []ConfirmedIsPublished
<1>1. IInv => ConfirmedIsPublished
  BY DEF IInv, TargetInv, Closed, OnRecord, ConfirmedIsPublished, Ended
<1>2. QED
  BY <1>1, Invariance, PTL

-----------------------------------------------------------------------------
(* The theorem about rows that are to be published.                        *)

\* What is known of a live row of a post that is kept: an intent to cancel and a
\* job that is gone were announced in unasked, and so is a pending row that
\* neither an intent nor its job, whose execution may be about to end it, will
\* take up.
Planned(t) ==
  t \in live /\ shelf = "kept" =>
    /\ asked[t] = "cancel" => t \in unasked
    /\ asked[t] # "run" /\ job[t] = "none" => t \in unasked
    /\ status[t] = "pending" /\ asked[t] # "run" =>
         \/ t \in retrying \cup unasked
         \/ /\ job[t] \in {"pending", "failing"}
            /\ ~(pc[t] = "answer" /\ verdict[t] \in Final)

\* Steps that leave the row, its intent and its job alone and do not end the
\* execution for good while the row is pending.
LEMMA SteadyPlanned ==
  ASSUME NEW t \in Targets, Planned(t), live' = live,
         shelf' = "kept" => shelf = "kept",
         status'[t] = status[t], asked'[t] = asked[t], job'[t] = job[t],
         t \in retrying \cup unasked => t \in retrying' \cup unasked',
         t \in unasked => t \in unasked',
         \/ pc'[t] # "answer" \/ verdict'[t] \notin Final
         \/ pc'[t] = pc[t] /\ verdict'[t] = verdict[t]
         \/ ~(t \in live /\ shelf = "kept" /\ status[t] = "pending")
  PROVE  Planned(t)'
  BY DEF Planned

\* The commands: each of them that makes a row pending asks for its job, will do
\* so, or is noted.
LEMMA CommandsPlanned ==
  ASSUME IInv, NEW t \in Targets, Planned(t), Commands
  PROVE  Planned(t)'
<1> USE DEF IInv, TypeOK, postVars, rowVars, jobVars, runVars, userVars, histVars
<1>1. ASSUME NEW S \in SUBSET (Targets \ First), Replace(S) PROVE Planned(t)'
  <2>1. t \in live' => pc[t] = "idle" /\ asked'[t] \in {"run", "nothing"}
    BY <1>1 DEF Replace, TargetInv, Fresh
  <2>2. t \in live' /\ asked'[t] # "run" => t \in unasked'
    BY <1>1 DEF Replace, Request
  <2>3. QED
    BY <2>1, <2>2 DEF Planned
<1>2. CASE Remove
  BY <1>2 DEF Remove, Planned
<1>3. ASSUME NEW u \in Targets, Retry(u) PROVE Planned(t)'
  BY <1>3 DEF Retry, SetStatus, Planned
<1>4. ASSUME NEW u \in Targets, NEW plan \in {"schedule", "unschedule", "keep"},
             EditTarget(u, plan)
      PROVE  Planned(t)'
  <2>1. CASE t = u
    <3>1. /\ plan = "schedule" => asked'[t] = "run"
          /\ /\ plan # "schedule"
             /\ plan = "unschedule" \/ status[t] = "failed" \/ t \in unasked
             => t \in unasked'
          /\ plan = "keep" => asked' = asked
      BY <1>4, <2>1 DEF EditTarget, Ask
    <3>2. status[t] \in {"pending", "failed"}
      BY <1>4, <2>1 DEF EditTarget, Editable, TargetStatuses
    <3>3. QED
      BY <1>4, <2>1, <3>1, <3>2 DEF EditTarget, Planned
  <2>2. CASE t # u
    BY <1>4, <2>2 DEF EditTarget, SetStatus, Ask, Planned
  <2>3. QED
    BY <2>1, <2>2
<1>5. CASE PublishNow
  BY <1>5 DEF PublishNow, Ask, Planned
<1>6. CASE ChangeBilling
  BY <1>6, SteadyPlanned DEF ChangeBilling
<1>7. CASE StopBilledWorkspaceWork
  BY <1>7 DEF StopBilledWorkspaceWork, SetStatus, Planned
<1>8. QED
  BY <1>1, <1>2, <1>3, <1>4, <1>5, <1>6, <1>7 DEF Commands

\* The object: a job that is replaced was asked for again or cancelled, and one
\* that ends had brought its row to rest.
LEMMA ServePlanned ==
  ASSUME IInv, NEW t \in Targets, Planned(t), NEW u \in Targets, Serve(u)
  PROVE  Planned(t)'
<1> USE DEF IInv, TypeOK, postVars, rowVars, runVars, userVars, histVars
<1>1. CASE t # u
  BY <1>1, SteadyPlanned DEF Serve, TakeRequest, ClaimRun, ClaimExhausted,
     Answer, SetJob, Rest, Go
<1>2. CASE TakeRequest(t)
  BY <1>2 DEF TakeRequest, SetJob, Planned
<1>3. CASE ClaimRun(t) \/ ClaimExhausted(t)
  BY <1>3 DEF ClaimRun, ClaimExhausted, OutOfAttempts, SetJob, Go, Planned
<1>4. CASE Answer(t)
  <2>1. job[t] \in {"pending", "failing"} /\ verdict[t] # "none"
    BY <1>4 DEF Answer, TargetInv, Stage
  <2>2. job'[t] \in {"pending", "failing", "done", "gaveup"} /\ pc'[t] = "idle"
    BY <1>4 DEF Answer, SetJob, Rest, Go
  <2>3. job'[t] \in {"done", "gaveup"} => verdict[t] \in Final
    BY <1>4, <2>1 DEF Answer, SetJob, Again, Final, Verdicts, TargetInv, Failing
  <2>4. QED
    BY <1>4, <2>1, <2>2, <2>3 DEF Answer, Planned
<1>5. QED
  BY <1>1, <1>2, <1>3, <1>4 DEF Serve

\* The execution: it ends a job for good only with its row at rest.
LEMMA ExecutePlanned ==
  ASSUME IInv, NEW t \in Targets, Planned(t), NEW u \in Targets, Execute(u)
  PROVE  Planned(t)'
<1> USE DEF IInv, TypeOK, postVars, rowVars, jobVars, userVars, histVars
<1>1. CASE t # u
  BY <1>1, SteadyPlanned DEF Execute, Gate, Load, Acquire, AcquireAbandoned,
     AcquireNot, Persist, Settle, Refuse, GiveUp, Roll, Go, Conclude, SetStatus
<1>2. CASE Gate(t) \/ Load(t) \/ AcquireAbandoned(t) \/ AcquireNot(t)
  BY <1>2, SteadyPlanned DEF Gate, Load, AcquireAbandoned, AcquireNot, Go,
     Conclude, Final
<1>3. CASE Persist(t) \/ Settle(t) \/ Refuse(t) \/ GiveUp(t)
  BY <1>3, SteadyPlanned DEF Persist, Settle, Refuse, GiveUp, GivesUp, Go,
     Conclude, Final
<1>4. CASE Acquire(t)
  BY <1>4 DEF Acquire, SetStatus, Planned
<1>5. CASE Roll(t)
  <2>1. /\ job[t] \in {"pending", "failing"}
        /\ verdict[t] \in Final => StatusAfter(verdict[t]) # "pending"
    BY <1>5 DEF Roll, TargetInv, Stage, StatusAfter, Final
  <2>2. QED
    BY <1>5, <2>1 DEF Roll, SetStatus, Go, Planned
<1>6. QED
  BY <1>1, <1>2, <1>3, <1>4, <1>5 DEF Execute

\* The rest: a row that is given back still has its job.
LEMMA OthersPlanned ==
  ASSUME IInv, NEW t \in Targets, Planned(t), NEW u \in Targets,
         \/ RetryEnqueues(u) \/ RetryDies(u) \/ Provider(u) \/ Continue(u)
         \/ Age(u) \/ Throw(u) \/ Crash(u)
  PROVE  Planned(t)'
<1> USE DEF IInv, TypeOK, postVars, rowVars, jobVars, runVars, userVars,
     histVars
<1>1. CASE RetryEnqueues(u)
  BY <1>1 DEF RetryEnqueues, Ask, Planned
<1>2. CASE RetryDies(u)
  BY <1>2, SteadyPlanned DEF RetryDies
<1>3. CASE Provider(u)
  BY <1>3, SteadyPlanned DEF Provider, ResolveFails, OpenSession, Create, Reject,
     SessionGone, AnswerLost, AnswerArrives, Conclude, Go
<1>4. CASE Continue(u)
  <2>1. job[u] \in {"pending", "failing"} /\ pc'[u] = "answer"
        /\ verdict'[u] \notin Final
    BY <1>4 DEF Continue, Conclude, Go, TargetInv, Stage, Final
  <2>2. QED
    BY <1>4, <2>1 DEF Continue, Conclude, Go, SetStatus, Planned
<1>5. CASE Age(u) \/ Throw(u) \/ Crash(u)
  BY <1>5, SteadyPlanned DEF Age, Throw, Crash, Rest, Conclude, Go, Final
<1>6. QED
  BY <1>1, <1>2, <1>3, <1>4, <1>5

\* Whatever restarts, lapses, runs out of attempts or is edited meanwhile, a row
\* that is to be published has a job or somebody who is about to ask for one; the
\* exceptions are the rows put up without, and a retry whose service dies between
\* its two transactions.
THEOREM NobodyIsStranded == Spec => []NoneIsStranded
<1> DEFINE P == \A t \in Targets : Planned(t)
<1>1. Init => P
  BY DEF Init, Planned, Final
<1>2. IInv /\ P /\ [Next]_vars => P'
  <2> SUFFICES ASSUME IInv, P, [Next]_vars, NEW t \in Targets
               PROVE  Planned(t)'
    BY DEF P
  <2>1. CASE UNCHANGED vars
    BY <2>1 DEF vars, postVars, rowVars, jobVars, runVars, userVars, histVars,
       Planned
  <2>2. CASE Next
    BY <2>2, CommandsPlanned, ServePlanned, ExecutePlanned, OthersPlanned DEF Next
  <2>3. QED
    BY <2>1, <2>2
<1>3. IInv /\ P => NoneIsStranded
  <2> SUFFICES ASSUME IInv, P, NEW t \in live, shelf = "kept"
               PROVE  /\ status[t] = "pending" =>
                           Served(t) \/ t \in retrying \cup unasked
                      /\ status[t] = "publishing" =>
                           \/ Served(t)
                           \/ t \in unasked /\ (asked[t] = "cancel" \/ job[t] = "none")
    BY DEF NoneIsStranded
  <2>1. t \in Targets /\ Planned(t) /\ TargetInv(t)
    BY DEF IInv, TypeOK, P
  <2>2. asked[t] \in {"nothing", "run", "cancel"} /\ job[t] \in JobStatuses
    BY <2>1 DEF IInv, TypeOK
  <2>3. job[t] \in {"done", "gaveup"} => status[t] # "publishing"
    BY <2>1 DEF TargetInv, Stage, Closed
  <2>4. QED
    BY <2>1, <2>2, <2>3 DEF Planned, Served, JobStatuses
<1> HIDE DEF P
<1>4. QED
  BY <1>1, <1>2, <1>3, Invariance, PTL DEF Spec

-----------------------------------------------------------------------------
(* The theorems about the status "published".                              *)

\* Only publishing the whole post anew takes a published row back.
LEMMA PublishedStaysOrRestarts ==
  ASSUME IInv, [Next]_vars, NEW t \in live \cap live',
         status[t] = "published", status'[t] # "published"
  PROVE  status'[t] = "pending" /\ asked'[t] = "run" /\ post' = "publishing"
<1> USE DEF IInv, TypeOK, vars, postVars, rowVars, SetStatus
<1>0. t \in Targets
  OBVIOUS
<1>1. CASE PublishNow
  BY <1>0, <1>1 DEF PublishNow, Ask
<1>2. CASE Commands /\ ~PublishNow
  BY <1>0, <1>2 DEF Commands, Replace, Remove, Retry, EditTarget, Editable,
     ChangeBilling, StopBilledWorkspaceWork
<1>3. ASSUME NEW u \in Targets, Acquire(u) \/ Continue(u) \/ Roll(u) PROVE FALSE
  BY <1>0, <1>3 DEF TargetInv, Unpublished, Working, Acquire, Continue, Holds,
       Roll
<1>4. ASSUME NEW u \in Targets,
             \/ RetryEnqueues(u) \/ RetryDies(u) \/ Serve(u) \/ Provider(u)
             \/ Execute(u) /\ ~Acquire(u) /\ ~Roll(u)
             \/ Age(u) \/ Throw(u) \/ Crash(u)
      PROVE  FALSE
  <2>1. CASE RetryEnqueues(u) \/ RetryDies(u) \/ Age(u) \/ Throw(u) \/ Crash(u)
    BY <2>1 DEF RetryEnqueues, RetryDies, Age, Throw, Crash
  <2>2. CASE Serve(u)
    BY <2>2 DEF Serve, TakeRequest, ClaimRun, ClaimExhausted, Answer
  <2>3. CASE Provider(u)
    BY <2>3 DEF Provider, ResolveFails, OpenSession, Create, Reject,
         SessionGone,
       AnswerLost, AnswerArrives
  <2>4. CASE Execute(u) /\ ~Acquire(u) /\ ~Roll(u)
    BY <2>4 DEF Execute, Gate, Load, AcquireAbandoned, AcquireNot, Persist,
         Settle,
       Refuse, GiveUp
  <2>5. QED
    BY <1>4, <2>1, <2>2, <2>3, <2>4
<1>5. QED
  BY <1>1, <1>2, <1>3, <1>4 DEF Next

\* A published target is taken back by publishNow alone, which asks its job to
\* run again and says so in the post; no late attempt, edit, retry or end of the
\* subscription does it.
THEOREM PublishedIsKept == Spec => PublishedIsFinal
<1>1. IInv /\ [Next]_vars =>
        [\A t \in live \cap live' :
           status[t] = "published" /\ status'[t] # "published" =>
             status'[t] = "pending" /\ asked'[t] = "run" /\ post' = "publishing"]_vars
  BY PublishedStaysOrRestarts
<1>2. QED
  BY <1>1, Invariance, PTL DEF Spec, PublishedIsFinal

\* A rollup to "published" has seen nothing else.
LEMMA RollupPublished ==
  ASSUME NEW S, Rollup(S) = "published"
  PROVE  S = {"published"}
  BY DEF Rollup

\* A transaction that will call the post published has read it so.
LEMMA SummaryPublished ==
  ASSUME Together, NEW t \in Targets, NEW s, Summary(t, s) = "published"
  PROVE  s = "published" /\ \A u \in Targets \ {t} : status[u] = "published"
<1>1. {IF u = t THEN s ELSE status[u] : u \in live} = {"published"}
  BY RollupPublished DEF Summary
<1>2. \A u \in live : (IF u = t THEN s ELSE status[u]) = "published"
  BY <1>1
<1>3. QED
  BY <1>2 DEF Together

\* Steps that leave the statuses alone and bring no transaction to its commit.
LEMMA QuietTogether ==
  ASSUME Together, post' = post, live' = live, status' = status,
         \A t \in Targets : pc'[t] = "roll" =>
           pc[t] = "roll" /\ summary'[t] = summary[t] /\ verdict'[t] = verdict[t]
  PROVE  Together'
  BY DEF Together, AllPublished, StatusAfter

\* Steps that bring the transaction of u to its commit.
LEMMA ReadTogether ==
  ASSUME Together, IInv, NEW u \in Targets, NEW v \in Verdicts,
         post' = post, live' = live, status' = status,
         pc' = [pc EXCEPT ![u] = "roll"],
         summary' = [summary EXCEPT ![u] = Summary(u, StatusAfter(v))],
         verdict' = [verdict EXCEPT ![u] = v]
  PROVE  Together'
<1> USE DEF IInv, TypeOK
<1>1. ASSUME NEW t \in Targets, pc'[t] = "roll", summary'[t] = "published"
      PROVE  /\ StatusAfter(verdict'[t]) = "published"
             /\ \A w \in Targets \ {t} : status[w] = "published"
  <2>1. CASE t = u
    BY <1>1, <2>1, SummaryPublished
  <2>2. CASE t # u
    BY <1>1, <2>2 DEF Together
  <2>3. QED
    BY <2>1, <2>2
<1>2. QED
  BY <1>1 DEF Together, AllPublished, StatusAfter

\* Steps that change the status of rows that are not published, while no
\* transaction on them is open, and do not call the post published.
LEMMA ChangeTogether ==
  ASSUME Together, IInv, live' = live,
         pc' = pc \/ \E u \in Targets : \E p \in Places \ {"roll"} :
                       pc' = [pc EXCEPT ![u] = p],
         verdict' = verdict \/ \E u \in Targets : pc'[u] # "roll"
                       /\ \E v \in Verdicts : verdict' = [verdict EXCEPT ![u] = v],
         summary' = summary,
         post' = "published" => post = "published",
         \A t \in Targets : status'[t] # status[t] => status[t] # "published"
  PROVE  Together'
<1> USE DEF IInv, TypeOK
<1>1. ASSUME NEW t \in Targets, pc'[t] = "roll"
      PROVE  pc[t] = "roll" /\ verdict'[t] = verdict[t]
  BY <1>1
<1>2. AllPublished'
  BY DEF Together, AllPublished
<1>3. ASSUME NEW t \in Targets, pc'[t] = "roll", summary'[t] = "published"
      PROVE  /\ StatusAfter(verdict'[t]) = "published"
             /\ \A u \in Targets \ {t} : status'[u] = "published"
  BY <1>1, <1>3 DEF Together
<1>4. QED
  BY <1>2, <1>3 DEF Together, StatusAfter

\* With no target replaced, no step takes back what a rollup relies on.
LEMMA NextTogether ==
  ASSUME Targets = First, IInv, Together, [Next]_vars
  PROVE  Together'
<1> USE DEF IInv, TypeOK, vars, postVars, rowVars, jobVars, runVars, userVars
<1>1. CASE Commands
  <2>1. CASE PublishNow
    <3>1. \A t \in Targets : pc[t] # "roll"
      BY <2>1 DEF PublishNow, Locked, Together
    <3>2. QED
      BY <2>1, <3>1 DEF PublishNow, SetStatus, Together, AllPublished
  <2>2. ASSUME NEW S \in SUBSET (Targets \ First), Replace(S) PROVE FALSE
    BY <2>2, Targets = First DEF Replace
  <2>3. CASE Remove \/ ChangeBilling
    BY <2>3, QuietTogether DEF Remove, ChangeBilling
  <2>4. ASSUME NEW t \in Targets, Retry(t) PROVE Together'
    BY <2>4, ChangeTogether DEF Retry, SetStatus
  <2>5. ASSUME NEW t \in Targets,
               NEW plan \in {"schedule", "unschedule", "keep"}, EditTarget(t, plan)
        PROVE  Together'
    BY <2>5, ChangeTogether DEF EditTarget, Editable, SetStatus
  <2>6. CASE StopBilledWorkspaceWork
    BY <2>6, ChangeTogether DEF StopBilledWorkspaceWork, SetStatus
  <2>7. QED
    BY <1>1, <2>1, <2>2, <2>3, <2>4, <2>5, <2>6 DEF Commands
<1>2. ASSUME NEW u \in Targets, Serve(u) PROVE Together'
  <2>1. CASE TakeRequest(u)
    BY <2>1, QuietTogether DEF TakeRequest
  <2>2. CASE ClaimRun(u) \/ ClaimExhausted(u)
    BY <2>2, QuietTogether DEF ClaimRun, ClaimExhausted, Go
  <2>3. CASE Answer(u)
    BY <2>3, QuietTogether DEF Answer, Rest, Go
  <2>4. QED
    BY <1>2, <2>1, <2>2, <2>3 DEF Serve
<1>3. ASSUME NEW u \in Targets, Execute(u) PROVE Together'
  <2>1. CASE Gate(u) \/ Load(u) \/ AcquireNot(u) \/ Persist(u)
    BY <2>1, QuietTogether DEF Gate, Load, AcquireNot, Persist, Conclude, Go
  <2>2. CASE Acquire(u)
    BY <2>2, ChangeTogether DEF Acquire, SetStatus, Go, Places
  <2>3. CASE AcquireAbandoned(u)
    <3>1. StatusAfter("uncertain") = "failed"
      BY DEF StatusAfter
    <3>2. QED
      BY <2>3, <3>1, ReadTogether DEF AcquireAbandoned, Conclude, Go, Verdicts
  <2>4. CASE Settle(u)
    <3>1. CASE Fence(u)
      BY <2>4, <3>1, ReadTogether DEF Settle, Go
    <3>2. CASE ~Fence(u)
      BY <2>4, <3>2, QuietTogether DEF Settle, Conclude, Go
    <3>3. QED
      BY <3>1, <3>2
  <2>5. CASE Refuse(u)
    <3>1. verdict[u] = "refused" /\ StatusAfter("refused") = "failed"
      BY <2>5 DEF Refuse, TargetInv, Stage, StatusAfter
    <3>2. summary' = [summary EXCEPT ![u] = Summary(u, StatusAfter("refused"))]
      BY <2>5, <3>1 DEF Refuse
    <3>3. verdict' = [verdict EXCEPT ![u] = "refused"]
      <4>1. verdict' = verdict /\ verdict \in [Targets -> Verdicts]
        BY <2>5 DEF Refuse
      <4>2. verdict = [t \in Targets |-> verdict[t]]
        BY <4>1
      <4>3. QED
        BY <3>1, <4>1, <4>2
    <3>4. "refused" \in Verdicts
      BY DEF Verdicts
    <3>5. QED
      BY <2>5, <3>2, <3>3, <3>4, ReadTogether DEF Refuse, Go
  <2>6. CASE GiveUp(u)
    <3>1. StatusAfter("gaveup") = "failed"
      BY DEF StatusAfter
    <3>2. CASE OnRecord(u)
      BY <2>6, <3>2, QuietTogether DEF GiveUp, Go
    <3>3. CASE ~OnRecord(u) /\ GivesUp(u)
      BY <2>6, <3>1, <3>3, ReadTogether DEF GiveUp, Conclude, Go, Verdicts
    <3>4. CASE ~OnRecord(u) /\ ~GivesUp(u)
      BY <2>6, <3>4, QuietTogether DEF GiveUp, Conclude, Go
    <3>5. QED
      BY <3>2, <3>3, <3>4
  <2>7. CASE Roll(u)
    <3>1. /\ live = Targets
          /\ status' = [t \in Targets |->
                          IF t = u THEN StatusAfter(verdict[u]) ELSE status[t]]
      BY <2>7 DEF Roll, SetStatus, Together
    <3>2. AllPublished'
      BY <2>7, <3>1 DEF Roll, Together, AllPublished
    <3>3. ASSUME NEW t \in Targets, pc'[t] = "roll", summary'[t] = "published"
          PROVE  FALSE
      <4>1. t # u /\ pc[t] = "roll" /\ summary[t] = "published"
        BY <2>7, <3>3 DEF Roll, Go
      <4>2. status[u] = "published"
        BY <4>1 DEF Together
      <4>3. status[u] # "published"
        BY <2>7, <3>1 DEF Roll, TargetInv, Unpublished, Working
      <4>4. QED
        BY <4>2, <4>3
    <3>4. QED
      BY <2>7, <3>1, <3>2, <3>3 DEF Roll, Together
  <2>8. QED
    BY <1>3, <2>1, <2>2, <2>3, <2>4, <2>5, <2>6, <2>7 DEF Execute
<1>4. ASSUME NEW u \in Targets, Provider(u) PROVE Together'
  BY <1>4, QuietTogether DEF Provider, ResolveFails, OpenSession, Create,
       Reject, SessionGone, AnswerLost, AnswerArrives, Conclude, Go
<1>5. ASSUME NEW u \in Targets, RetryEnqueues(u) \/ RetryDies(u) \/ Age(u)
      PROVE  Together'
  BY <1>5, QuietTogether DEF RetryEnqueues, RetryDies, Age
<1>6. ASSUME NEW u \in Targets, Throw(u) \/ Crash(u) PROVE Together'
  BY <1>6, QuietTogether DEF Throw, Crash, Rest, Conclude, Go
<1>7. ASSUME NEW u \in Targets, Continue(u) PROVE Together'
  <2>1. /\ live' = live /\ summary' = summary /\ post' = post
        /\ pc' = [pc EXCEPT ![u] = "answer"]
        /\ verdict' = [verdict EXCEPT ![u] = "later"]
    BY <1>7 DEF Continue, Conclude, Go
  <2>2. \A t \in Targets : status'[t] # status[t] => status[t] # "published"
    BY <1>7 DEF Continue, Holds, SetStatus
  <2>3. pc'[u] # "roll" /\ "answer" \in Places \ {"roll"} /\ "later" \in Verdicts
    BY <2>1 DEF Places, Verdicts
  <2> HIDE DEF IInv
  <2>4. QED
    BY <2>1, <2>2, <2>3, ChangeTogether
<1>8. CASE UNCHANGED vars
  BY <1>8, QuietTogether
<1>9. QED
  BY <1>1, <1>2, <1>3, <1>4, <1>5, <1>6, <1>7, <1>8 DEF Next

\* While no target of the post is replaced, it is only called published when
\* all of its targets are, in whatever order their transactions read and
\* commit.
THEOREM PublishedIsTrue ==
  ASSUME Targets = First
  PROVE  Spec => []PublishedMeansAll
<1>1. Init => Together
  BY Targets = First DEF Init, Together, AllPublished
<1>2. IInv /\ Together /\ [Next]_vars => Together'
  BY Targets = First, NextTogether
<1>3. Together => PublishedMeansAll
  BY DEF Together, AllPublished, PublishedMeansAll
<1>4. QED
  BY <1>1, <1>2, <1>3, Invariance, PTL DEF Spec

-----------------------------------------------------------------------------
(* Publishing implements Publication.                                      *)

\* What is on record, or about to be, was created; what is about to be shown is
\* on record; and no target is shown before the post has it.
Made(t) ==
  /\ pc[t] \in {"created", "persist"} => created[t] > 0
  /\ t \in confirmed \cup uploaded => created[t] > 0
  /\ pc[t] \in {"settle", "roll"} /\ verdict[t] = "published" => OnRecord(t)
  /\ live = First /\ t \notin First => status[t] # "published"

\* Steps that keep the row, the record and the upload of t, and bring its
\* execution to no place of which Made speaks.
LEMMA SteadyMade ==
  ASSUME NEW t \in Targets, Made(t), live' = live, status'[t] = status[t],
         created'[t] = created[t],
         t \in confirmed' => t \in confirmed,
         t \in confirmed => t \in confirmed',
         t \in uploaded' => t \in uploaded,
         \/ pc'[t] \notin {"created", "persist", "settle", "roll"}
         \/ pc'[t] \in {"settle", "roll"} /\ verdict'[t] # "published"
         \/ pc'[t] = pc[t] /\ verdict'[t] = verdict[t]
         \/ pc[t] = "settle" /\ pc'[t] = "roll" /\ verdict'[t] = verdict[t]
  PROVE  Made(t)'
  BY DEF Made, OnRecord

\* Every step preserves it.
LEMMA NextMade ==
  ASSUME IInv, NEW t \in Targets, Made(t), [Next]_vars
  PROVE  Made(t)'
<1> USE DEF IInv, TypeOK, vars, postVars, rowVars, jobVars, runVars, userVars,
            histVars
<1>1. CASE Commands
  <2>1. ASSUME NEW S \in SUBSET (Targets \ First), Replace(S) PROVE Made(t)'
    <3>1. live' # First
      BY <2>1, TargetsAssumption DEF Replace
    <3>2. QED
      BY <2>1, <3>1 DEF Replace, Made, OnRecord
  <2>2. CASE ~\E S \in SUBSET (Targets \ First) : Replace(S)
    BY <1>1, <2>2 DEF Commands, Remove, Retry, EditTarget, PublishNow,
       ChangeBilling, StopBilledWorkspaceWork, SetStatus, Made, OnRecord
  <2>3. QED
    BY <2>1, <2>2
<1>2. ASSUME NEW u \in Targets, Serve(u) PROVE Made(t)'
  BY <1>2, SteadyMade DEF Serve, TakeRequest, ClaimRun, ClaimExhausted, Answer,
     Rest, Go
<1>3. ASSUME NEW u \in Targets, Execute(u) PROVE Made(t)'
  <2>1. CASE t # u
    BY <1>3, <2>1, SteadyMade DEF Execute, Gate, Load, Acquire, AcquireAbandoned,
       AcquireNot, Persist, Settle, Refuse, GiveUp, Roll, Go, Conclude, SetStatus
  <2>2. CASE Gate(t) \/ AcquireAbandoned(t) \/ AcquireNot(t) \/ Settle(t)
             \/ GiveUp(t)
    BY <2>2, SteadyMade DEF Gate, AcquireAbandoned, AcquireNot, Settle, GiveUp,
       Go, Conclude
  <2>3. CASE Load(t)
    BY <2>3 DEF Load, Go, Conclude, Made, OnRecord
  <2>4. CASE Refuse(t)
    BY <2>4, SteadyMade DEF Refuse, Go, TargetInv, Stage
  <2>5. CASE Acquire(t)
    BY <2>5 DEF Acquire, SetStatus, Go, Made, OnRecord
  <2>6. CASE Persist(t)
    BY <2>6 DEF Persist, Go, Conclude, Made, OnRecord
  <2>7. CASE Roll(t)
    BY <2>7 DEF Roll, SetStatus, Go, Made, OnRecord
  <2>8. QED
    BY <1>3, <2>1, <2>2, <2>3, <2>4, <2>5, <2>6, <2>7 DEF Execute
<1>4. ASSUME NEW u \in Targets, Provider(u) PROVE Made(t)'
  <2>1. CASE t # u
    BY <1>4, <2>1, SteadyMade DEF Provider, ResolveFails, OpenSession, Create,
       Reject, SessionGone, AnswerLost, AnswerArrives, Go, Conclude
  <2>2. CASE ResolveFails(t) \/ OpenSession(t) \/ Reject(t) \/ SessionGone(t)
             \/ AnswerLost(t)
    BY <2>2, SteadyMade DEF ResolveFails, OpenSession, Reject, SessionGone,
       SessionVerdict, AnswerLost, Go, Conclude
  <2>3. CASE Create(t)
    BY <2>3 DEF Create, Go, Made, OnRecord
  <2>4. CASE AnswerArrives(t)
    BY <2>4 DEF AnswerArrives, Go, Conclude, Made, OnRecord
  <2>5. QED
    BY <1>4, <2>1, <2>2, <2>3, <2>4 DEF Provider
<1>5. ASSUME NEW u \in Targets,
             RetryEnqueues(u) \/ RetryDies(u) \/ Age(u) \/ Throw(u) \/ Crash(u)
      PROVE  Made(t)'
  BY <1>5, SteadyMade DEF RetryEnqueues, RetryDies, Age, Throw, Crash, Rest,
     Conclude, Go
<1>6. ASSUME NEW u \in Targets, Continue(u) PROVE Made(t)'
  BY <1>6 DEF Continue, Conclude, Go, SetStatus, Holds, Made, OnRecord
<1>7. CASE UNCHANGED vars
  BY <1>7 DEF Made, OnRecord
<1>8. QED
  BY <1>1, <1>2, <1>3, <1>4, <1>5, <1>6, <1>7 DEF Next

\* The targets shown, as Publication sees them.
Shown == {t \in Targets : status[t] = "published"}

\* Steps that Publication does not see.
LEMMA QuietPromise ==
  ASSUME created' = created, requests' = requests, confirmed' = confirmed,
         Shown' = Shown
  PROVE  UNCHANGED Promise!pubVars
  BY DEF Shown, Promise!pubVars

\* A command puts up the targets it counts, none of which stays shown.
LEMMA CommandsKeepPromise ==
  ASSUME IInv, \A t \in Targets : Made(t), Commands
  PROVE  [Promise!Next]_Promise!pubVars
<1> USE DEF IInv, TypeOK, postVars, rowVars, jobVars, histVars
<1>1. ASSUME NEW S \in SUBSET Targets, Request(S), Shown' = Shown \ S,
             created' = created, confirmed' = confirmed
      PROVE  Promise!Next
  <2>1. Promise!PutUp(S)
    BY <1>1 DEF Request, Shown, Promise!PutUp
  <2>2. QED
    BY <2>1 DEF Promise!Next
<1>2. ASSUME NEW S \in SUBSET (Targets \ First), Replace(S) PROVE Promise!Next
  BY <1>1, <1>2 DEF Replace, Made, Shown
<1>3. ASSUME NEW u \in Targets, Retry(u) PROVE Promise!Next
  <2>1. Request({u}) /\ Shown' = Shown \ {u}
    BY <1>3 DEF Retry, SetStatus, Shown
  <2>2. QED
    BY <1>1, <1>3, <2>1 DEF Retry
<1>4. ASSUME NEW u \in Targets, NEW plan \in {"schedule", "unschedule", "keep"},
             EditTarget(u, plan)
      PROVE  Promise!Next
  <2>1. Request({u}) /\ Shown' = Shown \ {u}
    BY <1>4 DEF EditTarget, Editable, SetStatus, Shown
  <2>2. QED
    BY <1>1, <1>4, <2>1 DEF EditTarget
<1>5. CASE PublishNow
  <2>1. Request(live) /\ Shown' = Shown \ live
    BY <1>5 DEF PublishNow, SetStatus, Shown
  <2>2. QED
    BY <1>1, <1>5, <2>1 DEF PublishNow
<1>6. CASE Remove \/ ChangeBilling \/ StopBilledWorkspaceWork
  <2>1. Shown' = Shown
    BY <1>6 DEF Remove, ChangeBilling, StopBilledWorkspaceWork, SetStatus, Shown
  <2>2. QED
    BY <1>6, <2>1, QuietPromise DEF Remove, ChangeBilling,
       StopBilledWorkspaceWork
<1>7. QED
  BY <1>2, <1>3, <1>4, <1>5, <1>6 DEF Commands

\* The provider creates a target for a command that has not had its creation,
\* and with nothing on record.
LEMMA ProviderKeepsPromise ==
  ASSUME IInv, NEW u \in Targets, Provider(u)
  PROVE  [Promise!Next]_Promise!pubVars
<1> USE DEF IInv, TypeOK, postVars, rowVars, histVars
<1>1. CASE Create(u) /\ u \notin uploaded
  <2>1. u \notin confirmed
    BY <1>1 DEF Create, TargetInv, Unrecorded, OnRecord
  <2>2. u \in Targets \ Unguarded => created[u] < requests[u]
    <3>1. requests[u] > 0
      BY <1>1 DEF Create, TargetInv, Stage, Asked
    <3>2. Due(u) \in Nat /\ Due(u) > 0
      BY <1>1 DEF Create, Due, Flag
    <3>3. created[u] \in Nat /\ requests[u] \in Nat
      OBVIOUS
    <3>4. u \notin Unguarded => created[u] + Due(u) <= requests[u]
      BY <3>1, <3>3 DEF TargetInv, Credit
    <3>5. QED
      BY <3>2, <3>3, <3>4
  <2>3. Promise!Make(u)
    BY <1>1, <2>1, <2>2 DEF Create, Promise!Make
  <2>4. QED
    BY <2>3 DEF Promise!Next
<1>2. CASE ~(Create(u) /\ u \notin uploaded)
  BY <1>2, QuietPromise DEF Provider, ResolveFails, OpenSession, Create, Reject,
     SessionGone, AnswerLost, AnswerArrives, Shown
<1>3. QED
  BY <1>1, <1>2

\* An execution records what was created and shows what is on record.
LEMMA ExecuteKeepsPromise ==
  ASSUME IInv, NEW u \in Targets, Made(u), Execute(u)
  PROVE  [Promise!Next]_Promise!pubVars
<1> USE DEF IInv, TypeOK, postVars, rowVars, histVars
<1>1. CASE Persist(u)
  <2>1. CASE Holds(u)
    <3>1. Promise!Record(u)
      BY <1>1, <2>1 DEF Persist, Made, Shown, Promise!Record
    <3>2. QED
      BY <3>1 DEF Promise!Next
  <2>2. CASE ~Holds(u)
    BY <1>1, <2>2, QuietPromise DEF Persist, Shown
  <2>3. QED
    BY <2>1, <2>2
<1>2. CASE Roll(u)
  <2>1. CASE u \in live /\ verdict[u] = "published"
    <3>1. Shown' = Shown \cup {u} /\ u \in confirmed
      BY <1>2, <2>1 DEF Roll, SetStatus, StatusAfter, Shown, Made, OnRecord
    <3>2. Promise!Show(u)
      BY <1>2, <3>1 DEF Roll, Shown, Promise!Show
    <3>3. QED
      BY <3>2 DEF Promise!Next
  <2>2. CASE ~(u \in live /\ verdict[u] = "published")
    <3>1. Shown' = Shown
      BY <1>2, <2>2 DEF Roll, SetStatus, StatusAfter, Shown, TargetInv,
         Unpublished, Working
    <3>2. QED
      BY <1>2, <3>1, QuietPromise DEF Roll
  <2>3. QED
    BY <2>1, <2>2
<1>3. CASE Acquire(u)
  <2>1. Shown' = Shown
    BY <1>3 DEF Acquire, SetStatus, Shown
  <2>2. QED
    BY <1>3, <2>1, QuietPromise DEF Acquire
<1>4. CASE Gate(u) \/ Load(u) \/ AcquireAbandoned(u) \/ AcquireNot(u)
           \/ Settle(u) \/ Refuse(u) \/ GiveUp(u)
  BY <1>4, QuietPromise DEF Gate, Load, AcquireAbandoned, AcquireNot, Settle,
     Refuse, GiveUp, Shown
<1>5. QED
  BY <1>1, <1>2, <1>3, <1>4 DEF Execute

\* Whatever happens to its jobs, its leases and the provider's answers, a target
\* is created only for a command and with nothing on record, recorded only when
\* it was created, shown only when it is on record, and taken back by a command
\* only.
THEOREM PublishingImplements == Spec => ImplementsPublication
<1> DEFINE M == \A t \in Targets : Made(t)
<1>1. Init => Promise!Init /\ M
  <2> SUFFICES ASSUME Init PROVE Promise!Init /\ M
    OBVIOUS
  <2>1. requests \in [Targets -> {0, 1}] /\ created = [t \in Targets |-> 0]
    BY DEF Init
  <2>2. confirmed = {} /\ {t \in Targets : status[t] = "published"} = {}
    BY DEF Init
  <2>3. Promise!Init
    BY <2>1, <2>2 DEF Promise!Init
  <2>4. M
    BY DEF Init, Made, OnRecord
  <2>5. QED
    BY <2>3, <2>4
<1>2. IInv /\ M /\ [Next]_vars => M'
  BY NextMade
<1>3. IInv /\ M /\ [Next]_vars => [Promise!Next]_Promise!pubVars
  <2> SUFFICES ASSUME IInv, M, [Next]_vars
               PROVE  [Promise!Next]_Promise!pubVars
    OBVIOUS
  <2>1. CASE UNCHANGED vars
    BY <2>1, QuietPromise DEF vars, rowVars, histVars, Shown
  <2>2. CASE Commands
    BY <2>2, CommandsKeepPromise
  <2>3. ASSUME NEW u \in Targets, Provider(u) \/ Execute(u)
        PROVE  [Promise!Next]_Promise!pubVars
    BY <2>3, ProviderKeepsPromise, ExecuteKeepsPromise
  <2>4. ASSUME NEW u \in Targets, Continue(u)
        PROVE  [Promise!Next]_Promise!pubVars
    <3>1. Shown' = Shown
      BY <2>4 DEF Continue, SetStatus, Holds, Shown, IInv, TypeOK
    <3>2. QED
      BY <2>4, <3>1, QuietPromise DEF Continue, histVars
  <2>5. ASSUME NEW u \in Targets,
               \/ RetryEnqueues(u) \/ RetryDies(u) \/ Serve(u)
               \/ Age(u) \/ Throw(u) \/ Crash(u)
        PROVE  [Promise!Next]_Promise!pubVars
    <3>1. /\ created' = created /\ requests' = requests
          /\ confirmed' = confirmed /\ status' = status
      BY <2>5 DEF RetryEnqueues, RetryDies, Serve, TakeRequest, ClaimRun,
         ClaimExhausted, Answer, Age, Throw, Crash, rowVars, histVars
    <3>2. QED
      BY <3>1, QuietPromise DEF Shown
  <2>6. QED
    BY <2>1, <2>2, <2>3, <2>4, <2>5 DEF Next
<1> HIDE DEF M
<1>4. QED
  BY <1>1, <1>2, <1>3, Invariance, PTL DEF Spec, ImplementsPublication,
     Promise!Spec
=============================================================================
