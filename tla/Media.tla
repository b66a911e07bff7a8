------------------------------- MODULE Media -------------------------------
(***************************************************************************)
(* The media of one payer: the rows of table media, the objects in R2, the *)
(* payer's count of stored bytes and the jobs that delete                  *)
(* (services/src/media.ts, services/src/quota.ts, apps/api/src/            *)
(* execute-job.ts).  Every file is one unit long.                          *)
(*                                                                         *)
(* Jobs run in durable job objects: a job that is asked for again while it *)
(* is being executed is executed once more afterwards, and one that fails  *)
(* is repeated until its attempts are used up, after which nobody runs it  *)
(* again.  The database runs at READ COMMITTED.                            *)
(***************************************************************************)
EXTENDS Naturals, FiniteSets

CONSTANTS
  Callers,    \* requests to complete or import that run at a time
  Keys,       \* idempotency keys of imports
  Limit,      \* limits.mediaStorageBytes of the plan
  MaxAttempts,\* maxAttempts of a job (5)
  MaxFiles,   \* bound: rows of media
  MaxCommands,\* bound: commands of users but for creations, and imports
  MaxFaults   \* bound: executions that fail

ASSUME MediaAssumption ==
  /\ Limit \in Nat \ {0} /\ MaxAttempts \in Nat \ {0} /\ MaxFiles \in Nat
  /\ MaxCommands \in Nat /\ MaxFaults \in Nat

Files == 1..MaxFiles  \* in the order of their creation
NoFile == 0
NoKey == "no key"

ASSUME NoKeyAssumption == NoKey \notin Keys

VARIABLES
  \* media.
  created,   \* how many rows there are
  row,       \* their status
  deleted,   \* rows whose deleted_at is set
  keyed,     \* import_key
  elsewhere, \* what the payer's other workspaces store
  \* Time, as far as the code compares with it.
  aged,      \* the first of them are older than six hours, so that their
             \* upload URLs, valid for one, have expired
  today,     \* the last row created on the current day
  \* R2, and the posts that are not published yet.
  stored,    \* rows whose object exists
  referred,  \* rows that such a post refers to
  \* subscriptions.media_storage_bytes.
  used,
  \* Jobs.
  sweeps,    \* SweepPendingMedia of each day, by the last row of the day
  reclaims,  \* ReclaimMedia
  unreferred,\* those in execution that have found no reference
  purges,    \* DeleteMediaObject
  purging,   \* those in execution whose object is removed
  blocked,   \* those whose recount waits for the payer's row
  total,     \* the total that it will write
  tried,     \* the attempts of each job that have failed since it was asked
             \* for, or since an execution of it succeeded
  \* media_imports and the requests.
  imports,   \* status, and whether updated_at is five minutes old
  call,      \* place, the file and the key of each request
  commands, faults,
  \* History.
  origin,    \* the key of the import that created a row, unless a user has
             \* completed the row himself
  overtaken, \* whether a recount has written a total that was out of date
  late       \* rows whose object was written after their deletion

mediaVars == <<created, row, deleted, keyed, elsewhere>>
timeVars == <<aged, today>>
jobVars == <<sweeps, reclaims, unreferred, purges, purging, blocked, total,
             tried>>
histVars == <<origin, overtaken, late>>
vars == <<mediaVars, timeVars, stored, referred, used, jobVars, imports, call,
          commands, faults, histVars>>

Kinds == {"sweep", "reclaim", "purge"}
Idle == [at |-> "idle", file |-> NoFile, key |-> NoKey]
Unclaimed == [status |-> "none", stale |-> FALSE]

Init ==
  /\ created = 0 /\ row = [m \in Files |-> "none"] /\ deleted = {}
  /\ keyed = [m \in Files |-> NoKey]
  /\ aged = 0 /\ today = NoFile
  /\ stored = {} /\ referred = {}
  /\ elsewhere \in 0..1 /\ used = elsewhere
  /\ sweeps = {} /\ reclaims = {} /\ unreferred = {}
  /\ purges = {} /\ purging = {} /\ blocked = {}
  /\ total = [m \in Files |-> 0]
  /\ tried = [kind \in Kinds |-> [m \in Files |-> 0]]
  /\ imports = [k \in Keys |-> Unclaimed]
  /\ call = [c \in Callers |-> Idle] /\ commands = 0 /\ faults = 0
  /\ origin = [m \in Files |-> NoKey] /\ overtaken = FALSE /\ late = {}

Rows == 1..created
Undeleted == Rows \ deleted

\* What the recount adds up: size_bytes is zero until complete.
Live == {m \in Undeleted : row[m] = "ready"}

At(c, place) == call[c].at = place
Goes(c, place) == call' = [call EXCEPT ![c].at = place]
Ends(c) == call' = [call EXCEPT ![c] = Idle]
Command == commands < MaxCommands /\ commands' = commands + 1
Fault == faults < MaxFaults /\ faults' = faults + 1

\* Jobs that are asked for again, or have succeeded, have all attempts ahead.
Untried(kind, files) ==
  [m \in Files |-> IF m \in files THEN 0 ELSE tried[kind][m]]

\* After a failure a job is due again, unless that was its last attempt: then
\* it is closed, and failJob does nothing for jobs of these kinds.
Failed(kind, m) == [tried EXCEPT ![kind][m] = @ + 1]
DueAgain(kind, m, due) ==
  IF tried[kind][m] + 1 < MaxAttempts THEN due \cup {m} ELSE due \ {m}
Closed(kind) == {m \in Files : tried[kind][m] = MaxAttempts}

\* Fault: the SELECT is not FOR UPDATE.
LockedNever == FALSE

\* The row of subscriptions is locked by reserveMediaStorage.
Locked == \E c \in Callers : At(c, "reserved")

-----------------------------------------------------------------------------
(* Uploads.                                                                *)

\* The key of the sweep names the day, so that each creation puts the sweep
\* of its day off to six hours after itself.
Sweeps == (sweeps \ {today}) \cup {created + 1}

\* createUploads, within its transaction.
Creates(key) ==
  /\ used < Limit /\ created < MaxFiles
  /\ created' = created + 1
  /\ row' = [row EXCEPT ![created + 1] = "pending"]
  /\ sweeps' = Sweeps
  /\ tried' = [tried EXCEPT !["sweep"] = Untried("sweep", {today, created + 1})]
  /\ today' = created + 1
  /\ origin' = [origin EXCEPT ![created + 1] = key]
  /\ UNCHANGED <<deleted, keyed, elsewhere, aged, reclaims, unreferred, purges,
                 purging, blocked, total, overtaken, late>>

CreateUpload ==
  /\ Creates(NoKey)
  /\ UNCHANGED <<stored, referred, used, imports, call, commands, faults>>

\* The object is written through the presigned URL.
Writes(m) ==
  /\ m > aged
  /\ stored' = stored \cup {m}
  /\ late' = IF m \in deleted THEN late \cup {m} ELSE late
  /\ UNCHANGED <<mediaVars, timeVars, referred, used, jobVars, imports,
                 commands, origin, overtaken>>

Put(m) ==
  /\ m \in Rows /\ m \notin stored /\ Writes(m)
  /\ UNCHANGED <<call, faults>>

-----------------------------------------------------------------------------
(* complete, for one file.                                                 *)

\* The row is read, without a lock.
Completable(m) == m \in Undeleted /\ row[m] = "pending"

Complete(c, m) ==
  /\ At(c, "idle") /\ Command /\ Completable(m)
  /\ call' = [call EXCEPT ![c] = [Idle EXCEPT !.at = "head", !.file = m]]
  /\ UNCHANGED <<mediaVars, timeVars, stored, referred, used, jobVars, imports,
                 faults, histVars>>

\* importFromUrl completes its file the same way.
Begins(c) ==
  /\ At(c, "begin")
  /\ CASE call[c].file \in deleted -> Ends(c)
       [] row[call[c].file] = "ready" -> Goes(c, "imported")
       [] OTHER -> Goes(c, "head")
  /\ UNCHANGED <<mediaVars, timeVars, stored, referred, used, jobVars, imports,
                 commands, faults, histVars>>

\* r2.head fails when there is no object.
Heads(c) ==
  /\ At(c, "head")
  /\ IF call[c].file \in stored THEN Goes(c, "reserve") ELSE Ends(c)
  /\ UNCHANGED <<mediaVars, timeVars, stored, referred, used, jobVars, imports,
                 commands, faults, histVars>>

\* reserveMediaStorage, which locks the payer's row.
Fits == used + 1 <= Limit

Reserves(c) ==
  /\ At(c, "reserve") /\ ~Locked
  /\ IF Fits THEN Goes(c, "reserved") ELSE Ends(c)
  /\ UNCHANGED <<mediaVars, timeVars, stored, referred, used, jobVars, imports,
                 commands, faults, histVars>>

\* The row as the UPDATE of complete leaves it, whatever it was.
Readied(m) == [row EXCEPT ![m] = "ready"]

\* Fault: the UPDATE clears deleted_at.
LeftUndeleted(m) == deleted \ {m}

LeftDeleted(m) == deleted

Commits(c) ==
  /\ At(c, "reserved")
  /\ used' = used + 1
  /\ row' = Readied(call[c].file)
  /\ deleted' = LeftDeleted(call[c].file)
  /\ IF call[c].key = NoKey
     THEN Ends(c) /\ origin' = [origin EXCEPT ![call[c].file] = NoKey]
     ELSE Goes(c, "imported") /\ UNCHANGED origin
  /\ UNCHANGED <<created, keyed, elsewhere, timeVars, stored, referred,
                 jobVars, imports, commands, faults, overtaken, late>>

\* The request stops, or one of its statements fails.
Dies(c) ==
  /\ ~At(c, "idle") /\ Ends(c)
  /\ UNCHANGED <<mediaVars, timeVars, stored, referred, used, jobVars, imports,
                 commands, faults, histVars>>

-----------------------------------------------------------------------------
(* importFromUrl with an idempotency key.                                  *)

\* The upsert into media_imports.  A claim is taken over five minutes after
\* it was made, whatever has become of it; nothing sets it to "failed".
Import(c, k) ==
  /\ At(c, "idle") /\ Command
  /\ imports[k].status = "none" \/ imports[k].stale
  /\ imports' = [imports EXCEPT ![k].status = "pending", ![k].stale = FALSE]
  /\ call' = [call EXCEPT ![c] = [Idle EXCEPT !.at = "fetch", !.key = k]]
  /\ UNCHANGED <<mediaVars, timeVars, stored, referred, used, jobVars, faults,
                 histVars>>

\* The URL, the answer or the payer's quota is refused.
Refused(c) ==
  /\ At(c, "fetch") /\ Ends(c)
  /\ UNCHANGED <<mediaVars, timeVars, stored, referred, used, jobVars, imports,
                 commands, faults, histVars>>

Fetched(c) ==
  /\ At(c, "fetch") /\ Creates(call[c].key)
  /\ call' = [call EXCEPT ![c].at = "put", ![c].file = created + 1]
  /\ UNCHANGED <<stored, referred, used, imports, commands, faults>>

Puts(c) ==
  /\ At(c, "put") /\ Writes(call[c].file)
  /\ Goes(c, "key")
  /\ UNCHANGED faults

\* Fault: the index is not unique.
TakenNever(key) == FALSE

\* media_workspace_import_key_idx.
Taken(key) == \E m \in Undeleted : keyed[m] = key

\* The key is written before the file is completed; when another row has it
\* the request dies, and its row is left to the sweep.
SetsKey(c) ==
  LET m == call[c].file IN
  /\ At(c, "key")
  /\ IF m \notin deleted /\ Taken(call[c].key)
     THEN Ends(c) /\ UNCHANGED keyed
     ELSE /\ keyed' = [keyed EXCEPT ![m] = call[c].key]
          /\ Goes(c, "begin")
  /\ UNCHANGED <<created, row, deleted, elsewhere, timeVars, stored, referred,
                 used, jobVars, imports, commands, faults, histVars>>

Imported(c) ==
  /\ At(c, "imported")
  /\ imports' = [imports EXCEPT ![call[c].key].status = "completed"]
  /\ Ends(c)
  /\ UNCHANGED <<mediaVars, timeVars, stored, referred, used, jobVars,
                 commands, faults, histVars>>

\* Bound: a claim that no command is left to take over need not lapse.
ImportLapses(k) ==
  /\ commands < MaxCommands
  /\ imports[k].status # "none" /\ ~imports[k].stale
  /\ imports' = [imports EXCEPT ![k].stale = TRUE]
  /\ UNCHANGED <<mediaVars, timeVars, stored, referred, used, jobVars, call,
                 commands, faults, histVars>>

-----------------------------------------------------------------------------
(* Deletion.                                                               *)

\* MediaService.remove: the row is found undeleted.
Remove(m) ==
  /\ Command
  /\ m \in Undeleted
  /\ reclaims' = reclaims \cup {m}
  /\ tried' = [tried EXCEPT !["reclaim"][m] = 0]
  /\ UNCHANGED <<mediaVars, timeVars, stored, referred, used, sweeps,
                 unreferred, purges, purging, blocked, total, imports, call,
                 faults, histVars>>

\* A post is written that refers to the file: PostService does not look at
\* the table media.
Refer(m) ==
  /\ Command
  /\ m \in Rows /\ m \notin referred
  /\ referred' = referred \cup {m}
  /\ UNCHANGED <<mediaVars, timeVars, stored, used, jobVars, imports, call,
                 faults, histVars>>

\* The post is deleted, or is published, after which the file is kept for
\* the retention period of the plan, if it has one.
Release(m) ==
  /\ Command
  /\ m \in referred
  /\ referred' = referred \ {m}
  /\ \/ UNCHANGED <<reclaims, tried>>
     \/ /\ reclaims' = reclaims \cup {m}
        /\ tried' = [tried EXCEPT !["reclaim"][m] = 0]
  /\ UNCHANGED <<mediaVars, timeVars, stored, used, sweeps, unreferred, purges,
                 purging, blocked, total, imports, call, faults, histVars>>

\* ReclaimMedia looks for a reference, and comes back a day later while there
\* is one.
Looks(m) ==
  /\ m \in reclaims \ unreferred
  /\ IF m \in referred
     THEN /\ tried' = [tried EXCEPT !["reclaim"][m] = 0]
          /\ UNCHANGED <<reclaims, unreferred>>
     ELSE /\ reclaims' = reclaims \ {m}
          /\ unreferred' = unreferred \cup {m}
          /\ UNCHANGED tried
  /\ UNCHANGED <<mediaVars, timeVars, stored, referred, used, sweeps, purges,
                 purging, blocked, total, imports, call, commands, faults,
                 histVars>>

\* Fault: while one is waiting no other is enqueued.
PurgesOnce(files) == IF purges = {} THEN files ELSE purges

\* The deletion of a row asks for that of its object.
Purges(files) == purges \cup files

Reclaims(m) ==
  /\ m \in unreferred
  /\ deleted' = deleted \cup {m}
  /\ purges' = Purges({m})
  /\ unreferred' = unreferred \ {m}
  /\ tried' = [tried EXCEPT !["reclaim"][m] = 0, !["purge"][m] = 0]
  /\ UNCHANGED <<created, row, keyed, elsewhere, timeVars, stored, referred,
                 used, sweeps, reclaims, purging, blocked, total, imports,
                 call, commands, faults, histVars>>

\* It fails, before the transaction or in it; when it has been asked for again
\* meanwhile, the new request takes its place.
ReclaimFails(m) ==
  /\ m \in reclaims \cup unreferred /\ Fault
  /\ unreferred' = unreferred \ {m}
  /\ IF m \in reclaims \cap unreferred
     THEN UNCHANGED <<reclaims, tried>>
     ELSE /\ reclaims' = DueAgain("reclaim", m, reclaims)
          /\ tried' = Failed("reclaim", m)
  /\ UNCHANGED <<mediaVars, timeVars, stored, referred, used, sweeps, purges,
                 purging, blocked, total, imports, call, commands, histVars>>

\* SweepPendingMedia of one day, six hours after the day's last creation.
Swept == {m \in Undeleted : row[m] = "pending" /\ m <= aged}

Sweep(d) ==
  /\ d \in sweeps /\ d <= aged
  /\ sweeps' = sweeps \ {d}
  /\ deleted' = deleted \cup Swept
  /\ row' = [m \in Files |-> IF m \in Swept THEN "failed" ELSE row[m]]
  /\ purges' = Purges(Swept)
  /\ tried' = [tried EXCEPT !["sweep"][d] = 0,
                            !["purge"] = Untried("purge", Swept)]
  /\ UNCHANGED <<created, keyed, elsewhere, timeVars, stored, referred, used,
                 reclaims, unreferred, purging, blocked, total, imports, call,
                 commands, faults, histVars>>

SweepFails(d) ==
  /\ d \in sweeps /\ d <= aged /\ Fault
  /\ sweeps' = DueAgain("sweep", d, sweeps)
  /\ tried' = Failed("sweep", d)
  /\ UNCHANGED <<mediaVars, timeVars, stored, referred, used, reclaims,
                 unreferred, purges, purging, blocked, total, imports, call,
                 commands, histVars>>

\* DeleteMediaObject: r2.remove, then the recount.
Purge(m) ==
  /\ m \in purges /\ m \notin purging
  /\ purges' = purges \ {m} /\ purging' = purging \cup {m}
  /\ stored' = stored \ {m}
  /\ UNCHANGED <<mediaVars, timeVars, referred, used, sweeps, reclaims,
                 unreferred, blocked, total, tried, imports, call, commands,
                 faults, histVars>>

\* The recount is one statement.  It adds up what is committed when it
\* starts, and when the payer's row is locked then it writes that total later.
Total == elsewhere + Cardinality(Live)

Recounts(m) ==
  /\ m \in purging \ blocked
  /\ IF Locked
     THEN /\ blocked' = blocked \cup {m}
          /\ total' = [total EXCEPT ![m] = Total]
          /\ UNCHANGED <<used, purging, tried>>
     ELSE /\ used' = Total /\ purging' = purging \ {m}
          /\ tried' = [tried EXCEPT !["purge"][m] = 0]
          /\ UNCHANGED <<blocked, total>>
  /\ UNCHANGED <<mediaVars, timeVars, stored, referred, sweeps, reclaims,
                 unreferred, purges, imports, call, commands, faults,
                 histVars>>

RecountsLate(m) ==
  /\ m \in blocked /\ ~Locked
  /\ used' = total[m]
  /\ overtaken' = (overtaken \/ total[m] < Total)
  /\ purging' = purging \ {m} /\ blocked' = blocked \ {m}
  /\ total' = [total EXCEPT ![m] = 0]
  /\ tried' = [tried EXCEPT !["purge"][m] = 0]
  /\ UNCHANGED <<mediaVars, timeVars, stored, referred, sweeps, reclaims,
                 unreferred, purges, imports, call, commands, faults, origin,
                 late>>

\* It fails, before the removal or after it.
PurgeFails(m) ==
  /\ m \in purges \cup purging /\ Fault
  /\ purging' = purging \ {m}
  /\ blocked' = blocked \ {m} /\ total' = [total EXCEPT ![m] = 0]
  /\ IF m \in purges \cap purging
     THEN UNCHANGED <<purges, tried>>
     ELSE /\ purges' = DueAgain("purge", m, purges)
          /\ tried' = Failed("purge", m)
  /\ UNCHANGED <<mediaVars, timeVars, stored, referred, used, sweeps, reclaims,
                 unreferred, imports, call, commands, histVars>>

-----------------------------------------------------------------------------
(* Time passes.                                                            *)

Age ==
  /\ aged < created /\ aged' = aged + 1
  /\ UNCHANGED <<mediaVars, today, stored, referred, used, jobVars, imports,
                 call, commands, faults, histVars>>

\* Bound: a day after the last creation need not break.
DayBreaks ==
  /\ created < MaxFiles
  /\ today # NoFile /\ today' = NoFile
  /\ UNCHANGED <<mediaVars, aged, stored, referred, used, jobVars, imports,
                 call, commands, faults, histVars>>

Requests(c) ==
  \/ \E m \in Files : Complete(c, m)
  \/ \E k \in Keys : Import(c, k)
Proceeds(c) ==
  \/ Refused(c) \/ Fetched(c) \/ Puts(c) \/ SetsKey(c)
  \/ Begins(c) \/ Heads(c) \/ Reserves(c) \/ Commits(c) \/ Imported(c)
Users(m) == Put(m) \/ Remove(m) \/ Refer(m) \/ Release(m)
Executes(m) ==
  \/ Looks(m) \/ Reclaims(m) \/ Sweep(m) \/ Purge(m)
  \/ Recounts(m) \/ RecountsLate(m)
Fails(m) == SweepFails(m) \/ ReclaimFails(m) \/ PurgeFails(m)

Next ==
  \/ CreateUpload \/ Age \/ DayBreaks
  \/ \E c \in Callers : Requests(c) \/ Proceeds(c) \/ Dies(c)
  \/ \E m \in Files : Users(m) \/ Executes(m) \/ Fails(m)
  \/ \E k \in Keys : ImportLapses(k)

Spec == Init /\ [][Next]_vars

-----------------------------------------------------------------------------
(* Properties.                                                             *)

\* Every variable stays within its row's domain; rows are created in order, and
\* of the requests only one holds the payer's row.
TypeOK ==
  /\ created \in 0..MaxFiles
  /\ row \in [Files -> {"none", "pending", "ready", "failed"}]
  /\ \A m \in Files : row[m] = "none" <=> m > created
  /\ deleted \subseteq Rows /\ keyed \in [Files -> Keys \cup {NoKey}]
  /\ aged \in 0..created /\ today \in {NoFile, created}
  /\ stored \subseteq Rows /\ referred \subseteq Rows
  /\ used \in Nat /\ elsewhere \in 0..1
  /\ sweeps \subseteq Rows /\ reclaims \subseteq Rows
  /\ unreferred \subseteq Rows /\ purges \subseteq deleted
  /\ purging \subseteq deleted /\ blocked \subseteq purging
  /\ total \in [Files -> Nat]
  /\ tried \in [Kinds -> [Files -> 0..MaxAttempts]]
  /\ imports \in [Keys -> [status : {"none", "pending", "completed"},
                           stale : BOOLEAN]]
  /\ \A c \in Callers :
       /\ call[c].at \in {"idle", "fetch", "put", "key", "begin",
                          "head", "reserve", "reserved", "imported"}
       /\ call[c].file \in Rows \cup {NoFile}
       /\ call[c].key \in Keys \cup {NoKey}
  /\ \A c, d \in Callers : At(c, "reserved") /\ At(d, "reserved") => c = d
  /\ commands \in 0..MaxCommands /\ faults \in 0..MaxFaults
  /\ origin \in [Files -> Keys \cup {NoKey}]
  /\ overtaken \in BOOLEAN /\ late \subseteq deleted

\* The payer's count covers every file that can be used, and what can be used
\* is within the plan, whatever uploads, imports and deletions do side by
\* side, unless a recount that waited for a completion has overwritten it.
StorageIsCounted ==
  overtaken \/ (Total <= used /\ Total <= Limit)

\* A file that can be used has its object, even when it is completed while the
\* sweep or a deletion takes it away.
LiveHasObject == Live \subseteq stored

\* An import that is repeated with its key, also beside the first one when that
\* takes longer than five minutes, leaves one file that can be used, unless a
\* user completes a file of it himself before its key is written.
ImportIsSingle ==
  \A k \in Keys : \A m, n \in Live : origin[m] = k /\ origin[n] = k => m = n

\* An upload that is never completed has a sweep ahead of it, whichever day it
\* was started on and however many followed it, or the sweep is closed.
AbandonedHasSweep ==
  \A m \in Undeleted : row[m] = "pending" =>
    \E d \in sweeps \cup Closed("sweep") : m <= d

\* What is deleted has a job that removes it from R2, unless that is closed or
\* the object was uploaded after the deletion.
DeletedHasJob ==
  deleted \cap stored \subseteq purges \cup Closed("purge") \cup late

\* A job is closed after as many failures as it has attempts, and no sooner.
ClosedHasFailed ==
  \A kind \in Kinds : Closed(kind) # {} => faults >= MaxAttempts

\* No upload that is abandoned, and no object of a deleted file, is left without
\* a job that will remove it until that job has failed maxAttempts times.
NothingLeaks == AbandonedHasSweep /\ DeletedHasJob /\ ClosedHasFailed

\* Nothing is left at all.  It fails: when r2.remove has failed maxAttempts
\* times the job is closed, failJob does nothing, and nobody looks at the row,
\* which is deleted, again.
NothingIsLeft == deleted \cap stored \subseteq purges \cup late

=============================================================================
