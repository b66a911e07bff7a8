---------------------------- MODULE MediaProofs ----------------------------
(***************************************************************************)
(* The storage of a payer, for every number of requests, keys, files and   *)
(* failures and every limit of the plan.                                   *)
(***************************************************************************)
EXTENDS Media, FiniteSetTheorems, TLAPS

(***************************************************************************)
(* The inductive invariant.                                                *)
(***************************************************************************)

Places == {"idle", "fetch", "put", "key", "begin", "head", "reserve",
           "reserved", "imported"}

\* What a request has at each place.
Has(c) ==
  /\ At(c, "idle") => call[c] = Idle
  /\ At(c, "fetch") => call[c].file = NoFile
  /\ call[c].at \notin {"idle", "fetch"} => call[c].file \in Rows
  /\ call[c].at \in {"fetch", "put", "key", "begin", "imported"} =>
       call[c].key # NoKey
  /\ call[c].at \in {"reserve", "reserved"} =>
       call[c].file \in stored \cup deleted
  /\ At(c, "reserved") => used + 1 <= Limit

Calls ==
  /\ call \in [Callers -> [at : Places, file : Nat, key : Keys \cup {NoKey}]]
  /\ \A c \in Callers : Has(c)

\* Requests that import a file, which each has created for itself.
Importing(c) == call[c].key # NoKey /\ call[c].file # NoFile

Imports ==
  /\ \A c, d \in Callers :
       Importing(c) /\ Importing(d) /\ c # d => call[c].file # call[d].file
  /\ \A c \in Callers : Importing(c) =>
       /\ origin[call[c].file] \in {call[c].key, NoKey}
       /\ call[c].at \notin {"put", "key"} => keyed[call[c].file] = call[c].key

\* Keys are unique, and no file is ready before it has that of its import.
Keyed ==
  /\ \A m \in Files : m > created => keyed[m] = NoKey
  /\ \A m, n \in Undeleted : keyed[m] = keyed[n] /\ keyed[m] # NoKey => m = n
  /\ \A m \in Live : origin[m] # NoKey => keyed[m] = origin[m]

\* The files whose job of a kind is due or under way.
Busy(kind) == CASE kind = "sweep"   -> sweeps
                [] kind = "reclaim" -> reclaims \cup unreferred
                [] kind = "purge"   -> purges \cup purging

\* No job that is due is closed, and none has failed more often than anything
\* has.
Attempts ==
  \A kind \in Kinds :
    /\ Busy(kind) \cap Closed(kind) = {}
    /\ \A m \in Files : tried[kind][m] <= faults

IInv ==
  /\ TypeOK /\ Calls /\ Imports /\ Keyed /\ Attempts
  /\ LiveHasObject /\ StorageIsCounted /\ AbandonedHasSweep /\ DeletedHasJob

-----------------------------------------------------------------------------
(* The steps, by what they can change.                                       *)

\* Steps of a request that only look.
Looking(c) ==
  \/ \E m \in Files : Complete(c, m)
  \/ \E k \in Keys : Import(c, k)
  \/ Refused(c) \/ Begins(c) \/ Heads(c) \/ Reserves(c) \/ Imported(c) \/ Dies(c)

\* Steps that neither requests nor files notice.
Aside ==
  \/ Age \/ DayBreaks
  \/ \E k \in Keys : ImportLapses(k)
  \/ \E m \in Files : \/ Remove(m) \/ Refer(m) \/ Release(m) \/ Looks(m)
                      \/ ReclaimFails(m)

LEMMA Steps ==
  ASSUME [Next]_vars
  PROVE  \/ CreateUpload \/ Aside
         \/ \E c \in Callers : \/ Looking(c) \/ Fetched(c) \/ Puts(c)
                               \/ SetsKey(c) \/ Commits(c)
         \/ \E m \in Files : \/ Put(m) \/ Reclaims(m) \/ Sweep(m) \/ Purge(m)
                             \/ Recounts(m) \/ RecountsLate(m)
                             \/ SweepFails(m) \/ PurgeFails(m)
         \/ UNCHANGED vars
  BY DEF Next, Requests, Proceeds, Users, Executes, Fails, Looking, Aside

LEMMA LookingFrame ==
  ASSUME NEW c \in Callers, Looking(c)
  PROVE  UNCHANGED <<mediaVars, timeVars, stored, referred, used, jobVars,
                     histVars>>
  BY DEF Looking, Complete, Import, Refused, Begins, Heads, Reserves, Imported,
         Dies

LEMMA AsideFrame ==
  ASSUME Aside
  PROVE  UNCHANGED <<mediaVars, stored, used, sweeps, purges, purging, blocked,
                     total, call, origin, overtaken, late>>
  BY DEF Aside, Age, DayBreaks, ImportLapses, Remove, Refer, Release, Looks,
         ReclaimFails, mediaVars, jobVars, histVars

\* How a request proceeds that only looks.
LEMMA LookingCalls ==
  ASSUME TypeOK, Calls, NEW c \in Callers, Looking(c)
  PROVE  \E next \in [at : Places, file : Nat, key : Keys \cup {NoKey}] :
           /\ call' = [call EXCEPT ![c] = next]
           /\ \/ next = Idle
              \/ At(c, "idle") /\ next.at = "fetch" /\ next.key # NoKey
                   /\ next.file = NoFile
              \/ At(c, "idle") /\ next.at = "head" /\ next.key = NoKey
                   /\ next.file \in Rows
              \/ /\ ~At(c, "idle") /\ ~At(c, "fetch")
                 /\ next.key = call[c].key /\ next.file = call[c].file
                 /\ \/ At(c, "begin") /\ next.at \in {"head", "imported"}
                    \/ At(c, "head") /\ next.at = "reserve"
                         /\ call[c].file \in stored
                    \/ At(c, "reserve") /\ next.at = "reserved"
                         /\ used + 1 <= Limit /\ ~Locked
<1> USE NoKeyAssumption DEF Calls, Places, At, Ends, Goes, Idle, NoFile
<1>1. CASE \E m \in Files : Complete(c, m)
  <2>1. PICK m \in Files : Complete(c, m)
    BY <1>1
  <2> DEFINE next == [Idle EXCEPT !.at = "head", !.file = m]
  <2>2. m \in Rows /\ At(c, "idle") /\ call' = [call EXCEPT ![c] = next]
    BY <2>1 DEF Complete, Completable, Undeleted
  <2>3. /\ next \in [at : Places, file : Nat, key : Keys \cup {NoKey}]
        /\ next.at = "head" /\ next.key = NoKey /\ next.file = m
    <3>1. m \in Nat
      BY MediaAssumption DEF Files
    <3>2. QED
      BY <3>1
  <2>4. QED
    BY <2>2, <2>3
<1>2. CASE \E k \in Keys : Import(c, k)
  <2>1. PICK k \in Keys : Import(c, k)
    BY <1>2
  <2> DEFINE next == [Idle EXCEPT !.at = "fetch", !.key = k]
  <2>2. At(c, "idle") /\ call' = [call EXCEPT ![c] = next]
    BY <2>1 DEF Import
  <2>3. /\ next \in [at : Places, file : Nat, key : Keys \cup {NoKey}]
        /\ next.at = "fetch" /\ next.key = k /\ next.file = NoFile
        /\ k # NoKey
    OBVIOUS
  <2>4. QED
    BY <2>2, <2>3
<1>3. CASE Refused(c) \/ Imported(c) \/ Dies(c)
  BY <1>3 DEF Refused, Imported, Dies
<1>4. CASE Begins(c)
  BY <1>4 DEF Begins
<1>5. CASE Heads(c)
  BY <1>5 DEF Heads
<1>6. CASE Reserves(c)
  BY <1>6 DEF Reserves, Fits
<1>7. QED
  BY <1>1, <1>2, <1>3, <1>4, <1>5, <1>6 DEF Looking

-----------------------------------------------------------------------------
(* Types.                                                                    *)

\* A job that fails leaves the others as they are, and is due or out of attempts.
LEMMA DueAgainIs ==
  ASSUME NEW kind, NEW m, NEW due
  PROVE  /\ DueAgain(kind, m, due) \subseteq due \cup {m}
         /\ due \ {m} \subseteq DueAgain(kind, m, due)
         /\ tried[kind][m] + 1 < MaxAttempts => m \in DueAgain(kind, m, due)
         /\ m \in DueAgain(kind, m, due) => tried[kind][m] + 1 < MaxAttempts
  BY DEF DueAgain

MediaTypes ==
  /\ created \in 0..MaxFiles
  /\ row \in [Files -> {"none", "pending", "ready", "failed"}]
  /\ \A m \in Files : row[m] = "none" <=> m > created
  /\ deleted \subseteq Rows /\ keyed \in [Files -> Keys \cup {NoKey}]
  /\ aged \in 0..created /\ today \in {NoFile, created} /\ elsewhere \in 0..1
ObjectTypes ==
  /\ stored \subseteq Rows /\ referred \subseteq Rows /\ used \in Nat
  /\ origin \in [Files -> Keys \cup {NoKey}]
  /\ overtaken \in BOOLEAN /\ late \subseteq deleted
JobTypes ==
  /\ sweeps \subseteq Rows /\ reclaims \subseteq Rows
  /\ unreferred \subseteq Rows /\ purges \subseteq deleted
  /\ purging \subseteq deleted /\ blocked \subseteq purging
  /\ total \in [Files -> Nat]
TriedTypes == tried \in [Kinds -> [Files -> 0..MaxAttempts]]
ImportTypes ==
  /\ imports \in [Keys -> [status : {"none", "pending", "completed"},
                           stale : BOOLEAN]]
  /\ commands \in 0..MaxCommands /\ faults \in 0..MaxFaults
OneReserves ==
  \A c, d \in Callers : At(c, "reserved") /\ At(d, "reserved") => c = d

Typed == MediaTypes /\ ObjectTypes /\ JobTypes /\ ImportTypes

LEMMA Types ==
  /\ TypeOK => Typed /\ OneReserves /\ TriedTypes
  /\ Calls /\ Typed /\ OneReserves /\ TriedTypes => TypeOK
  BY DEF Typed, TypeOK, MediaTypes, ObjectTypes, JobTypes, ImportTypes,
         TriedTypes, OneReserves, Calls, Has, At, Idle, Places, NoFile

LEMMA LiveIsFinite ==
  ASSUME TypeOK
  PROVE  /\ IsFiniteSet(Live) /\ Cardinality(Live) \in Nat /\ Total \in Nat
         /\ \A S : S \subseteq Live =>
              Cardinality(S) \in Nat /\ Cardinality(S) <= Cardinality(Live)
<1>1. IsFiniteSet(Rows)
  <2>1. created \in Int
    BY MediaAssumption DEF TypeOK
  <2>2. IsFiniteSet(1..created)
    BY <2>1, FS_Interval
  <2>3. QED
    BY <2>2 DEF Rows
<1>2. IsFiniteSet(Live)
  BY <1>1, FS_Subset DEF Live, Undeleted
<1>3. Cardinality(Live) \in Nat
  BY <1>2, FS_CardinalityType
<1>4. Total \in Nat
  BY <1>3 DEF Total, TypeOK
<1>5. QED
  BY <1>2, <1>3, <1>4, FS_Subset, FS_CardinalityType

LEMMA TypeStep ==
  ASSUME TypeOK, Calls, [Next]_vars
  PROVE  Typed'
<1> USE MediaAssumption DEF Rows, Files, NoFile, mediaVars, timeVars, jobVars,
        histVars
<1>0. /\ MediaTypes /\ ObjectTypes /\ JobTypes /\ ImportTypes
      /\ \A c \in Callers : Has(c) /\ call[c].key \in Keys \cup {NoKey}
  BY Types DEF Typed, Calls
<1>1. ASSUME NEW c \in Callers, Looking(c)
      PROVE  Typed'
  <2>1. MediaTypes'
    BY <1>0, <1>1 DEF Looking, Complete, Import, Refused, Begins, Heads,
       Reserves, Imported, Dies, Ends, Goes, Command, At, Idle,
       MediaTypes
  <2>2. ObjectTypes'
    BY <1>0, <1>1 DEF Looking, Complete, Import, Refused, Begins, Heads,
       Reserves, Imported, Dies, Ends, Goes, Command, At, Idle,
       ObjectTypes, MediaTypes
  <2>3. JobTypes'
    BY <1>0, <1>1 DEF Looking, Complete, Import, Refused, Begins, Heads,
       Reserves, Imported, Dies, Ends, Goes, Command, At, Idle,
       JobTypes, MediaTypes
  <2>4. ImportTypes'
    <3>1. CASE \E k \in Keys : Import(c, k)
      <4>1. PICK k \in Keys : Import(c, k)
        BY <3>1
      <4>2. /\ imports' = [imports EXCEPT ![k].status = "pending",
                                         ![k].stale = FALSE]
            /\ commands < MaxCommands /\ commands' = commands + 1
            /\ UNCHANGED faults
        BY <4>1 DEF Import, Command
      <4>3. imports' \in [Keys -> [status : {"none", "pending", "completed"},
                                  stale : BOOLEAN]]
        BY <1>0, <4>2 DEF ImportTypes
      <4>4. QED
        BY <1>0, <4>2, <4>3 DEF ImportTypes
    <3>2. CASE Imported(c)
      <4>1. call[c].key \in Keys
        BY <1>0, <3>2 DEF Imported, Has, At
      <4>2. QED
        BY <1>0, <3>2, <4>1 DEF Imported, ImportTypes
    <3>3. CASE \/ \E m \in Files : Complete(c, m)
               \/ Refused(c) \/ Begins(c) \/ Heads(c) \/ Reserves(c) \/ Dies(c)
      <4>1. /\ UNCHANGED imports
            /\ \/ UNCHANGED commands
               \/ commands < MaxCommands /\ commands' = commands + 1
            /\ UNCHANGED faults
        BY <3>3 DEF Complete, Refused, Begins, Heads, Reserves, Dies, Command
      <4>2. QED
        BY <1>0, <4>1 DEF ImportTypes
    <3>4. QED
      BY <1>1, <3>1, <3>2, <3>3 DEF Looking
  <2>5. QED
    BY <2>1, <2>2, <2>3, <2>4 DEF Typed
<1>2. ASSUME CreateUpload
      PROVE  Typed'
  <2>1. MediaTypes'
    BY <1>0, <1>2 DEF CreateUpload, Creates, Sweeps, MediaTypes
  <2>2. ObjectTypes'
    BY <1>0, <1>2 DEF CreateUpload, Creates, Sweeps, ObjectTypes,
       MediaTypes
  <2>3. JobTypes'
    BY <1>0, <1>2 DEF CreateUpload, Creates, Sweeps, JobTypes,
       MediaTypes
  <2>4. ImportTypes'
    BY <1>0, <1>2 DEF CreateUpload, Creates, Sweeps, ImportTypes
  <2>5. QED
    BY <2>1, <2>2, <2>3, <2>4 DEF Typed
<1>3. ASSUME NEW c \in Callers, Fetched(c)
      PROVE  Typed'
  <2>1. MediaTypes'
    BY <1>0, <1>3 DEF Fetched, Creates, Sweeps, Has, At, MediaTypes
  <2>2. ObjectTypes'
    BY <1>0, <1>3 DEF Fetched, Creates, Sweeps, Has, At, ObjectTypes,
       MediaTypes
  <2>3. JobTypes'
    BY <1>0, <1>3 DEF Fetched, Creates, Sweeps, Has, At, JobTypes,
       MediaTypes
  <2>4. ImportTypes'
    BY <1>0, <1>3 DEF Fetched, Creates, Sweeps, Has, At, ImportTypes
  <2>5. QED
    BY <2>1, <2>2, <2>3, <2>4 DEF Typed
<1>4. ASSUME NEW m \in Files, Put(m)
      PROVE  Typed'
  <2>1. MediaTypes'
    BY <1>0, <1>4 DEF Put, Writes, MediaTypes
  <2>2. ObjectTypes'
    BY <1>0, <1>4 DEF Put, Writes, ObjectTypes, MediaTypes
  <2>3. JobTypes'
    BY <1>0, <1>4 DEF Put, Writes, JobTypes, MediaTypes
  <2>4. ImportTypes'
    BY <1>0, <1>4 DEF Put, Writes, ImportTypes
  <2>5. QED
    BY <2>1, <2>2, <2>3, <2>4 DEF Typed
<1>5. ASSUME NEW c \in Callers, Puts(c)
      PROVE  Typed'
  <2>1. MediaTypes'
    BY <1>0, <1>5 DEF Puts, Writes, Goes, Has, At, MediaTypes
  <2>2. ObjectTypes'
    BY <1>0, <1>5 DEF Puts, Writes, Goes, Has, At, ObjectTypes, MediaTypes
  <2>3. JobTypes'
    BY <1>0, <1>5 DEF Puts, Writes, Goes, Has, At, JobTypes, MediaTypes
  <2>4. ImportTypes'
    BY <1>0, <1>5 DEF Puts, Writes, Goes, Has, At, ImportTypes
  <2>5. QED
    BY <2>1, <2>2, <2>3, <2>4 DEF Typed
<1>6. ASSUME NEW c \in Callers, SetsKey(c)
      PROVE  Typed'
  <2>1. MediaTypes'
    BY <1>0, <1>6 DEF SetsKey, Ends, Goes, Idle, Has, At, MediaTypes
  <2>2. ObjectTypes'
    BY <1>0, <1>6 DEF SetsKey, Ends, Goes, Idle, Has, At, ObjectTypes,
       MediaTypes
  <2>3. JobTypes'
    BY <1>0, <1>6 DEF SetsKey, Ends, Goes, Idle, Has, At, JobTypes,
       MediaTypes
  <2>4. ImportTypes'
    BY <1>0, <1>6 DEF SetsKey, Ends, Goes, Idle, Has, At, ImportTypes
  <2>5. QED
    BY <2>1, <2>2, <2>3, <2>4 DEF Typed
<1>7. ASSUME NEW c \in Callers, Commits(c)
      PROVE  Typed'
  <2>1. MediaTypes'
    BY <1>0, <1>7 DEF Commits, Readied, LeftDeleted, Has, At, MediaTypes
  <2>2. ObjectTypes'
    <3>1. /\ UNCHANGED <<created, stored, referred, overtaken, late, deleted>>
          /\ used' = used + 1
          /\ origin' \in {origin, [origin EXCEPT ![call[c].file] = NoKey]}
      BY <1>7 DEF Commits, LeftDeleted
    <3>2. QED
      BY <1>0, <3>1 DEF ObjectTypes
  <2>3. JobTypes'
    BY <1>0, <1>7 DEF Commits, Readied, LeftDeleted, Has, At, JobTypes,
       MediaTypes
  <2>4. ImportTypes'
    BY <1>0, <1>7 DEF Commits, Readied, LeftDeleted, Has, At, ImportTypes
  <2>5. QED
    BY <2>1, <2>2, <2>3, <2>4 DEF Typed
<1>8. ASSUME Age \/ DayBreaks
      PROVE  Typed'
  <2>1. MediaTypes'
    <3>1. CASE Age
      BY <1>0, <3>1 DEF Age, MediaTypes
    <3>2. CASE DayBreaks
      BY <1>0, <3>2 DEF DayBreaks, MediaTypes
    <3>3. QED
      BY <1>8, <3>1, <3>2
  <2>2. ObjectTypes'
    BY <1>0, <1>8 DEF Age, DayBreaks, ObjectTypes, MediaTypes
  <2>3. JobTypes'
    BY <1>0, <1>8 DEF Age, DayBreaks, JobTypes, MediaTypes
  <2>4. ImportTypes'
    BY <1>0, <1>8 DEF Age, DayBreaks, ImportTypes
  <2>5. QED
    BY <2>1, <2>2, <2>3, <2>4 DEF Typed
<1>9. ASSUME NEW k \in Keys, ImportLapses(k)
      PROVE  Typed'
  <2>1. MediaTypes'
    BY <1>0, <1>9 DEF ImportLapses, MediaTypes
  <2>2. ObjectTypes'
    BY <1>0, <1>9 DEF ImportLapses, ObjectTypes, MediaTypes
  <2>3. JobTypes'
    BY <1>0, <1>9 DEF ImportLapses, JobTypes, MediaTypes
  <2>4. ImportTypes'
    BY <1>0, <1>9 DEF ImportLapses, ImportTypes
  <2>5. QED
    BY <2>1, <2>2, <2>3, <2>4 DEF Typed
<1>10. ASSUME NEW m \in Files,
             \/ Remove(m) \/ Refer(m) \/ Release(m) \/ Looks(m)
             \/ ReclaimFails(m)
      PROVE  Typed'
  <2>1. MediaTypes'
    BY <1>0, <1>10 DEF Remove, Refer, Release, Looks, ReclaimFails, Undeleted,
       Command, MediaTypes
  <2>2. ObjectTypes'
    BY <1>0, <1>10 DEF Remove, Refer, Release, Looks, ReclaimFails, Undeleted,
       Command, ObjectTypes, MediaTypes
  <2>3. JobTypes'
    <3>1. CASE Remove(m) \/ Refer(m) \/ Looks(m)
      BY <1>0, <3>1 DEF Remove, Refer, Looks, Undeleted, JobTypes, ObjectTypes
    <3>2. CASE Release(m)
      BY <1>0, <3>2 DEF Release, JobTypes, ObjectTypes
    <3>3. CASE ReclaimFails(m)
      BY <1>0, <3>3 DEF ReclaimFails, DueAgain, JobTypes
    <3>4. QED
      BY <1>10, <3>1, <3>2, <3>3
  <2>4. ImportTypes'
    BY <1>0, <1>10 DEF Remove, Refer, Release, Looks, ReclaimFails, Undeleted,
       Command, Fault, ImportTypes
  <2>5. QED
    BY <2>1, <2>2, <2>3, <2>4 DEF Typed
<1>11. ASSUME NEW m \in Files, Reclaims(m)
      PROVE  Typed'
  <2>1. MediaTypes'
    <3>1. deleted' \subseteq Rows
      BY <1>0, <1>11 DEF Reclaims, MediaTypes, JobTypes
    <3>2. QED
      BY <1>0, <1>11, <3>1 DEF Reclaims, MediaTypes
  <2>2. ObjectTypes'
    BY <1>0, <1>11 DEF Reclaims, Purges, ObjectTypes, MediaTypes
  <2>3. JobTypes'
    BY <1>0, <1>11 DEF Reclaims, Purges, JobTypes, MediaTypes
  <2>4. ImportTypes'
    BY <1>0, <1>11 DEF Reclaims, Purges, ImportTypes
  <2>5. QED
    BY <2>1, <2>2, <2>3, <2>4 DEF Typed
<1>12. ASSUME NEW m \in Files, Sweep(m)
      PROVE  Typed'
  <2>1. MediaTypes'
    BY <1>0, <1>12 DEF Sweep, Swept, Undeleted, Purges, MediaTypes
  <2>2. ObjectTypes'
    BY <1>0, <1>12 DEF Sweep, Swept, Undeleted, Purges, ObjectTypes,
       MediaTypes
  <2>3. JobTypes'
    BY <1>0, <1>12 DEF Sweep, Swept, Undeleted, Purges, JobTypes, MediaTypes
  <2>4. ImportTypes'
    BY <1>0, <1>12 DEF Sweep, Swept, Undeleted, Purges, ImportTypes
  <2>5. QED
    BY <2>1, <2>2, <2>3, <2>4 DEF Typed
<1>13. ASSUME NEW m \in Files, Purge(m) \/ PurgeFails(m) \/ SweepFails(m)
      PROVE  Typed'
  <2>1. MediaTypes'
    BY <1>0, <1>13 DEF Purge, PurgeFails, SweepFails, Fault, MediaTypes
  <2>2. ObjectTypes'
    BY <1>0, <1>13 DEF Purge, PurgeFails, SweepFails, Fault, ObjectTypes,
       MediaTypes
  <2>3. JobTypes'
    <3>1. CASE Purge(m)
      BY <1>0, <3>1 DEF Purge, JobTypes
    <3>2. CASE PurgeFails(m)
      <4>1. /\ purges' \subseteq purges \cup {m} /\ m \in purges \cup purging
            /\ purging' = purging \ {m} /\ blocked' = blocked \ {m}
            /\ total' = [total EXCEPT ![m] = 0]
            /\ UNCHANGED <<deleted, created, sweeps, reclaims, unreferred>>
        BY <3>2, DueAgainIs DEF PurgeFails
      <4>2. QED
        BY <1>0, <4>1 DEF JobTypes
    <3>3. CASE SweepFails(m)
      BY <1>0, <3>3 DEF SweepFails, DueAgain, JobTypes
    <3>4. QED
      BY <1>13, <3>1, <3>2, <3>3
  <2>4. ImportTypes'
    BY <1>0, <1>13 DEF Purge, PurgeFails, SweepFails, Fault, ImportTypes
  <2>5. QED
    BY <2>1, <2>2, <2>3, <2>4 DEF Typed
<1>14. ASSUME NEW m \in Files, Recounts(m) \/ RecountsLate(m)
      PROVE  Typed'
  <2>1. MediaTypes'
    BY <1>0, <1>14 DEF Recounts, RecountsLate, MediaTypes
  <2>2. ObjectTypes'
    <3>1. Total \in Nat
      BY LiveIsFinite
    <3>2. CASE Recounts(m)
      <4>1. used' \in {used, Total}
        BY <3>2 DEF Recounts
      <4>2. QED
        BY <1>0, <3>1, <3>2, <4>1 DEF Recounts, ObjectTypes
    <3>3. CASE RecountsLate(m)
      <4>1. used' \in Nat
        BY <1>0, <3>3 DEF RecountsLate, JobTypes
      <4>2. overtaken' = (overtaken \/ total[m] < Total)
        BY <3>3 DEF RecountsLate
      <4>3. overtaken' \in BOOLEAN
        BY <4>2
      <4>4. QED
        BY <1>0, <3>3, <4>1, <4>3 DEF RecountsLate, ObjectTypes
    <3>4. QED
      BY <1>14, <3>2, <3>3
  <2>3. JobTypes'
    <3>1. CASE Recounts(m)
      <4>1. Total \in Nat
        BY LiveIsFinite
      <4>2. total' \in {total, [total EXCEPT ![m] = Total]}
        BY <3>1 DEF Recounts
      <4>3. total' \in [Files -> Nat]
        BY <1>0, <4>1, <4>2 DEF JobTypes
      <4>4. /\ m \in purging \ blocked
            /\ \/ blocked' = blocked \cup {m} /\ UNCHANGED purging
               \/ purging' = purging \ {m} /\ UNCHANGED blocked
            /\ UNCHANGED <<deleted, created, sweeps, reclaims, unreferred,
                           purges>>
        BY <3>1 DEF Recounts
      <4>5. QED
        BY <1>0, <4>3, <4>4 DEF JobTypes
    <3>2. CASE RecountsLate(m)
      BY <1>0, <3>2 DEF RecountsLate, JobTypes
    <3>3. QED
      BY <1>14, <3>1, <3>2
  <2>4. ImportTypes'
    BY <1>0, <1>14 DEF Recounts, RecountsLate, ImportTypes
  <2>5. QED
    BY <2>1, <2>2, <2>3, <2>4 DEF Typed
<1>15. ASSUME UNCHANGED vars
       PROVE  Typed'
  BY <1>0, <1>15 DEF vars, Typed, MediaTypes, ObjectTypes, JobTypes,
                   ImportTypes
<1>16. QED
  BY <1>1, <1>2, <1>3, <1>4, <1>5, <1>6, <1>7, <1>8, <1>9, <1>10, <1>11,
     <1>12, <1>13, <1>14, <1>15, Steps DEF Aside


-----------------------------------------------------------------------------
(* Requests.                                                                 *)

LEMMA HasStays ==
  ASSUME TypeOK, NEW d \in Callers, Has(d), call'[d] = call[d],
         created' \in Nat, created <= created',
         stored \cup deleted \subseteq stored' \cup deleted',
         At(d, "reserved") => UNCHANGED used
  PROVE  Has(d)'
  BY MediaAssumption DEF TypeOK, Has, At, Rows

\* Where a request can be when its step ends, which it shares with no other.
LEMMA CallStep ==
  ASSUME TypeOK, Calls, NEW c \in Callers,
         NEW next \in [at : Places, file : Nat, key : Keys \cup {NoKey}],
         call' = [call EXCEPT ![c] = next], Has(c)',
         \A d \in Callers : d # c => Has(d)'
  PROVE  Calls'
  BY DEF Calls

LEMMA CallsStep ==
  ASSUME TypeOK, Calls, [Next]_vars
  PROVE  Calls'
<1> USE DEF mediaVars, timeVars, jobVars, histVars
<1>0. /\ created \in Nat /\ \A d \in Callers : Has(d)
      /\ call \in [Callers -> [at : Places, file : Nat, key : Keys \cup {NoKey}]]
  BY MediaAssumption DEF TypeOK, Calls
<1>1. ASSUME UNCHANGED call, created' \in Nat, created <= created',
             stored \cup deleted \subseteq stored' \cup deleted',
             UNCHANGED used \/ ~Locked
      PROVE  Calls'
  BY <1>0, <1>1, HasStays DEF Calls, Locked, At
<1>2. ASSUME NEW c \in Callers, Looking(c)
      PROVE  Calls'
  <2>1. PICK next \in [at : Places, file : Nat, key : Keys \cup {NoKey}] :
           /\ call' = [call EXCEPT ![c] = next]
           /\ \/ next = Idle
              \/ next.at = "fetch" /\ next.key # NoKey /\ next.file = NoFile
              \/ next.at = "head" /\ next.file \in Rows
              \/ /\ ~At(c, "idle") /\ ~At(c, "fetch")
                 /\ next.key = call[c].key /\ next.file = call[c].file
                 /\ \/ At(c, "begin") /\ next.at \in {"head", "imported"}
                    \/ next.at = "reserve" /\ call[c].file \in stored
                    \/ At(c, "reserve") /\ next.at = "reserved"
                         /\ used + 1 <= Limit
    BY <1>2, LookingCalls
  <2>2. UNCHANGED <<created, stored, deleted, used>>
    BY <1>2, LookingFrame
  <2>3. ASSUME NEW d \in Callers, d # c PROVE Has(d)'
    <3>1. call'[d] = call[d]
      BY <1>0, <2>1, <2>3
    <3>2. QED
      BY <1>0, <2>2, <3>1, HasStays
  <2>4. call'[c] = next
    BY <1>0, <2>1
  <2>5. Has(c)'
    BY <1>0, <2>1, <2>2, <2>4 DEF Has, At, Idle, NoFile, Rows
  <2>6. QED
    BY <2>1, <2>3, <2>5, CallStep
<1>3. ASSUME NEW c \in Callers, Fetched(c) \/ Puts(c) \/ SetsKey(c) \/ Commits(c)
      PROVE  Calls'
  <2>1. /\ At(c, "fetch") \/ call[c].file \in Rows
        /\ call[c].key \in Keys \cup {NoKey} /\ call[c].file \in Nat
    BY <1>0, <1>3 DEF Has, Fetched, Puts, SetsKey, Commits, At
  <2>2. PICK next \in [at : Places, file : Nat, key : Keys \cup {NoKey}] :
          /\ call' = [call EXCEPT ![c] = next]
          /\ \/ next = Idle
             \/ /\ At(c, "fetch") /\ next.at = "put" /\ next.file = created + 1
                /\ next.key = call[c].key /\ created' = created + 1
             \/ /\ At(c, "put") /\ next.at = "key" /\ next.file = call[c].file
                /\ next.key = call[c].key
             \/ /\ At(c, "key") /\ next.at = "begin" /\ next.file = call[c].file
                /\ next.key = call[c].key
             \/ /\ At(c, "reserved") /\ next.at = "imported"
                /\ next.file = call[c].file /\ next.key = call[c].key
                /\ next.key # NoKey
    <3>1. CASE Fetched(c)
      <4> DEFINE next == [call[c] EXCEPT !.at = "put", !.file = created + 1]
      <4>1. call' = [call EXCEPT ![c] = next] /\ created' = created + 1
            /\ At(c, "fetch")
        BY <1>0, <3>1 DEF Fetched, Creates
      <4>2. /\ next \in [at : Places, file : Nat, key : Keys \cup {NoKey}]
            /\ next.at = "put" /\ next.file = created + 1
            /\ next.key = call[c].key
        <5>1. call[c] \in [at : Places, file : Nat, key : Keys \cup {NoKey}]
          BY <1>0
        <5>2. created + 1 \in Nat /\ "put" \in Places
          BY <1>0 DEF Places
        <5>3. QED
          BY <5>1, <5>2
      <4>3. QED
        BY <4>1, <4>2
    <3>2. CASE Puts(c)
      <4> DEFINE next == [call[c] EXCEPT !.at = "key"]
      <4>1. call' = [call EXCEPT ![c] = next] /\ At(c, "put")
        BY <1>0, <3>2 DEF Puts, Goes
      <4>2. /\ next \in [at : Places, file : Nat, key : Keys \cup {NoKey}]
            /\ next.at = "key" /\ next.file = call[c].file
            /\ next.key = call[c].key
        BY <1>0 DEF Places
      <4>3. QED
        BY <4>1, <4>2
    <3>3. CASE SetsKey(c)
      BY <1>0, <3>3, NoKeyAssumption
         DEF SetsKey, Goes, Ends, Idle, NoFile, Places
    <3>4. CASE Commits(c)
      BY <1>0, <3>4, NoKeyAssumption
         DEF Commits, Goes, Ends, Idle, NoFile, Places
    <3>5. QED
      BY <1>3, <3>1, <3>2, <3>3, <3>4
  <2>3. /\ created' \in {created, created + 1}
        /\ stored \cup deleted \subseteq stored' \cup deleted'
        /\ UNCHANGED used \/ At(c, "reserved")
    BY <1>3 DEF Fetched, Creates, Puts, Writes, SetsKey, Commits, LeftDeleted
  <2>4. ASSUME NEW d \in Callers, d # c PROVE Has(d)'
    <3>1. call'[d] = call[d]
      BY <1>0, <2>2, <2>4
    <3>2. At(d, "reserved") => UNCHANGED used
      BY <2>3, <2>4 DEF TypeOK
    <3>3. QED
      BY <1>0, <2>3, <3>1, <3>2, HasStays
  <2>5. call'[c] = next
    BY <1>0, <2>2
  <2>6. Has(c)'
    BY <1>0, <2>1, <2>2, <2>3, <2>5 DEF Has, At, Idle, NoFile, Rows
  <2>7. QED
    BY <2>2, <2>4, <2>6, CallStep
<1>4. CASE CreateUpload
  BY <1>0, <1>1, <1>4 DEF CreateUpload, Creates
<1>5. CASE Aside \/ UNCHANGED vars
  BY <1>0, <1>1, <1>5, AsideFrame DEF vars
<1>6. ASSUME NEW m \in Files,
             \/ Put(m) \/ Reclaims(m) \/ Sweep(m) \/ Purge(m)
             \/ Recounts(m) \/ RecountsLate(m)
             \/ SweepFails(m) \/ PurgeFails(m)
      PROVE  Calls'
  <2>1. CASE \/ Put(m) \/ Reclaims(m) \/ Sweep(m)
             \/ SweepFails(m) \/ PurgeFails(m)
    BY <1>0, <1>1, <2>1 DEF Put, Writes, Reclaims, Sweep, SweepFails, PurgeFails
  <2>2. CASE Purge(m)
    BY <1>0, <1>1, <2>2 DEF Purge, TypeOK
  <2>3. CASE Recounts(m) \/ RecountsLate(m)
    BY <1>0, <1>1, <2>3 DEF Recounts, RecountsLate
  <2>4. QED
    BY <1>6, <2>1, <2>2, <2>3
<1>7. QED
  BY <1>2, <1>3, <1>4, <1>5, <1>6, Steps

\* At most one request has reserved, which locks the payer's row.
LEMMA OneReservesStep ==
  ASSUME TypeOK, Calls, [Next]_vars
  PROVE  OneReserves'
<1>1. OneReserves
  BY Types
<1>2. call \in [Callers -> [at : Places, file : Nat, key : Keys \cup {NoKey}]]
  BY DEF Calls
<1>3. CASE UNCHANGED call
  BY <1>1, <1>3 DEF OneReserves, At
<1>4. ASSUME NEW c \in Callers, Looking(c)
      PROVE  OneReserves'
  <2>1. PICK next \in [at : Places, file : Nat, key : Keys \cup {NoKey}] :
           /\ call' = [call EXCEPT ![c] = next]
           /\ next.at # "reserved" \/ ~Locked
    BY <1>4, LookingCalls DEF Idle
  <2>2. QED
    BY <1>1, <1>2, <2>1 DEF OneReserves, Locked, At
<1>5. ASSUME NEW c \in Callers, Fetched(c) \/ Puts(c) \/ SetsKey(c) \/ Commits(c)
      PROVE  OneReserves'
  <2>1. \A d \in Callers : call'[d].at = "reserved" => d # c /\ call'[d] = call[d]
    BY <1>2, <1>5 DEF Fetched, Puts, SetsKey, Commits, Goes, Ends, Idle
  <2>2. QED
    BY <1>1, <2>1 DEF OneReserves, At
<1>6. ASSUME NEW m \in Files,
             \/ Put(m) \/ Reclaims(m) \/ Sweep(m) \/ Purge(m)
             \/ Recounts(m) \/ RecountsLate(m)
             \/ SweepFails(m) \/ PurgeFails(m)
      PROVE  UNCHANGED call
  BY <1>6 DEF Put, Reclaims, Sweep, Purge, Recounts, RecountsLate, SweepFails,
              PurgeFails
<1>7. CASE CreateUpload \/ Aside \/ UNCHANGED vars
  BY <1>3, <1>7, AsideFrame DEF CreateUpload, vars
<1>8. QED
  BY <1>3, <1>4, <1>5, <1>6, <1>7, Steps

-----------------------------------------------------------------------------
(* Imports.                                                                  *)

LEMMA FileFrame ==
  ASSUME NEW m \in Files,
         \/ Put(m) \/ Reclaims(m) \/ Sweep(m) \/ Purge(m)
         \/ Recounts(m) \/ RecountsLate(m)
             \/ SweepFails(m) \/ PurgeFails(m)
  PROVE  UNCHANGED <<created, keyed, elsewhere, call, origin>>
  BY DEF Put, Writes, Reclaims, Sweep, Purge, Recounts, RecountsLate,
         SweepFails, PurgeFails, mediaVars, timeVars, histVars

LEMMA ImportsStep ==
  ASSUME TypeOK, Calls, Imports, [Next]_vars
  PROVE  Imports'
<1> USE DEF mediaVars, timeVars, jobVars, histVars
<1>0. /\ created \in Nat /\ \A d \in Callers : Has(d)
      /\ call \in [Callers -> [at : Places, file : Nat, key : Keys \cup {NoKey}]]
      /\ origin \in [Files -> Keys \cup {NoKey}]
      /\ keyed \in [Files -> Keys \cup {NoKey}]
  BY MediaAssumption DEF TypeOK, Calls
<1>1. ASSUME UNCHANGED <<call, origin, keyed>>
      PROVE  Imports'
  BY <1>1 DEF Imports, Importing
<1>2. \A d \in Callers : Importing(d) =>
        call[d].file \in Rows /\ call[d].file # created + 1
  BY <1>0 DEF Importing, Has, At, Idle, Rows
<1>3. ASSUME NEW c \in Callers, Looking(c)
      PROVE  Imports'
  <2>1. PICK next \in [at : Places, file : Nat, key : Keys \cup {NoKey}] :
           /\ call' = [call EXCEPT ![c] = next]
           /\ \/ next.file = NoFile \/ next.key = NoKey
              \/ /\ call[c].at \notin {"put", "key"} /\ next.at \notin {"put", "key"}
                 /\ next.key = call[c].key /\ next.file = call[c].file
    BY <1>3, LookingCalls DEF Idle, At
  <2>2. UNCHANGED <<origin, keyed>>
    BY <1>3, LookingFrame
  <2>3. ASSUME NEW d \in Callers, Importing(d)'
        PROVE  /\ Importing(d)
               /\ call'[d].key = call[d].key /\ call'[d].file = call[d].file
               /\ call'[d].at \notin {"put", "key"} =>
                    call[d].at \notin {"put", "key"}
    BY <1>0, <2>1, <2>3 DEF Importing
  <2>4. QED
    BY <2>2, <2>3 DEF Imports
<1>4. ASSUME NEW c \in Callers, Fetched(c)
      PROVE  Imports'
  <2>1. /\ created' = created + 1 /\ UNCHANGED keyed
        /\ origin' = [origin EXCEPT ![created + 1] = call[c].key]
        /\ call'[c].file = created + 1 /\ call'[c].at = "put"
        /\ call'[c].key = call[c].key
        /\ \A d \in Callers : d # c => call'[d] = call[d]
    BY <1>0, <1>4 DEF Fetched, Creates
  <2>2. created + 1 \in Files
    BY <1>4, <1>0, MediaAssumption DEF Fetched, Creates, Files, TypeOK
  <2>3. \A d \in Callers : d # c /\ Importing(d)' =>
          Importing(d) /\ call'[d].file # created + 1
    BY <1>2, <2>1 DEF Importing
  <2>4. QED
    BY <1>0, <2>1, <2>2, <2>3 DEF Imports, Importing
<1>5. ASSUME NEW c \in Callers, Puts(c)
      PROVE  Imports'
  <2>1. /\ call'[c].file = call[c].file /\ call'[c].at = "key"
        /\ call'[c].key = call[c].key /\ UNCHANGED <<origin, keyed>>
        /\ \A d \in Callers : d # c => call'[d] = call[d]
    BY <1>0, <1>5 DEF Puts, Goes, Writes
  <2>2. QED
    BY <2>1 DEF Imports, Importing
<1>6. ASSUME NEW c \in Callers, SetsKey(c)
      PROVE  Imports'
  <2>1. /\ At(c, "key") /\ Importing(c) /\ call[c].file \in Files
        /\ UNCHANGED origin
    <3>1. At(c, "key") /\ UNCHANGED origin
      BY <1>6 DEF SetsKey
    <3>2. call[c].file \in Rows /\ call[c].key # NoKey
      BY <1>0, <3>1 DEF Has, At
    <3>3. Rows \subseteq Files /\ NoFile \notin Rows
      BY MediaAssumption DEF Rows, Files, NoFile, TypeOK
    <3>4. QED
      BY <3>1, <3>2, <3>3 DEF Importing
  <2>2. \/ call' = [call EXCEPT ![c] = Idle] /\ UNCHANGED keyed
        \/ /\ call' = [call EXCEPT ![c].at = "begin"]
           /\ keyed' = [keyed EXCEPT ![call[c].file] = call[c].key]
    BY <1>6 DEF SetsKey, Ends, Goes
  <2>3. CASE call' = [call EXCEPT ![c] = Idle] /\ UNCHANGED keyed
    BY <1>0, <2>1, <2>3 DEF Imports, Importing, Idle
  <2>4. CASE /\ call' = [call EXCEPT ![c].at = "begin"]
             /\ keyed' = [keyed EXCEPT ![call[c].file] = call[c].key]
    <3>1. \A d \in Callers :
            /\ call'[d].key = call[d].key /\ call'[d].file = call[d].file
            /\ d # c => call'[d].at = call[d].at
      BY <1>0, <2>4
    <3>2. \A d \in Callers : Importing(d) /\ d # c =>
            keyed'[call[d].file] = keyed[call[d].file]
      BY <1>0, <2>1, <2>4 DEF Imports
    <3>3. keyed'[call[c].file] = call[c].key
      BY <1>0, <2>1, <2>4
    <3>4. QED
      BY <2>1, <3>1, <3>2, <3>3 DEF Imports, Importing
  <2>5. QED
    BY <2>2, <2>3, <2>4
<1>7. ASSUME NEW c \in Callers, Commits(c)
      PROVE  Imports'
  <2>1. At(c, "reserved") /\ call[c].file \in Files /\ UNCHANGED keyed
    BY <1>0, <1>7, MediaAssumption
       DEF Commits, Has, At, Rows, Files, TypeOK
  <2>2. CASE call[c].key = NoKey
    <3>1. /\ call' = [call EXCEPT ![c] = Idle]
          /\ origin' = [origin EXCEPT ![call[c].file] = NoKey]
      BY <1>7, <2>2 DEF Commits, Ends
    <3>2. \A d \in Callers : Importing(d)' =>
            Importing(d) /\ call'[d] = call[d]
      BY <1>0, <3>1 DEF Importing, Idle
    <3>3. \A m \in Files : origin'[m] \in {origin[m], NoKey}
      BY <1>0, <3>1
    <3>4. \A d \in Callers : Importing(d) => call[d].file \in Files
      BY <1>0, <1>2, MediaAssumption DEF Rows, Files, TypeOK
    <3>5. QED
      BY <2>1, <3>2, <3>3, <3>4 DEF Imports
  <2>3. CASE call[c].key # NoKey
    <3>1. call' = [call EXCEPT ![c].at = "imported"] /\ UNCHANGED origin
      BY <1>7, <2>3 DEF Commits, Goes
    <3>2. \A d \in Callers :
            /\ call'[d].key = call[d].key /\ call'[d].file = call[d].file
            /\ d # c => call'[d].at = call[d].at
      BY <1>0, <3>1
    <3>3. QED
      BY <2>1, <3>1, <3>2 DEF Imports, Importing, At
  <2>4. QED
    BY <2>2, <2>3
<1>8. CASE CreateUpload
  <2>1. /\ UNCHANGED <<call, keyed>>
        /\ origin' = [origin EXCEPT ![created + 1] = NoKey]
    BY <1>8 DEF CreateUpload, Creates
  <2>2. \A d \in Callers : Importing(d) =>
          origin'[call[d].file] = origin[call[d].file]
    <3>1. Rows \subseteq Files
      BY MediaAssumption DEF Rows, Files, TypeOK
    <3>2. QED
      BY <1>0, <1>2, <2>1, <3>1
  <2>3. QED
    BY <2>1, <2>2 DEF Imports, Importing
<1>9. CASE Aside \/ UNCHANGED vars
  BY <1>1, <1>9, AsideFrame DEF vars
<1>10. QED
  BY <1>1, <1>3, <1>4, <1>5, <1>6, <1>7, <1>8, <1>9, FileFrame, Steps

LEMMA KeyedStep ==
  ASSUME TypeOK, Calls, Imports, Keyed, [Next]_vars
  PROVE  Keyed'
<1> USE DEF mediaVars, timeVars, jobVars, histVars
<1>0. /\ created \in Nat /\ \A d \in Callers : Has(d)
      /\ origin \in [Files -> Keys \cup {NoKey}] /\ Rows \subseteq Files
      /\ keyed \in [Files -> Keys \cup {NoKey}]
      /\ row \in [Files -> {"none", "pending", "ready", "failed"}]
      /\ \A m \in Files : m \in Rows <=> ~(m > created)
  BY MediaAssumption DEF TypeOK, Calls, Rows, Files
<1>1. ASSUME UNCHANGED <<created, keyed, origin>>,
             Undeleted' \subseteq Undeleted, Live' \subseteq Live
      PROVE  Keyed'
  BY <1>1 DEF Keyed
<1>2. ASSUME NEW key \in Keys \cup {NoKey}, Creates(key)
      PROVE  Keyed'
  <2>1. /\ created' = created + 1 /\ created + 1 \in Files
        /\ row' = [row EXCEPT ![created + 1] = "pending"]
        /\ origin' = [origin EXCEPT ![created + 1] = key]
        /\ UNCHANGED <<deleted, keyed>>
    BY <1>0, <1>2, MediaAssumption DEF Creates, Files
  <2>2. Rows' = Rows \cup {created + 1} /\ keyed[created + 1] = NoKey
        /\ created + 1 \notin Rows
    BY <1>0, <2>1 DEF Rows, Keyed
  <2>3. Live' \subseteq Live
    BY <1>0, <2>1, <2>2 DEF Live, Undeleted
  <2>4. \A m \in Live : origin'[m] = origin[m]
    BY <1>0, <2>1, <2>2 DEF Live, Undeleted
  <2>5. Undeleted' \subseteq Undeleted \cup {created + 1}
    BY <2>1, <2>2 DEF Undeleted
  <2>6. \A m \in Files : m > created' => m > created
    BY <1>0, <2>1, MediaAssumption DEF Files
  <2>7. QED
    BY <2>1, <2>2, <2>3, <2>4, <2>5, <2>6 DEF Keyed
<1>3. ASSUME NEW c \in Callers, SetsKey(c)
      PROVE  Keyed'
  <2> DEFINE m == call[c].file
  <2>1. /\ At(c, "key") /\ Importing(c) /\ m \in Rows /\ m \in Files
        /\ UNCHANGED <<created, row, deleted, origin>>
    BY <1>0, <1>3 DEF SetsKey, Has, At, Importing, Rows, NoFile
  <2>2. Undeleted' = Undeleted /\ Live' = Live
    BY <2>1 DEF Undeleted, Live, Rows
  <2>3. \/ UNCHANGED keyed
        \/ /\ keyed' = [keyed EXCEPT ![m] = call[c].key]
           /\ m \in deleted \/ ~Taken(call[c].key)
    BY <1>3 DEF SetsKey
  <2>4. origin[m] \in {call[c].key, NoKey}
    BY <2>1 DEF Imports
  <2>5. CASE UNCHANGED keyed
    BY <2>1, <2>2, <2>5 DEF Keyed
  <2>6. CASE /\ keyed' = [keyed EXCEPT ![m] = call[c].key]
             /\ m \in deleted \/ ~Taken(call[c].key)
    <3>1. \A n \in Files : n > created' => keyed'[n] = NoKey
      BY <1>0, <2>1, <2>6 DEF Keyed
    <3>2. \A n \in Undeleted : keyed'[n] # keyed[n] =>
            n = m /\ ~Taken(call[c].key)
      BY <1>0, <2>6 DEF Undeleted
    <3>3. \A n, o \in Undeleted :
            keyed'[n] = keyed'[o] /\ keyed'[n] # NoKey => n = o
      BY <1>0, <2>1, <2>6, <3>2 DEF Keyed, Taken, Undeleted
    <3>4. \A n \in Live : origin[n] # NoKey => keyed'[n] = origin[n]
      BY <1>0, <2>1, <2>4, <2>6 DEF Keyed, Live, Undeleted
    <3>5. QED
      BY <2>1, <2>2, <3>1, <3>3, <3>4 DEF Keyed
  <2>7. QED
    BY <2>3, <2>5, <2>6
<1>4. ASSUME NEW c \in Callers, Commits(c)
      PROVE  Keyed'
  <2> DEFINE m == call[c].file
  <2>1. /\ At(c, "reserved") /\ m \in Files /\ m # NoFile
        /\ row' = [row EXCEPT ![m] = "ready"]
        /\ UNCHANGED <<created, deleted, keyed>>
    BY <1>0, <1>4 DEF Commits, Readied, LeftDeleted, Has, At, Rows, NoFile
  <2>2. Undeleted' = Undeleted /\ Live' \subseteq Live \cup {m}
    BY <1>0, <2>1 DEF Undeleted, Live, Rows
  <2>3. \/ /\ call[c].key = NoKey
           /\ origin' = [origin EXCEPT ![m] = NoKey]
        \/ call[c].key # NoKey /\ UNCHANGED origin
    BY <1>4 DEF Commits
  <2>4. origin'[m] # NoKey => keyed[m] = origin'[m]
    BY <1>0, <2>1, <2>3 DEF Imports, Importing, At
  <2>5. \A n \in Live : n # m => origin'[n] = origin[n]
    BY <1>0, <2>3 DEF Live, Undeleted
  <2>6. QED
    BY <2>1, <2>2, <2>4, <2>5 DEF Keyed
<1>5. ASSUME NEW c \in Callers, Looking(c) \/ Puts(c)
      PROVE  Keyed'
  <2>1. UNCHANGED <<created, row, deleted, keyed, origin>>
    BY <1>5, LookingFrame DEF Puts, Writes
  <2>2. QED
    BY <1>1, <2>1 DEF Undeleted, Live, Rows
<1>6. CASE Aside \/ UNCHANGED vars
  <2>1. UNCHANGED <<created, row, deleted, keyed, origin>>
    BY <1>6, AsideFrame DEF vars
  <2>2. QED
    BY <1>1, <2>1 DEF Undeleted, Live, Rows
<1>7. ASSUME NEW m \in Files,
             \/ Put(m) \/ Reclaims(m) \/ Sweep(m) \/ Purge(m)
             \/ Recounts(m) \/ RecountsLate(m)
             \/ SweepFails(m) \/ PurgeFails(m)
      PROVE  Keyed'
  <2>1. UNCHANGED <<created, keyed, origin>>
    BY <1>7, FileFrame
  <2>2. deleted \subseteq deleted'
        /\ \A n \in Files : row'[n] = "ready" => row[n] = "ready"
    BY <1>0, <1>7 DEF Put, Writes, Reclaims, Sweep, Purge, Recounts,
                      RecountsLate, SweepFails, PurgeFails
  <2>3. QED
    BY <1>0, <1>1, <2>1, <2>2 DEF Undeleted, Live, Rows
<1>8. CASE CreateUpload \/ \E c \in Callers : Fetched(c)
  BY <1>2, <1>8 DEF CreateUpload, Fetched, Calls
<1>9. QED
  BY <1>3, <1>4, <1>5, <1>6, <1>7, <1>8, Steps

-----------------------------------------------------------------------------
(* Files.                                                                    *)

\* Only the completion of a file makes it one that can be used.
LEMMA LiveStep ==
  ASSUME TypeOK, Calls, [Next]_vars
  PROVE  \/ Live' \subseteq Live
         \/ \E c \in Callers : /\ Commits(c)
                             /\ Live' \subseteq Live \cup {call[c].file}
<1> USE DEF mediaVars, timeVars, jobVars, histVars
<1>0. /\ created \in Nat /\ Rows \subseteq Files
      /\ row \in [Files -> {"none", "pending", "ready", "failed"}]
  BY MediaAssumption DEF TypeOK, Rows, Files
<1>1. ASSUME UNCHANGED <<created, row, deleted>>
      PROVE  Live' \subseteq Live
  BY <1>1 DEF Live, Undeleted, Rows
<1>2. ASSUME NEW key, Creates(key)
      PROVE  Live' \subseteq Live
  <2>1. /\ created' = created + 1 /\ created + 1 \in Files
        /\ row' = [row EXCEPT ![created + 1] = "pending"]
        /\ UNCHANGED deleted
    BY <1>0, <1>2, MediaAssumption DEF Creates, Files
  <2>2. Rows' = Rows \cup {created + 1}
    BY <1>0, <2>1 DEF Rows
  <2>3. QED
    BY <1>0, <2>1, <2>2 DEF Live, Undeleted
<1>3. ASSUME NEW c \in Callers, Commits(c)
      PROVE  Live' \subseteq Live \cup {call[c].file}
  <2>1. /\ row' = [row EXCEPT ![call[c].file] = "ready"]
        /\ UNCHANGED <<created, deleted>>
    BY <1>3 DEF Commits, Readied, LeftDeleted
  <2>2. QED
    BY <1>0, <2>1 DEF Live, Undeleted, Rows
<1>4. ASSUME NEW m \in Files,
             \/ Put(m) \/ Reclaims(m) \/ Sweep(m) \/ Purge(m)
             \/ Recounts(m) \/ RecountsLate(m)
             \/ SweepFails(m) \/ PurgeFails(m)
      PROVE  Live' \subseteq Live
  <2>1. /\ UNCHANGED created /\ deleted \subseteq deleted'
        /\ \A n \in Files : row'[n] = "ready" => row[n] = "ready"
    BY <1>4 DEF Put, Writes, Reclaims, Sweep, Purge, Recounts, RecountsLate,
                SweepFails, PurgeFails
  <2>2. QED
    BY <1>0, <2>1 DEF Live, Undeleted, Rows
<1>5. CASE CreateUpload \/ \E c \in Callers : Fetched(c)
  BY <1>2, <1>5 DEF CreateUpload, Fetched
<1>6. CASE Aside \/ UNCHANGED vars
  BY <1>1, <1>6, AsideFrame DEF vars
<1>7. ASSUME NEW c \in Callers, Looking(c) \/ Puts(c) \/ SetsKey(c)
      PROVE  Live' \subseteq Live
  BY <1>1, <1>7, LookingFrame DEF Puts, Writes, SetsKey
<1>8. QED
  BY <1>3, <1>4, <1>5, <1>6, <1>7, Steps

LEMMA LiveHasObjectStep ==
  ASSUME TypeOK, Calls, LiveHasObject, [Next]_vars
  PROVE  LiveHasObject'
<1> USE DEF mediaVars, timeVars, jobVars, histVars
<1>1. ASSUME NEW c \in Callers, Commits(c),
             Live' \subseteq Live \cup {call[c].file}
      PROVE  LiveHasObject'
  <2>1. UNCHANGED <<stored, deleted>>
    BY <1>1 DEF Commits, LeftDeleted
  <2>2. call[c].file \in stored \cup deleted
    BY <1>1 DEF Calls, Has, At, Commits
  <2>3. QED
    BY <1>1, <2>1, <2>2 DEF LiveHasObject, Live, Undeleted
<1>2. ASSUME NEW m \in Files, Purge(m), Live' \subseteq Live
      PROVE  LiveHasObject'
  BY <1>2 DEF Purge, LiveHasObject, Live, Undeleted, TypeOK
<1>3. ASSUME stored \subseteq stored', Live' \subseteq Live
      PROVE  LiveHasObject'
  BY <1>3 DEF LiveHasObject
<1>4. ASSUME NEW c \in Callers,
             Looking(c) \/ Fetched(c) \/ Puts(c) \/ SetsKey(c) \/ Commits(c)
      PROVE  stored \subseteq stored'
  BY <1>4, LookingFrame DEF Fetched, Puts, Writes, SetsKey, Commits
<1>5. ASSUME NEW m \in Files,
             \/ Put(m) \/ Reclaims(m) \/ Sweep(m)
             \/ Recounts(m) \/ RecountsLate(m)
             \/ SweepFails(m) \/ PurgeFails(m)
      PROVE  stored \subseteq stored'
  BY <1>5 DEF Put, Writes, Reclaims, Sweep, Recounts, RecountsLate, SweepFails,
              PurgeFails
<1>6. ASSUME CreateUpload \/ Aside \/ UNCHANGED vars
      PROVE  stored \subseteq stored'
  BY <1>6, AsideFrame DEF CreateUpload, vars
<1>7. (\E m \in Files : Purge(m)) \/ stored \subseteq stored'
  BY <1>4, <1>5, <1>6, Steps
<1>8. CASE Live' \subseteq Live
  BY <1>2, <1>3, <1>7, <1>8
<1>9. QED
  BY <1>1, <1>8, LiveStep

\* A completion counts the file that it readies; a recount counts them all.
LEMMA CountStep ==
  ASSUME TypeOK, Calls, StorageIsCounted, [Next]_vars
  PROVE  StorageIsCounted'
<1> USE DEF mediaVars, timeVars, jobVars, histVars
<1>0. /\ used \in Nat /\ elsewhere \in Nat /\ Limit \in Nat
      /\ Cardinality(Live) \in Nat /\ total \in [Files -> Nat]
  BY LiveIsFinite, MediaAssumption DEF TypeOK
<1>1. SUFFICES ASSUME ~overtaken'
               PROVE  Total' <= used' /\ Total' <= Limit
  BY DEF StorageIsCounted
<1>2. UNCHANGED elsewhere /\ (overtaken => overtaken')
  <2>1. ASSUME NEW c \in Callers,
               Looking(c) \/ Fetched(c) \/ Puts(c) \/ SetsKey(c) \/ Commits(c)
        PROVE  UNCHANGED <<elsewhere, overtaken>>
    BY <2>1, LookingFrame DEF Fetched, Creates, Puts, Writes, SetsKey, Commits
  <2>2. ASSUME NEW m \in Files,
               \/ Put(m) \/ Reclaims(m) \/ Sweep(m) \/ Purge(m)
               \/ Recounts(m) \/ RecountsLate(m)
             \/ SweepFails(m) \/ PurgeFails(m)
        PROVE  UNCHANGED elsewhere /\ (overtaken => overtaken')
    <3>1. CASE RecountsLate(m)
      <4>1. overtaken' = (overtaken \/ total[m] < Total)
        BY <3>1 DEF RecountsLate
      <4>2. UNCHANGED elsewhere
        BY <3>1 DEF RecountsLate
      <4>3. QED
        BY <4>1, <4>2, Zenon
    <3>2. CASE \/ Put(m) \/ Reclaims(m) \/ Sweep(m) \/ Purge(m)
               \/ Recounts(m) \/ SweepFails(m) \/ PurgeFails(m)
      <4>1. UNCHANGED <<elsewhere, overtaken>>
        BY <3>2 DEF Put, Writes, Reclaims, Sweep, Purge, Recounts, SweepFails,
                    PurgeFails
      <4>2. QED
        BY <4>1, Zenon
    <3>3. QED
      BY <2>2, <3>1, <3>2
  <2>3. ASSUME CreateUpload \/ Aside \/ UNCHANGED vars
        PROVE  UNCHANGED <<elsewhere, overtaken>>
    BY <2>3, AsideFrame DEF CreateUpload, Creates, vars
  <2>4. QED
    BY <2>1, <2>2, <2>3, Steps
<1>3. Total <= used /\ Total <= Limit
  BY <1>1, <1>2 DEF StorageIsCounted
<1>4. ASSUME Live' \subseteq Live
      PROVE  Total' <= Total /\ Total' \in Nat
  <2>1. Cardinality(Live') \in Nat /\ Cardinality(Live') <= Cardinality(Live)
    BY <1>4, LiveIsFinite
  <2>2. QED
    BY <1>0, <1>2, <2>1 DEF Total
<1>5. ASSUME NEW c \in Callers, Commits(c),
             Live' \subseteq Live \cup {call[c].file}
      PROVE  Total' <= used' /\ Total' <= Limit
  <2>1. used' = used + 1 /\ used + 1 <= Limit
    BY <1>5 DEF Commits, Calls, Has
  <2>2. /\ IsFiniteSet(Live \cup {call[c].file})
        /\ \/ Cardinality(Live \cup {call[c].file}) = Cardinality(Live)
           \/ Cardinality(Live \cup {call[c].file}) = Cardinality(Live) + 1
    BY LiveIsFinite, FS_AddElement
  <2>3. /\ Cardinality(Live') <= Cardinality(Live) + 1
        /\ Cardinality(Live') \in Nat
    <3>1. /\ IsFiniteSet(Live')
          /\ Cardinality(Live') <= Cardinality(Live \cup {call[c].file})
      BY <1>5, <2>2, FS_Subset
    <3>2. Cardinality(Live') \in Nat
      BY <3>1, FS_CardinalityType
    <3>3. QED
      BY <1>0, <2>2, <3>1, <3>2
  <2>4. QED
    BY <1>0, <1>2, <1>3, <2>1, <2>3 DEF Total
<1>6. ASSUME NEW m \in Files, Recounts(m) \/ RecountsLate(m)
      PROVE  Total' <= used' /\ Total' <= Limit
  <2>1. UNCHANGED <<created, row, deleted, elsewhere>>
    BY <1>6 DEF Recounts, RecountsLate
  <2>2. Live' = Live
    BY <2>1 DEF Live, Undeleted, Rows
  <2>3. Total' = Total
    BY <2>1, <2>2 DEF Total
  <2>4. \/ used' \in {used, Total}
        \/ used' = total[m] /\ ~(total[m] < Total)
    <3>1. CASE Recounts(m)
      <4>1. CASE Locked
        BY <3>1, <4>1 DEF Recounts
      <4>2. CASE ~Locked
        <5>1. used' = Total
          BY <3>1, <4>2 DEF Recounts
        <5>2. QED
          BY <5>1
      <4>3. QED
        BY <4>1, <4>2
    <3>2. CASE RecountsLate(m)
      <4>1. used' = total[m] /\ overtaken' = (overtaken \/ total[m] < Total)
        BY <3>2 DEF RecountsLate
      <4>2. ~(total[m] < Total)
        BY <1>1, <4>1, Zenon
      <4>3. QED
        BY <4>1, <4>2
    <3>3. QED
      BY <1>6, <3>1, <3>2
  <2>5. total[m] \in Nat /\ Total \in Nat
    BY <1>0, LiveIsFinite
  <2>6. QED
    BY <1>0, <1>3, <2>3, <2>4, <2>5
<1>7. ASSUME Live' \subseteq Live, UNCHANGED used
      PROVE  Total' <= used' /\ Total' <= Limit
  BY <1>0, <1>3, <1>4, <1>7, LiveIsFinite
<1>8. \/ UNCHANGED used
      \/ \E c \in Callers : Commits(c)
      \/ \E m \in Files : Recounts(m) \/ RecountsLate(m)
  <2>1. ASSUME NEW c \in Callers,
               Looking(c) \/ Fetched(c) \/ Puts(c) \/ SetsKey(c)
        PROVE  UNCHANGED used
    BY <2>1, LookingFrame DEF Fetched, Puts, Writes, SetsKey
  <2>2. ASSUME NEW m \in Files,
               \/ Put(m) \/ Reclaims(m) \/ Sweep(m) \/ Purge(m)
               \/ SweepFails(m) \/ PurgeFails(m)
        PROVE  UNCHANGED used
    BY <2>2 DEF Put, Writes, Reclaims, Sweep, Purge, SweepFails, PurgeFails
  <2>3. ASSUME CreateUpload \/ Aside \/ UNCHANGED vars
        PROVE  UNCHANGED used
    BY <2>3, AsideFrame DEF CreateUpload, vars
  <2>4. QED
    BY <2>1, <2>2, <2>3, Steps
<1>9. ASSUME NEW c \in Callers, Commits(c)
      PROVE  Live' \subseteq Live \cup {call[c].file}
  <2>1. /\ row' = [row EXCEPT ![call[c].file] = "ready"]
        /\ UNCHANGED <<created, deleted>>
    BY <1>9 DEF Commits, Readied, LeftDeleted
  <2>2. /\ row \in [Files -> {"none", "pending", "ready", "failed"}]
        /\ Rows \subseteq Files
    BY MediaAssumption DEF TypeOK, Rows, Files
  <2>3. QED
    BY <2>1, <2>2 DEF Live, Undeleted, Rows
<1>10. QED
  BY <1>5, <1>6, <1>7, <1>8, <1>9, LiveStep

(* Attempts.                                                                 *)

\* What a step does to the attempts of a job: nothing, a new beginning, or one
\* more failure, after which it is due only if it was not the last one.
Ticks(kind, m) ==
  \/ tried'[kind][m] = 0
  \/ /\ tried'[kind][m] = tried[kind][m]
     /\ m \in Busy(kind)' => m \in Busy(kind)
  \/ /\ m \in Busy(kind) /\ tried'[kind][m] = tried[kind][m] + 1
     /\ faults' = faults + 1
     /\ m \in Busy(kind)' => tried[kind][m] + 1 < MaxAttempts

LEMMA TicksStep ==
  ASSUME TypeOK, Attempts, tried' \in [Kinds -> [Files -> Nat]],
         faults' \in {faults, faults + 1},
         \A kind \in Kinds : \A m \in Files : Ticks(kind, m)
  PROVE  TriedTypes' /\ Attempts'
<1>0. /\ faults \in Nat /\ MaxAttempts \in Nat \ {0}
      /\ tried \in [Kinds -> [Files -> 0..MaxAttempts]]
  BY MediaAssumption DEF TypeOK
<1>1. ASSUME NEW kind \in Kinds, NEW m \in Files
      PROVE  /\ tried'[kind][m] \in 0..MaxAttempts
             /\ tried'[kind][m] <= faults'
             /\ m \in Busy(kind)' => tried'[kind][m] # MaxAttempts
  <2> DEFINE old == tried[kind][m]
             new == tried'[kind][m]
  <2>1. /\ old \in 0..MaxAttempts /\ old <= faults
        /\ m \in Busy(kind) => old # MaxAttempts
    BY <1>0 DEF Attempts, Closed
  <2>2. \/ new = 0
        \/ new = old /\ (m \in Busy(kind)' => m \in Busy(kind))
        \/ /\ m \in Busy(kind) /\ new = old + 1 /\ faults' = faults + 1
           /\ m \in Busy(kind)' => old + 1 < MaxAttempts
    BY DEF Ticks
  <2> HIDE DEF old, new
  <2>3. /\ new \in 0..MaxAttempts /\ new <= faults'
        /\ m \in Busy(kind)' => new # MaxAttempts
    BY <1>0, <2>1, <2>2
  <2>4. QED
    BY <2>3 DEF new
<1>2. QED
  BY <1>1 DEF TriedTypes, Attempts, Closed

\* Kinds are told apart.
LEMMA BusyIs ==
  /\ Busy("sweep") = sweeps /\ Busy("reclaim") = reclaims \cup unreferred
  /\ Busy("purge") = purges \cup purging
  BY DEF Busy

LEMMA AttemptsStep ==
  ASSUME TypeOK, Attempts, [Next]_vars
  PROVE  TriedTypes' /\ Attempts'
<1> USE DEF jobVars, histVars
<1>0. /\ faults \in Nat /\ MaxAttempts \in Nat \ {0}
      /\ tried \in [Kinds -> [Files -> 0..MaxAttempts]]
      /\ tried \in [Kinds -> [Files -> Nat]]
  BY MediaAssumption DEF TypeOK
<1>1. ASSUME UNCHANGED <<tried, sweeps, reclaims, unreferred>>,
             purges' \cup purging' \subseteq purges \cup purging,
             faults' \in {faults, faults + 1}
      PROVE  TriedTypes' /\ Attempts'
  <2>1. \A kind \in Kinds : \A m \in Files : Ticks(kind, m)
    BY <1>1, BusyIs DEF Ticks, Busy, Kinds
  <2>2. QED
    BY <1>0, <1>1, <2>1, TicksStep
<1>2. ASSUME NEW key, Creates(key), UNCHANGED faults
      PROVE  TriedTypes' /\ Attempts'
  <2>1. /\ tried' = [tried EXCEPT !["sweep"] =
                        Untried("sweep", {today, created + 1})]
        /\ sweeps' = (sweeps \ {today}) \cup {created + 1}
        /\ UNCHANGED <<reclaims, unreferred, purges, purging>>
    BY <1>2 DEF Creates, Sweeps
  <2>2. /\ tried' \in [Kinds -> [Files -> Nat]]
        /\ \A m \in Files :
             /\ tried'["sweep"][m] \in {0, tried["sweep"][m]}
             /\ m = created + 1 => tried'["sweep"][m] = 0
             /\ tried'["reclaim"][m] = tried["reclaim"][m]
             /\ tried'["purge"][m] = tried["purge"][m]
    BY <1>0, <2>1 DEF Untried, Kinds
  <2>3. \A kind \in Kinds : \A m \in Files : Ticks(kind, m)
    BY <2>1, <2>2 DEF Ticks, Busy, Kinds
  <2>4. QED
    BY <1>2, <2>2, <2>3, TicksStep
<1>3. ASSUME NEW m \in Files, Remove(m) \/ Release(m) \/ Looks(m)
      PROVE  TriedTypes' /\ Attempts'
  <2>1. /\ UNCHANGED <<sweeps, purges, purging, faults>>
        /\ tried' \in {tried, [tried EXCEPT !["reclaim"][m] = 0]}
        /\ \/ reclaims' \cup unreferred' \subseteq reclaims \cup unreferred
           \/ /\ reclaims' = reclaims \cup {m} /\ UNCHANGED unreferred
              /\ tried' = [tried EXCEPT !["reclaim"][m] = 0]
    BY <1>3 DEF Remove, Release, Looks
  <2>2. /\ tried' \in [Kinds -> [Files -> Nat]]
        /\ \A n \in Files :
             /\ tried'["reclaim"][n] \in {0, tried["reclaim"][n]}
             /\ tried'["sweep"][n] = tried["sweep"][n]
             /\ tried'["purge"][n] = tried["purge"][n]
    BY <1>0, <2>1 DEF Kinds
  <2>3. tried' = [tried EXCEPT !["reclaim"][m] = 0] => tried'["reclaim"][m] = 0
    BY <1>0 DEF Kinds
  <2>4. \A kind \in Kinds : \A n \in Files : Ticks(kind, n)
    BY <2>1, <2>2, <2>3 DEF Ticks, Busy, Kinds
  <2>5. QED
    BY <2>1, <2>2, <2>4, TicksStep
<1>4. ASSUME NEW m \in Files, Reclaims(m)
      PROVE  TriedTypes' /\ Attempts'
  <2>1. /\ UNCHANGED <<sweeps, reclaims, purging, faults>>
        /\ tried' = [tried EXCEPT !["reclaim"][m] = 0, !["purge"][m] = 0]
        /\ unreferred' = unreferred \ {m} /\ purges' = purges \cup {m}
    BY <1>4 DEF Reclaims, Purges
  <2>2. /\ tried' \in [Kinds -> [Files -> Nat]]
        /\ tried'["purge"][m] = 0
        /\ \A kind \in Kinds : \A n \in Files :
             tried'[kind][n] \in {0, tried[kind][n]}
    BY <1>0, <2>1 DEF Kinds
  <2>3. \A kind \in Kinds : \A n \in Files : Ticks(kind, n)
    BY <2>1, <2>2 DEF Ticks, Busy, Kinds
  <2>4. QED
    BY <2>1, <2>2, <2>3, TicksStep
<1>5. ASSUME NEW d \in Files, Sweep(d)
      PROVE  TriedTypes' /\ Attempts'
  <2>1. /\ UNCHANGED <<reclaims, unreferred, purging, faults>>
        /\ tried' = [tried EXCEPT !["sweep"][d] = 0,
                                  !["purge"] = Untried("purge", Swept)]
        /\ sweeps' = sweeps \ {d} /\ purges' = purges \cup Swept
    BY <1>5 DEF Sweep, Purges
  <2>2. /\ tried' \in [Kinds -> [Files -> Nat]]
        /\ \A m \in Files :
             /\ tried'["sweep"][m] \in {0, tried["sweep"][m]}
             /\ tried'["reclaim"][m] = tried["reclaim"][m]
             /\ tried'["purge"][m] \in {0, tried["purge"][m]}
             /\ m \in Swept => tried'["purge"][m] = 0
    BY <1>0, <2>1 DEF Untried, Kinds
  <2>3. \A kind \in Kinds : \A m \in Files : Ticks(kind, m)
    BY <2>1, <2>2 DEF Ticks, Busy, Kinds
  <2>4. QED
    BY <2>1, <2>2, <2>3, TicksStep
<1>6. ASSUME NEW m \in Files, Recounts(m) \/ RecountsLate(m)
      PROVE  TriedTypes' /\ Attempts'
  <2>1. /\ UNCHANGED <<sweeps, reclaims, unreferred, purges, faults>>
        /\ tried' \in {tried, [tried EXCEPT !["purge"][m] = 0]}
        /\ purging' \subseteq purging
    BY <1>6 DEF Recounts, RecountsLate
  <2>2. /\ tried' \in [Kinds -> [Files -> Nat]]
        /\ \A kind \in Kinds : \A n \in Files :
             tried'[kind][n] \in {0, tried[kind][n]}
    BY <1>0, <2>1 DEF Kinds
  <2>3. \A kind \in Kinds : \A n \in Files : Ticks(kind, n)
    BY <2>1, <2>2 DEF Ticks, Busy, Kinds
  <2>4. QED
    BY <2>1, <2>2, <2>3, TicksStep
<1>7. ASSUME NEW kind \in Kinds, NEW m \in Files, m \in Busy(kind),
             tried' = Failed(kind, m), faults' = faults + 1,
             m \in Busy(kind)' => tried[kind][m] + 1 < MaxAttempts,
             \A n \in Files \ {m} : n \in Busy(kind)' => n \in Busy(kind),
             \A other \in Kinds \ {kind} : Busy(other)' = Busy(other)
      PROVE  TriedTypes' /\ Attempts'
  <2>1. /\ tried' \in [Kinds -> [Files -> Nat]]
        /\ tried'[kind][m] = tried[kind][m] + 1
        /\ \A n \in Files \ {m} : tried'[kind][n] = tried[kind][n]
        /\ \A other \in Kinds \ {kind} : tried'[other] = tried[other]
    BY <1>0, <1>7 DEF Failed
  <2>2. \A other \in Kinds : \A n \in Files : Ticks(other, n)
    BY <1>7, <2>1 DEF Ticks
  <2>3. QED
    BY <1>7, <2>1, <2>2, TicksStep
<1>8. ASSUME NEW m \in Files, SweepFails(m)
      PROVE  TriedTypes' /\ Attempts'
  <2>1. /\ m \in sweeps /\ faults' = faults + 1
        /\ tried' = Failed("sweep", m)
        /\ sweeps' = DueAgain("sweep", m, sweeps)
        /\ UNCHANGED <<reclaims, unreferred, purges, purging>>
    BY <1>8 DEF SweepFails, Fault
  <2>2. QED
    BY <1>7, <2>1 DEF Busy, DueAgain, Kinds
<1>9. ASSUME NEW m \in Files, ReclaimFails(m)
      PROVE  TriedTypes' /\ Attempts'
  <2>1. /\ m \in reclaims \cup unreferred /\ faults' = faults + 1
        /\ unreferred' = unreferred \ {m}
        /\ UNCHANGED <<sweeps, purges, purging>>
    BY <1>9 DEF ReclaimFails, Fault
  <2>2. CASE UNCHANGED <<reclaims, tried>>
    <3>1. \A kind \in Kinds : \A n \in Files : Ticks(kind, n)
      BY <2>1, <2>2 DEF Ticks, Busy, Kinds
    <3>2. QED
      BY <1>0, <2>1, <2>2, <3>1, TicksStep
  <2>3. CASE /\ reclaims' = DueAgain("reclaim", m, reclaims)
             /\ tried' = Failed("reclaim", m)
    BY <1>7, <2>1, <2>3 DEF Busy, DueAgain, Kinds
  <2>4. QED
    BY <1>9, <2>2, <2>3 DEF ReclaimFails
<1>10. ASSUME NEW m \in Files, PurgeFails(m)
      PROVE  TriedTypes' /\ Attempts'
  <2>1. /\ m \in purges \cup purging /\ faults' = faults + 1
        /\ purging' = purging \ {m}
        /\ UNCHANGED <<sweeps, reclaims, unreferred>>
    BY <1>10 DEF PurgeFails, Fault
  <2>2. CASE UNCHANGED <<purges, tried>>
    BY <1>1, <2>1, <2>2
  <2>3. CASE /\ purges' = DueAgain("purge", m, purges)
             /\ tried' = Failed("purge", m)
    BY <1>7, <2>1, <2>3 DEF Busy, DueAgain, Kinds
  <2>4. QED
    BY <1>10, <2>2, <2>3 DEF PurgeFails
<1>11. ASSUME NEW m \in Files, Put(m) \/ Purge(m)
       PROVE  TriedTypes' /\ Attempts'
  BY <1>0, <1>1, <1>11 DEF Put, Writes, Purge
<1>12. ASSUME NEW c \in Callers,
              Looking(c) \/ Puts(c) \/ SetsKey(c) \/ Commits(c)
       PROVE  TriedTypes' /\ Attempts'
  <2>1. UNCHANGED <<tried, sweeps, reclaims, unreferred, purges, purging>>
    BY <1>12, LookingFrame DEF Puts, Writes, SetsKey, Commits
  <2>2. faults' \in {faults, faults + 1}
    BY <1>12 DEF Looking, Complete, Import, Refused, Begins, Heads, Reserves,
                 Imported, Dies, Fault, Puts, SetsKey, Commits
  <2>3. QED
    BY <1>1, <2>1, <2>2
<1>13. ASSUME \/ Age \/ DayBreaks \/ \E k \in Keys : ImportLapses(k)
              \/ \E m \in Files : Refer(m)
              \/ UNCHANGED vars
       PROVE  TriedTypes' /\ Attempts'
  BY <1>0, <1>1, <1>13 DEF Age, DayBreaks, ImportLapses, Refer, vars
<1>14. ASSUME CreateUpload \/ \E c \in Callers : Fetched(c)
       PROVE  TriedTypes' /\ Attempts'
  BY <1>2, <1>14 DEF CreateUpload, Fetched
<1>15. QED
  BY <1>3, <1>4, <1>5, <1>6, <1>8, <1>9, <1>10, <1>11, <1>12, <1>13, <1>14,
     Steps DEF Aside

-----------------------------------------------------------------------------
(* Leftovers.                                                                *)

\* The sweeps of the property: those that are due, and those that are closed.
Ahead == sweeps \cup Closed("sweep")

\* No step but a creation and a sweep takes one away.
LEMMA AheadStep ==
  ASSUME TypeOK, Attempts, [Next]_vars
  PROVE  \/ CreateUpload \/ \E c \in Callers : Fetched(c)
         \/ \E d \in Files : Sweep(d)
         \/ Ahead \subseteq Ahead'
<1> USE DEF jobVars, histVars
<1>0. tried \in [Kinds -> [Files -> 0..MaxAttempts]] /\ MaxAttempts \in Nat
  BY MediaAssumption DEF TypeOK
<1>1. ASSUME sweeps' = sweeps, tried'["sweep"] = tried["sweep"]
      PROVE  Ahead \subseteq Ahead'
  BY <1>1 DEF Ahead, Closed
<1>2. ASSUME NEW m \in Files,
             \/ Put(m) \/ Reclaims(m) \/ Purge(m) \/ Recounts(m)
             \/ RecountsLate(m) \/ PurgeFails(m) \/ Remove(m) \/ Refer(m)
             \/ Release(m) \/ Looks(m) \/ ReclaimFails(m)
      PROVE  Ahead \subseteq Ahead'
  <2>1. /\ UNCHANGED sweeps
        /\ \/ UNCHANGED tried
           \/ tried' = [tried EXCEPT !["purge"][m] = 0]
           \/ tried' = [tried EXCEPT !["reclaim"][m] = 0]
           \/ tried' = [tried EXCEPT !["reclaim"][m] = 0, !["purge"][m] = 0]
           \/ tried' = [tried EXCEPT !["purge"][m] = @ + 1]
           \/ tried' = [tried EXCEPT !["reclaim"][m] = @ + 1]
    BY <1>2 DEF Put, Writes, Reclaims, Purge, Recounts, RecountsLate,
                PurgeFails, Remove, Refer, Release, Looks, ReclaimFails, Failed
  <2>2. tried'["sweep"] = tried["sweep"]
    BY <1>0, <2>1 DEF Kinds
  <2>3. QED
    BY <1>1, <2>1, <2>2
<1>3. ASSUME NEW d \in Files, SweepFails(d)
      PROVE  Ahead \subseteq Ahead'
  <2>1. /\ d \in sweeps /\ sweeps' = DueAgain("sweep", d, sweeps)
        /\ tried' = [tried EXCEPT !["sweep"][d] = @ + 1]
    BY <1>3 DEF SweepFails, Failed
  <2>2. /\ tried'["sweep"][d] = tried["sweep"][d] + 1
        /\ \A m \in Files \ {d} : tried'["sweep"][m] = tried["sweep"][m]
        /\ tried["sweep"][d] \in 0..MaxAttempts
    BY <1>0, <2>1 DEF Kinds
  <2>3. d \in sweeps' \/ tried'["sweep"][d] = MaxAttempts
    <3> DEFINE old == tried["sweep"][d]
    <3>1. old + 1 < MaxAttempts => d \in sweeps'
      BY <2>1, DueAgainIs
    <3>2. old # MaxAttempts
      BY <2>1, BusyIs DEF Attempts, Closed, Kinds
    <3>3. old \in 0..MaxAttempts /\ tried'["sweep"][d] = old + 1
      BY <2>2
    <3> HIDE DEF old
    <3>4. QED
      BY <1>0, <3>1, <3>2, <3>3
  <2>4. sweeps \ {d} \subseteq sweeps'
    BY <2>1, DueAgainIs
  <2>5. QED
    BY <2>2, <2>3, <2>4 DEF Ahead, Closed
<1>4. ASSUME \/ Age \/ DayBreaks \/ \E k \in Keys : ImportLapses(k)
             \/ UNCHANGED vars
             \/ \E c \in Callers :
                  Looking(c) \/ Puts(c) \/ SetsKey(c) \/ Commits(c)
      PROVE  UNCHANGED <<sweeps, tried>>
  BY <1>4, LookingFrame DEF Age, DayBreaks, ImportLapses, vars, Puts, Writes,
     SetsKey, Commits
<1>5. QED
  BY <1>1, <1>2, <1>3, <1>4, Steps DEF Aside

\* The sweep of the day of a creation covers all that was created before.
LEMMA AbandonedStep ==
  ASSUME TypeOK, Calls, Attempts, AbandonedHasSweep, [Next]_vars
  PROVE  AbandonedHasSweep'
<1> USE DEF mediaVars, timeVars, jobVars, histVars
<1> DEFINE Open == {m \in Undeleted : row[m] = "pending"}
<1>0. /\ created \in Nat /\ Rows \subseteq Files /\ sweeps \subseteq Rows
      /\ row \in [Files -> {"none", "pending", "ready", "failed"}]
      /\ aged \in Nat /\ tried \in [Kinds -> [Files -> 0..MaxAttempts]]
  BY MediaAssumption DEF TypeOK, Rows, Files
<1>1. ASSUME Open' \subseteq Open, Ahead \subseteq Ahead'
      PROVE  AbandonedHasSweep'
  BY <1>1 DEF AbandonedHasSweep, Ahead
<1>2. ASSUME NEW key, Creates(key)
      PROVE  AbandonedHasSweep'
  <2>1. created' = created + 1 /\ created + 1 \in sweeps'
    BY <1>2 DEF Creates, Sweeps
  <2>2. \A m \in Undeleted' : m <= created + 1
    BY <1>0, <2>1 DEF Undeleted, Rows
  <2>3. QED
    BY <2>1, <2>2 DEF AbandonedHasSweep
<1>3. ASSUME NEW d \in Files, Sweep(d)
      PROVE  AbandonedHasSweep'
  <2>1. /\ sweeps' = sweeps \ {d} /\ d <= aged /\ UNCHANGED created
        /\ deleted' = deleted \cup Swept
        /\ \A m \in Files : row'[m] = "pending" => row[m] = "pending"
        /\ tried' = [tried EXCEPT !["sweep"][d] = 0,
                                  !["purge"] = Untried("purge", Swept)]
    BY <1>3 DEF Sweep
  <2>2. SUFFICES ASSUME NEW m \in Undeleted', row'[m] = "pending"
                 PROVE  \E e \in Ahead' : m <= e
    BY DEF AbandonedHasSweep, Ahead
  <2>3. m \in Undeleted /\ m \notin Swept /\ row[m] = "pending" /\ m \in Nat
    BY <1>0, <2>1, <2>2 DEF Undeleted, Rows
  <2>4. m > aged
    BY <1>0, <2>3 DEF Swept
  <2>5. PICK e \in Ahead : m <= e
    BY <2>3 DEF AbandonedHasSweep, Ahead
  <2>6. e \in Files
    BY <1>0 DEF Ahead, Closed
  <2>7. e # d
    BY <1>0, <2>1, <2>3, <2>4, <2>5, <2>6, MediaAssumption DEF Files
  <2>8. tried'["sweep"][e] = tried["sweep"][e]
    BY <1>0, <2>1, <2>6, <2>7 DEF Kinds
  <2>9. QED
    BY <2>1, <2>5, <2>6, <2>7, <2>8 DEF Ahead, Closed
<1>4. ASSUME NEW m \in Files,
             \/ Put(m) \/ Reclaims(m) \/ Purge(m)
             \/ Recounts(m) \/ RecountsLate(m)
             \/ SweepFails(m) \/ PurgeFails(m)
      PROVE  Open' \subseteq Open
  <2>1. UNCHANGED <<created, row>> /\ deleted \subseteq deleted'
    BY <1>4 DEF Put, Writes, Reclaims, Purge, Recounts, RecountsLate,
                SweepFails, PurgeFails
  <2>2. QED
    BY <2>1 DEF Undeleted, Rows
<1>5. ASSUME NEW c \in Callers,
             Looking(c) \/ Puts(c) \/ SetsKey(c) \/ Commits(c)
      PROVE  Open' \subseteq Open
  <2>1. /\ UNCHANGED <<created, deleted>>
        /\ \A m \in Files : row'[m] = "pending" => row[m] = "pending"
    <3>1. CASE Looking(c) \/ Puts(c) \/ SetsKey(c)
      BY <3>1, LookingFrame DEF Puts, Writes, SetsKey
    <3>2. CASE Commits(c)
      BY <1>0, <3>2 DEF Commits, Readied, LeftDeleted
    <3>3. QED
      BY <1>5, <3>1, <3>2
  <2>2. QED
    BY <1>0, <2>1 DEF Undeleted, Rows
<1>6. ASSUME Aside \/ UNCHANGED vars
      PROVE  Open' \subseteq Open
  BY <1>6, AsideFrame DEF vars, Undeleted, Rows
<1>7. CASE CreateUpload \/ \E c \in Callers : Fetched(c)
  BY <1>2, <1>7 DEF CreateUpload, Fetched
<1> HIDE DEF Open
<1>8. CASE Open' \subseteq Open
  BY <1>1, <1>3, <1>7, <1>8, AheadStep
<1>9. QED
  BY <1>3, <1>4, <1>5, <1>6, <1>7, <1>8, Steps

LEMMA DeletedStep ==
  ASSUME TypeOK, Calls, Attempts, DeletedHasJob, [Next]_vars
  PROVE  DeletedHasJob'
<1> USE DEF mediaVars, timeVars, jobVars, histVars
<1>0. tried \in [Kinds -> [Files -> 0..MaxAttempts]] /\ MaxAttempts \in Nat
  BY MediaAssumption DEF TypeOK
<1>1. ASSUME UNCHANGED <<deleted, stored, purges, late>>,
             tried'["purge"] = tried["purge"]
      PROVE  DeletedHasJob'
  BY <1>1 DEF DeletedHasJob, Closed
<1>2. ASSUME NEW m, Writes(m)
      PROVE  DeletedHasJob'
  BY <1>2 DEF Writes, DeletedHasJob, Closed
<1>3. ASSUME NEW m \in Files,
             \/ Reclaims(m) \/ Sweep(m) \/ Purge(m) \/ PurgeFails(m)
             \/ Recounts(m) \/ RecountsLate(m)
      PROVE  DeletedHasJob'
  <2>1. CASE Reclaims(m)
    <3>1. /\ deleted' = deleted \cup {m} /\ purges' = purges \cup {m}
          /\ UNCHANGED <<stored, late>>
          /\ tried' = [tried EXCEPT !["reclaim"][m] = 0, !["purge"][m] = 0]
      BY <2>1 DEF Reclaims, Purges
    <3>2. \A n \in Files \ {m} : tried'["purge"][n] = tried["purge"][n]
      BY <1>0, <3>1 DEF Kinds
    <3>3. QED
      BY <3>1, <3>2 DEF DeletedHasJob, Closed
  <2>2. CASE Sweep(m)
    <3>1. /\ deleted' = deleted \cup Swept /\ purges' = purges \cup Swept
          /\ UNCHANGED <<stored, late>>
          /\ tried' = [tried EXCEPT !["sweep"][m] = 0,
                                    !["purge"] = Untried("purge", Swept)]
      BY <2>2 DEF Sweep, Purges
    <3>2. \A n \in Files \ Swept : tried'["purge"][n] = tried["purge"][n]
      BY <1>0, <3>1 DEF Untried, Kinds
    <3>3. QED
      BY <3>1, <3>2 DEF DeletedHasJob, Closed
  <2>3. CASE Purge(m)
    BY <2>3 DEF Purge, DeletedHasJob, Closed
  <2>4. CASE PurgeFails(m)
    <3>1. /\ UNCHANGED <<deleted, stored, late>> /\ m \in Busy("purge")
          /\ \/ UNCHANGED <<purges, tried>>
             \/ /\ purges' = DueAgain("purge", m, purges)
                /\ tried' = [tried EXCEPT !["purge"][m] = @ + 1]
      BY <2>4, BusyIs DEF PurgeFails, Failed
    <3>2. tried["purge"][m] \in 0..MaxAttempts /\ tried["purge"][m] # MaxAttempts
      BY <1>0, <3>1 DEF Attempts, Closed, Kinds
    <3>3. CASE UNCHANGED <<purges, tried>>
      BY <1>1, <3>1, <3>3
    <3>4. CASE /\ purges' = DueAgain("purge", m, purges)
               /\ tried' = [tried EXCEPT !["purge"][m] = @ + 1]
      <4>1. /\ tried'["purge"][m] = tried["purge"][m] + 1
            /\ \A n \in Files \ {m} : tried'["purge"][n] = tried["purge"][n]
        BY <1>0, <3>4 DEF Kinds
      <4>2. m \in purges' \/ tried'["purge"][m] = MaxAttempts
        <5> DEFINE old == tried["purge"][m]
        <5>1. old + 1 < MaxAttempts => m \in purges'
          BY <3>4, DueAgainIs
        <5>2. /\ old \in 0..MaxAttempts /\ old # MaxAttempts
              /\ tried'["purge"][m] = old + 1
          BY <3>2, <4>1
        <5> HIDE DEF old
        <5>3. QED
          BY <1>0, <5>1, <5>2
      <4>3. purges \ {m} \subseteq purges'
        BY <3>4, DueAgainIs
      <4>4. QED
        BY <3>1, <4>1, <4>2, <4>3 DEF DeletedHasJob, Closed
    <3>5. QED
      BY <3>1, <3>3, <3>4
  <2>5. CASE Recounts(m) \/ RecountsLate(m)
    <3>1. /\ UNCHANGED <<deleted, stored, purges, late>> /\ m \in Busy("purge")
          /\ tried' \in {tried, [tried EXCEPT !["purge"][m] = 0]}
      BY <2>5, BusyIs DEF Recounts, RecountsLate, TypeOK
    <3>2. m \notin Closed("purge")
      BY <3>1 DEF Attempts, Kinds
    <3>3. \A n \in Files \ {m} : tried'["purge"][n] = tried["purge"][n]
      BY <1>0, <3>1 DEF Kinds
    <3>4. QED
      BY <3>1, <3>2, <3>3 DEF DeletedHasJob, Closed
  <2>6. QED
    BY <1>3, <2>1, <2>2, <2>3, <2>4, <2>5
<1>4. ASSUME NEW m \in Files,
             \/ Remove(m) \/ Refer(m) \/ Release(m) \/ Looks(m)
             \/ ReclaimFails(m) \/ SweepFails(m)
      PROVE  /\ UNCHANGED <<deleted, stored, purges, late>>
             /\ tried'["purge"] = tried["purge"]
  <2>1. /\ UNCHANGED <<deleted, stored, purges, late>>
        /\ \/ UNCHANGED tried
           \/ tried' = [tried EXCEPT !["reclaim"][m] = 0]
           \/ tried' = [tried EXCEPT !["reclaim"][m] = @ + 1]
           \/ tried' = [tried EXCEPT !["sweep"][m] = @ + 1]
    BY <1>4 DEF Remove, Refer, Release, Looks, ReclaimFails, SweepFails, Failed
  <2>2. QED
    BY <1>0, <2>1 DEF Kinds
<1>5. ASSUME \/ CreateUpload \/ \E c \in Callers : Fetched(c)
      PROVE  /\ UNCHANGED <<deleted, stored, purges, late>>
             /\ tried'["purge"] = tried["purge"]
  <2>1. /\ UNCHANGED <<deleted, stored, purges, late>>
        /\ tried' = [tried EXCEPT !["sweep"] =
                        Untried("sweep", {today, created + 1})]
    BY <1>5 DEF CreateUpload, Fetched, Creates
  <2>2. QED
    BY <1>0, <2>1 DEF Kinds
<1>6. ASSUME \/ Age \/ DayBreaks \/ \E k \in Keys : ImportLapses(k)
             \/ UNCHANGED vars
             \/ \E c \in Callers : Looking(c) \/ SetsKey(c) \/ Commits(c)
      PROVE  UNCHANGED <<deleted, stored, purges, late, tried>>
  BY <1>6, LookingFrame DEF Age, DayBreaks, ImportLapses, vars, SetsKey,
     Commits, LeftDeleted
<1>7. CASE \/ \E m \in Files : Put(m)
           \/ \E c \in Callers : Puts(c)
  BY <1>2, <1>7 DEF Put, Puts
<1>8. QED
  BY <1>1, <1>3, <1>4, <1>5, <1>6, <1>7, Steps DEF Aside

-----------------------------------------------------------------------------
(* The invariant.                                                            *)

LEMMA IInit == Init => IInv
<1> SUFFICES ASSUME Init PROVE IInv
  OBVIOUS
<1> USE MediaAssumption, NoKeyAssumption
<1>1. Rows = {} /\ Undeleted = {} /\ Live = {}
  BY DEF Init, Rows, Undeleted, Live
<1>2. Total = elsewhere
  BY <1>1, FS_EmptySet DEF Total, Init
<1>3. /\ call \in [Callers -> [at : Places, file : Nat, key : Keys \cup {NoKey}]]
      /\ \A c \in Callers : call[c] = Idle
  BY DEF Init, Idle, Places, NoFile
<1>4. Calls
  <2>1. ASSUME NEW c \in Callers PROVE Has(c)
    BY <1>3 DEF Has, At, Idle
  <2>2. QED
    BY <1>3, <2>1 DEF Calls
<1>5. Typed
  <2>1. MediaTypes
    BY <1>1 DEF Init, MediaTypes, Files, NoFile
  <2>2. ObjectTypes
    <3>1. overtaken \in BOOLEAN
      BY Zenon DEF Init
    <3>2. QED
      BY <1>1, <3>1 DEF Init, ObjectTypes
  <2>3. JobTypes
    BY <1>1 DEF Init, JobTypes
  <2>4. ImportTypes
    BY DEF Init, ImportTypes, Unclaimed
  <2>5. QED
    BY <2>1, <2>2, <2>3, <2>4 DEF Typed
<1>6. OneReserves
  BY <1>3 DEF OneReserves, At, Idle
<1>7. Imports
  BY <1>3 DEF Imports, Importing, Idle
<1>8. Keyed
  BY <1>1 DEF Keyed, Init
<1>9. StorageIsCounted
  BY <1>2 DEF StorageIsCounted, Init
<1>10. LiveHasObject /\ AbandonedHasSweep /\ DeletedHasJob
  BY <1>1 DEF Init, LiveHasObject, AbandonedHasSweep, DeletedHasJob
<1>11. TriedTypes /\ Attempts
  <2>1. \A kind \in Kinds : \A m \in Files : tried[kind][m] = 0
    BY DEF Init
  <2>2. \A kind \in Kinds : Closed(kind) = {}
    BY <2>1 DEF Closed
  <2>3. QED
    BY <2>1, <2>2 DEF Init, TriedTypes, Attempts
<1>12. QED
  BY <1>4, <1>5, <1>6, <1>7, <1>8, <1>9, <1>10, <1>11, Types DEF IInv

LEMMA IStep == IInv /\ [Next]_vars => IInv'
<1> SUFFICES ASSUME IInv, [Next]_vars PROVE IInv'
  OBVIOUS
<1> USE DEF IInv
<1>1. Calls' /\ Typed' /\ OneReserves' /\ TriedTypes' /\ Attempts'
  BY CallsStep, TypeStep, OneReservesStep, AttemptsStep
<1>2. TypeOK'
  BY <1>1 DEF Typed, TypeOK, MediaTypes, ObjectTypes, JobTypes, ImportTypes,
              TriedTypes, OneReserves, Calls, Has, At, Idle, Places, NoFile
<1>3. Imports' /\ Keyed'
  BY ImportsStep, KeyedStep
<1>4. LiveHasObject' /\ StorageIsCounted'
  BY LiveHasObjectStep, CountStep
<1>5. AbandonedHasSweep' /\ DeletedHasJob'
  BY AbandonedStep, DeletedStep
<1>6. QED
  BY <1>1, <1>2, <1>3, <1>4, <1>5

LEMMA Invariance == Spec => []IInv
BY IInit, IStep, PTL DEF Spec

\* Rows, jobs, imports and requests of a payer stay within their domains, and
\* one request at a time holds the lock of the payer's row.
THEOREM MediaTypeCorrect == Spec => []TypeOK
<1>1. IInv => TypeOK
  BY DEF IInv
<1>2. QED
  BY <1>1, Invariance, PTL

\* What can be used is counted and within the plan.
THEOREM StorageStaysCounted == Spec => []StorageIsCounted
<1>1. IInv => StorageIsCounted
  BY DEF IInv
<1>2. QED
  BY <1>1, Invariance, PTL

\* What can be used is stored.
THEOREM LiveFilesHaveObjects == Spec => []LiveHasObject
<1>1. IInv => LiveHasObject
  BY DEF IInv
<1>2. QED
  BY <1>1, Invariance, PTL

\* Two files that can be used and come of one import would both have its key.
THEOREM ImportsAreSingle == Spec => []ImportIsSingle
<1>1. IInv => ImportIsSingle
  BY NoKeyAssumption DEF IInv, Keyed, ImportIsSingle, Live
<1>2. QED
  BY <1>1, Invariance, PTL

\* Nothing is left in R2 that no job will remove, but what a job has failed to
\* remove maxAttempts times.
THEOREM NothingIsLeaked == Spec => []NothingLeaks
<1>1. IInv => ClosedHasFailed
  BY DEF IInv, Attempts, ClosedHasFailed, Closed
<1>2. IInv => NothingLeaks
  BY <1>1 DEF IInv, NothingLeaks
<1>3. QED
  BY <1>2, Invariance, PTL

\* With fewer failures than attempts nothing is left in R2 without a job.
THEOREM NothingIsLeftBehind == Spec => [](faults < MaxAttempts => NothingIsLeft)
<1>1. IInv /\ faults < MaxAttempts => NothingIsLeft
  <2>1. ASSUME IInv, faults < MaxAttempts PROVE Closed("purge") = {}
    BY <2>1, MediaAssumption DEF IInv, TypeOK, Attempts, Closed, Kinds
  <2>2. QED
    BY <2>1 DEF IInv, DeletedHasJob, NothingIsLeft
<1>2. QED
  BY <1>1, Invariance, PTL
=============================================================================
