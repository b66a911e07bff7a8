--------------------------- MODULE DurableJobProofs ---------------------------
(***************************************************************************)
(* The safety of the durable job object for every set of intents and       *)
(* transactions, every number of deliveries and restarts, and every limit. *)
(***************************************************************************)
EXTENDS DurableJob, SequenceTheorems, TLAPS

(***************************************************************************)
(* The inductive invariant.  Its heart is Witnesses: at every moment at    *)
(* least one of three things keeps an applied intent from being applied    *)
(* again: the replay marker, its place in the clean-up list before the row *)
(* goes, or the absence of the row.                                        *)
(***************************************************************************)

\* No intent is stored twice.
NoDuplicates ==
  \A a, b \in DOMAIN intents : intents[a] = intents[b] => a = b

\* Rows, markers, clean-up entries and applications agree with each other and
\* with the transactions.
Witnesses ==
  /\ \A i \in Intents : stage[i] = "unsent" =>
       i \notin Elements(intents) /\ i \notin witness
  /\ \A i \in witness : stage[i] \in {"sent", "acked"}
  /\ \A i \in Intents : tx[TxOf(i)] = "committed" => stage[i] # "sent"
  /\ \A i \in witness : tx[TxOf(i)] # "aborted"
  /\ \A i \in Intents : applied[i] \in {0, 1}
  /\ \A i \in cleanup : applied[i] = 1
  /\ \A i \in Intents : applied[i] = 1 =>
       tx[TxOf(i)] = "committed" /\ stage[i] = "acked"
  /\ \A i \in Intents : applied[i] = 1 /\ i \in witness =>
       i \in marker /\ i \in cleanup /\ i \notin Elements(intents)
  /\ \A i \in marker :
       /\ tx[TxOf(i)] = "committed"
       /\ applied[i] = 0 => i \in witness /\ i \in Elements(intents)
       /\ applied[i] = 1 => i \in cleanup

\* What the suspended handler knows is still true.
HandlerKnows ==
  /\ pc \in {"validate", "settle"} =>
       intents # << >> /\ Head(intents) = subject /\ subject \in Intents
  /\ pc = "settle" /\ verdict = "committed" =>
       subject \in witness /\ tx[TxOf(subject)] = "committed"
  /\ pc = "settle" => verdict \in {"committed", "aborted"}
  /\ pc = "settle" /\ verdict = "aborted" => subject \notin witness
  /\ pc \in {"remove", "forget"} => subject \in cleanup
  /\ pc = "forget" => subject \notin witness

\* The alarm is set while the handler runs, and whenever there is work.
Alarmed ==
  /\ pc # "idle" => alarm = "set"
  /\ NeverStranded
  /\ AcknowledgedIsStored

\* The attempts stored with the job count its executions.
Attempts ==
  /\ active = NoJob => runs = 0
  /\ active # NoJob => runs = active.attempts /\ active.attempts <= MaxAttempts
  /\ active # NoJob /\ active.status \in {"failing", "failed"} =>
       active.attempts = MaxAttempts
  /\ active # NoJob /\ active.status = "failed" => reported
  /\ pc \in {"execute", "report", "close"} => active # NoJob
  /\ pc = "execute" => active.status = "pending"
  /\ pc \in {"report", "close"} => active.status = "failing"
  /\ pc = "close" => reported

IInv ==
  /\ TypeOK
  /\ NoDuplicates
  /\ Witnesses
  /\ HandlerKnows
  /\ Alarmed
  /\ Attempts

-----------------------------------------------------------------------------
(* Facts about sequences and about the transaction of an intent.           *)

\* A sequence with an element is not empty.
LEMMA ElementsOfNonempty ==
  ASSUME NEW S, NEW s \in Seq(S), Elements(s) # {}
  PROVE  s # << >>
  BY DEF Elements

\* Appending adds one element, and keeps the head of a nonempty sequence.
LEMMA AppendElements ==
  ASSUME NEW S, NEW s \in Seq(S), NEW x \in S
  PROVE  /\ Append(s, x) \in Seq(S)
         /\ Append(s, x) # << >>
         /\ Elements(Append(s, x)) = Elements(s) \cup {x}
         /\ s # << >> => Head(Append(s, x)) = Head(s)
<1>1. /\ Append(s, x) \in Seq(S) /\ Append(s, x) # << >>
      /\ DOMAIN Append(s, x) = 1..(Len(s) + 1)
      /\ \A k \in 1..Len(s) : Append(s, x)[k] = s[k]
      /\ Append(s, x)[Len(s) + 1] = x
      /\ DOMAIN s = 1..Len(s) /\ Len(s) \in Nat
  BY AppendProperties, LenProperties
<1>2. Elements(Append(s, x)) \subseteq Elements(s) \cup {x}
  <2>1. \A k \in 1..(Len(s) + 1) : k \in 1..Len(s) \/ k = Len(s) + 1
    BY <1>1
  <2>2. QED
    BY <1>1, <2>1 DEF Elements
<1>3. Elements(s) \cup {x} \subseteq Elements(Append(s, x))
  BY <1>1 DEF Elements
<1>4. QED
  BY <1>1, <1>2, <1>3, HeadTailAppend

\* A nonempty sequence is its head and its tail.
LEMMA TailElements ==
  ASSUME NEW S, NEW s \in Seq(S), s # << >>
  PROVE  /\ Tail(s) \in Seq(S)
         /\ Head(s) \in S
         /\ Head(s) \in Elements(s)
         /\ Elements(s) = {Head(s)} \cup Elements(Tail(s))
<1>1. /\ Tail(s) \in Seq(S) /\ Head(s) \in S /\ Head(s) = s[1]
      /\ DOMAIN Tail(s) = 1..(Len(s) - 1)
      /\ \A k \in 1..(Len(s) - 1) : Tail(s)[k] = s[k + 1]
      /\ DOMAIN s = 1..Len(s) /\ Len(s) \in Nat /\ Len(s) # 0
  BY HeadTailProperties, LenProperties, EmptySeq
<1>2. Elements(Tail(s)) \subseteq Elements(s) /\ Head(s) \in Elements(s)
  BY <1>1 DEF Elements
<1>3. Elements(s) \subseteq {Head(s)} \cup Elements(Tail(s))
  <2> SUFFICES ASSUME NEW k \in 1..Len(s), k # 1
               PROVE  s[k] \in Elements(Tail(s))
    BY <1>1 DEF Elements
  <2>1. k - 1 \in 1..(Len(s) - 1) /\ s[k] = Tail(s)[k - 1]
    BY <1>1
  <2>2. QED
    BY <1>1, <2>1 DEF Elements
<1>4. QED
  BY <1>1, <1>2, <1>3

\* Dropping the head of a sequence without duplicates drops the element.
LEMMA TailDropsHead ==
  ASSUME NEW S, NEW s \in Seq(S), s # << >>,
         \A a, b \in DOMAIN s : s[a] = s[b] => a = b
  PROVE  /\ Head(s) \notin Elements(Tail(s))
         /\ \A a, b \in DOMAIN Tail(s) : Tail(s)[a] = Tail(s)[b] => a = b
  BY DEF Elements

\* Appending a new element keeps a sequence free of duplicates.
LEMMA AppendKeepsDistinct ==
  ASSUME NEW S, NEW s \in Seq(S), NEW x \in S, x \notin Elements(s),
         \A a, b \in DOMAIN s : s[a] = s[b] => a = b
  PROVE  \A a, b \in DOMAIN Append(s, x) :
           Append(s, x)[a] = Append(s, x)[b] => a = b
  BY DEF Elements

\* An intent belongs to exactly one transaction.
LEMMA TxOfIntent ==
  ASSUME NEW i \in Intents
  PROVE  /\ TxOf(i) \in Txs
         /\ i \in IntentsOf(TxOf(i))
         /\ \A t \in Txs : i \in IntentsOf(t) => t = TxOf(i)
<1>1. PICK t \in Txs : \E k \in DOMAIN Program[t] :
        /\ i = Program[t][k]
        /\ \A u \in Txs : \A j \in DOMAIN Program[u] :
             i = Program[u][j] => u = t /\ j = k
  BY IntentsAssumption
<1>2. i \in IntentsOf(t) /\ \A u \in Txs : i \in IntentsOf(u) => u = t
  BY <1>1 DEF IntentsOf, Elements
<1>3. QED
  BY <1>2 DEF TxOf

\* The intents of a transaction are those of its calls.
LEMMA IntentsOfTx ==
  ASSUME NEW t \in Txs
  PROVE  /\ IntentsOf(t) \subseteq Intents
         /\ \A k \in DOMAIN Program[t] : Program[t][k] \in IntentsOf(t)
  BY IntentsAssumption DEF IntentsOf, Elements

-----------------------------------------------------------------------------
(* The invariant holds initially and is preserved.                         *)

\* Nothing has happened in the initial states.
LEMMA InitIInv == Init => IInv
<1> SUFFICES ASSUME Init PROVE IInv
  OBVIOUS
<1>1. TypeOK
  BY EmptySeq DEF Init, TypeOK, Stages, Places
<1>2. NoDuplicates /\ HandlerKnows /\ Attempts
  BY BoundsAssumption DEF Init, NoDuplicates, HandlerKnows, Attempts
<1>3. Witnesses
  BY TxOfIntent DEF Init, Witnesses, Elements
<1>4. Alarmed
  BY DEF Init, Alarmed, NeverStranded, AcknowledgedIsStored
<1>5. QED
  BY <1>1, <1>2, <1>3, <1>4 DEF IInv

-----------------------------------------------------------------------------
(* Facts about the building blocks of the steps.                           *)

\* Updates of a job are jobs.
LEMMA UpdatedJob ==
  ASSUME NEW a \in Jobs, NEW s \in Statuses, NEW n \in Nat
  PROVE  /\ Update(a, s, n) \in Jobs
         /\ Update(a, s, n) # NoJob
         /\ Update(a, s, n).status = s
         /\ Update(a, s, n).attempts = n
<1>1. Update(a, s, n) \in Jobs
  BY DEF Jobs, Update
<1>2. Update(a, s, n).status = s /\ Update(a, s, n).attempts = n
  BY DEF Jobs, Update
<1>3. QED
  BY <1>1, <1>2, NoJobAssumption

\* What the steps of the handler make of the active job is a job.
LEMMA JobUpdates ==
  ASSUME NEW a \in Jobs
  PROVE  /\ a # NoJob
         /\ a.status \in Statuses /\ a.attempts \in Nat
         /\ [a EXCEPT !.due = TRUE] \in Jobs
         /\ [a EXCEPT !.due = TRUE].status = a.status
         /\ [a EXCEPT !.due = TRUE].attempts = a.attempts
         /\ [a EXCEPT !.attempts = a.attempts + 1, !.due = FALSE] \in Jobs
         /\ [a EXCEPT !.attempts = a.attempts + 1, !.due = FALSE].status = a.status
         /\ [a EXCEPT !.attempts = a.attempts + 1, !.due = FALSE].attempts
              = a.attempts + 1
<1> USE DEF Jobs
<1>1. a # NoJob
  BY NoJobAssumption
<1>2. a.status \in Statuses /\ a.attempts \in Nat
  OBVIOUS
<1>3. /\ [a EXCEPT !.due = TRUE] \in Jobs
      /\ [a EXCEPT !.due = TRUE].status = a.status
      /\ [a EXCEPT !.due = TRUE].attempts = a.attempts
  OBVIOUS
<1>4. [a EXCEPT !.attempts = a.attempts + 1, !.due = FALSE] \in Jobs
  <2>1. \A n \in Nat : [a EXCEPT !.attempts = n, !.due = FALSE] \in Jobs
    OBVIOUS
  <2>2. a.attempts + 1 \in Nat
    BY <1>2
  <2>3. QED
    BY <2>1, <2>2
<1>5. [a EXCEPT !.attempts = a.attempts + 1, !.due = FALSE].status = a.status
  OBVIOUS
<1>6. [a EXCEPT !.attempts = a.attempts + 1, !.due = FALSE].attempts
        = a.attempts + 1
  OBVIOUS
<1>7. QED
  BY <1>1, <1>2, <1>3, <1>4, <1>5, <1>6

\* An intent puts a fresh pending job, or none, in the place of the active one.
LEMMA AppliesIsJob ==
  ASSUME NEW i \in Intents
  PROVE  /\ Applies(i) \in Jobs \cup {NoJob}
         /\ Applies(i) # NoJob =>
              Applies(i).attempts = 0 /\ Applies(i).status = "pending"
  BY DEF Applies, Jobs, Statuses

\* What save() leaves behind when it is called with the alarm set.
LEMMA SaveEffect ==
  ASSUME NEW is, NEW cs, NEW act, Save(is, cs, act), alarm = "set",
         crashes \in Nat
  PROVE  /\ intents' = is /\ cleanup' = cs /\ active' = act
         /\ alarm' \in {"set", "none"}
         /\ Outstanding(is, cs, act) => alarm' = "set"
         /\ crashes' \in Nat
  BY DEF Save, Restarts, AlarmFor

-----------------------------------------------------------------------------
(* Every step preserves the invariant.                                     *)

\* A step that changes nothing.
LEMMA StutterIInv ==
  ASSUME IInv, UNCHANGED vars
  PROVE  IInv'
<1> USE DEF IInv, TypeOK, vars, vars, dbVars, storeVars, handlerVars, histVars
<1>1. TypeOK'
  BY DEF Stages, Places
<1>2. NoDuplicates'
  BY DEF NoDuplicates
<1>3. Witnesses'
  BY DEF Witnesses
<1>4. HandlerKnows'
  BY DEF HandlerKnows
<1>5. Alarmed'
  BY DEF Alarmed, NeverStranded, AcknowledgedIsStored
<1>6. Attempts'
  BY DEF Attempts
<1>7. QED
  BY <1>1, <1>2, <1>3, <1>4, <1>5, <1>6

\* The row that a call inserts is that of an intent nobody has seen.
LEMMA PrepareIInv ==
  ASSUME IInv, NEW t \in Txs, NEW k \in DOMAIN Program[t], Prepare(t, k)
  PROVE  IInv'
<1> USE DEF IInv, TypeOK, Prepare,
            vars, dbVars, storeVars, handlerVars, histVars
<1> DEFINE i == Program[t][k]
<1>b. i \in Intents /\ TxOf(i) = t
  BY TxOfIntent, IntentsOfTx
<1>c. /\ stage[i] = "unsent" /\ tx[TxOf(i)] = "open"
      /\ stage' = [stage EXCEPT ![i] = "sent"] /\ witness' = witness \cup {i}
      /\ before' = [before EXCEPT ![i] = {j \in Intents : stage[j] = "acked"}]
      /\ UNCHANGED <<tx, deliveries, storeVars, handlerVars, crashes, applied,
                     late, runs, reported>>
  BY <1>b
<1> HIDE DEF i, Prepare
<1>h. intents # << >> => Head(intents) \in Elements(intents)
  BY TailElements
<1>1. TypeOK'
  BY <1>b, <1>c DEF Stages, Places
<1>2. NoDuplicates'
  BY <1>c DEF NoDuplicates
<1>3. Witnesses'
  BY <1>b, <1>c DEF Witnesses
<1>4. HandlerKnows'
  BY <1>b, <1>c, <1>h DEF HandlerKnows, Witnesses
<1>5. Alarmed'
  BY <1>b, <1>c DEF Alarmed, NeverStranded, AcknowledgedIsStored
<1>6. Attempts'
  BY <1>b, <1>c DEF Attempts
<1>7. QED
  BY <1>1, <1>2, <1>3, <1>4, <1>5, <1>6

\* A roll-back takes a row away before its transaction has ended.
LEMMA RollBackCallIInv ==
  ASSUME IInv, NEW t \in Txs, NEW i \in IntentsOf(t), RollBackCall(t, i)
  PROVE  IInv'
<1> USE DEF IInv, TypeOK, RollBackCall,
            vars, dbVars, storeVars, handlerVars, histVars
<1>b. i \in Intents /\ TxOf(i) = t
  BY TxOfIntent, IntentsOfTx
<1>1. TypeOK'
  BY <1>b DEF Stages, Places
<1>2. NoDuplicates'
  BY DEF NoDuplicates
<1>3. Witnesses'
  BY <1>b DEF Witnesses
<1>4. HandlerKnows'
  BY <1>b DEF HandlerKnows, Witnesses
<1>5. Alarmed'
  BY <1>b DEF Alarmed, NeverStranded, AcknowledgedIsStored
<1>6. Attempts'
  BY <1>b DEF Attempts
<1>7. QED
  BY <1>1, <1>2, <1>3, <1>4, <1>5, <1>6

\* A transaction commits with every call answered.
LEMMA CommitIInv ==
  ASSUME IInv, NEW t \in Txs, Commit(t)
  PROVE  IInv'
<1> USE DEF IInv, TypeOK, Commit, vars, dbVars, storeVars, handlerVars, histVars
<1>a. \A j \in Intents : TxOf(j) \in Txs /\ j \in IntentsOf(TxOf(j))
  BY TxOfIntent
<1>1. TypeOK'
  BY DEF Stages, Places
<1>2. NoDuplicates'
  BY DEF NoDuplicates
<1>3. Witnesses'
  BY <1>a DEF Witnesses
<1>4. HandlerKnows'
  BY <1>a DEF HandlerKnows, Witnesses
<1>5. Alarmed'
  BY DEF Alarmed, NeverStranded, AcknowledgedIsStored
<1>6. Attempts'
  BY DEF Attempts
<1>7. QED
  BY <1>1, <1>2, <1>3, <1>4, <1>5, <1>6

\* An aborted transaction leaves no rows and has applied nothing.
LEMMA AbortIInv ==
  ASSUME IInv, NEW t \in Txs, Abort(t)
  PROVE  IInv'
<1> USE DEF IInv, TypeOK, Abort, vars, dbVars, storeVars, handlerVars, histVars
<1>a. \A j \in Intents : TxOf(j) \in Txs /\ (j \in IntentsOf(t) <=> TxOf(j) = t)
  BY TxOfIntent
<1>1. TypeOK'
  BY DEF Stages, Places
<1>2. NoDuplicates'
  BY DEF NoDuplicates
<1>3. Witnesses'
  BY <1>a DEF Witnesses
<1>4. HandlerKnows'
  BY <1>a DEF HandlerKnows, Witnesses
<1>5. Alarmed'
  BY DEF Alarmed, NeverStranded, AcknowledgedIsStored
<1>6. Attempts'
  BY DEF Attempts
<1>7. QED
  BY <1>1, <1>2, <1>3, <1>4, <1>5, <1>6

\* The handler works on what the storage says.
LEMMA AlarmFiresIInv ==
  ASSUME IInv, AlarmFires
  PROVE  IInv'
<1> USE DEF IInv, TypeOK, AlarmFires, Rearmed, JobTurn,
            vars, dbVars, storeVars, handlerVars, histVars
<1>t. intents # << >> => Head(intents) \in Intents
  BY TailElements
<1>1. TypeOK'
  BY <1>t DEF Stages, Places
<1>2. NoDuplicates'
  BY DEF NoDuplicates
<1>3. Witnesses'
  BY DEF Witnesses
<1>4. HandlerKnows'
  BY <1>t DEF HandlerKnows
<1>5. Alarmed'
  BY DEF Alarmed, NeverStranded, AcknowledgedIsStored
<1>6. Attempts'
  BY DEF Attempts
<1>7. QED
  BY <1>1, <1>2, <1>3, <1>4, <1>5, <1>6

\* The verdict on the head is the database's.
LEMMA ValidateIInv ==
  ASSUME IInv, Validate
  PROVE  IInv'
<1> USE DEF IInv, TypeOK, Validate, Idle, Receipt,
            vars, dbVars, storeVars, handlerVars, histVars
<1>a. pc = "validate" => TxOf(subject) \in Txs
  BY TxOfIntent DEF HandlerKnows
<1>1. TypeOK'
  BY <1>a DEF Stages, Places, HandlerKnows
<1>2. NoDuplicates'
  BY DEF NoDuplicates
<1>3. Witnesses'
  BY DEF Witnesses
<1>4. HandlerKnows'
  BY <1>a DEF HandlerKnows, Witnesses
<1>5. Alarmed'
  BY DEF Alarmed, NeverStranded, AcknowledgedIsStored
<1>6. Attempts'
  BY DEF Attempts
<1>7. QED
  BY <1>1, <1>2, <1>3, <1>4, <1>5, <1>6

\* The one step that applies an intent.
LEMMA SettleCommittedIInv ==
  ASSUME IInv, SettleCommitted
  PROVE  IInv'
<1> USE DEF IInv, TypeOK, SettleCommitted, Idle,
            vars, dbVars, storeVars, handlerVars, histVars
<1>a. /\ intents # << >> /\ subject = Head(intents) /\ subject \in Intents
      /\ subject \in Elements(intents) /\ Tail(intents) \in Seq(Intents)
      /\ Elements(intents) = {subject} \cup Elements(Tail(intents))
      /\ subject \in witness /\ tx[TxOf(subject)] = "committed"
      /\ stage[subject] = "acked" /\ applied[subject] = 0
      /\ marker' = marker \cup {subject} /\ alarm = "set"
  BY TailElements DEF HandlerKnows, Witnesses, OnlyMarker, Alarmed
<1>b. CASE /\ Save(Tail(intents), cleanup \cup {subject}, Applies(subject))
           /\ applied' = [applied EXCEPT ![subject] = @ + 1]
           /\ runs' = 0
           /\ reported' = FALSE
  <2>s. /\ intents' = Tail(intents) /\ cleanup' = cleanup \cup {subject}
        /\ active' = Applies(subject) /\ alarm' \in {"set", "none"}
        /\ crashes' \in Nat /\ cleanup' # {}
        /\ Outstanding(intents', cleanup', active') => alarm' = "set"
    <3>1. crashes \in Nat /\ cleanup \cup {subject} # {}
      OBVIOUS
    <3>2. QED
      BY <1>a, <1>b, <3>1, SaveEffect
  <2>a. alarm' = "set"
    BY <2>s DEF Outstanding
  <2>d. /\ subject \notin Elements(Tail(intents))
        /\ \A x, y \in DOMAIN Tail(intents) :
             Tail(intents)[x] = Tail(intents)[y] => x = y
    BY <1>a, TailDropsHead DEF NoDuplicates
  <2>1. TypeOK'
    <3>1. active' \in Jobs \cup {NoJob}
      BY <1>a, <2>s, AppliesIsJob
    <3>2. applied' \in [Intents -> Nat] /\ runs' \in Nat
      BY <1>a, <1>b
    <3>3. intents' \in Seq(Intents) /\ cleanup' \subseteq Intents
          /\ marker' \subseteq Intents
      BY <1>a, <2>s
    <3>4. QED
      BY <1>b, <2>s, <3>1, <3>2, <3>3 DEF Places
  <2>2. NoDuplicates'
    BY <2>s, <2>d DEF NoDuplicates
  <2>3. Witnesses'
    BY <1>a, <1>b, <2>s, <2>d DEF Witnesses
  <2>4. HandlerKnows'
    BY DEF HandlerKnows
  <2>5. Alarmed'
    BY <1>a, <1>b, <2>s, <2>a DEF Alarmed, NeverStranded, AcknowledgedIsStored
  <2>6. Attempts'
    BY <1>a, <1>b, <2>s, AppliesIsJob, BoundsAssumption DEF Attempts
  <2>7. QED
    BY <2>1, <2>2, <2>3, <2>4, <2>5, <2>6
<1>c. CASE OnlyMarker(marker \cup {subject}) /\ UNCHANGED <<applied, runs, reported>>
  <2> USE <1>a, <1>c DEF OnlyMarker, Restarts
  <2>1. TypeOK'
    BY DEF Places
  <2>2. NoDuplicates'
    BY DEF NoDuplicates
  <2>3. Witnesses'
    BY DEF Witnesses
  <2>4. HandlerKnows'
    BY DEF HandlerKnows
  <2>5. Alarmed'
    BY DEF Alarmed, NeverStranded, AcknowledgedIsStored
  <2>6. Attempts'
    BY DEF Attempts
  <2>7. QED
    BY <2>1, <2>2, <2>3, <2>4, <2>5, <2>6
<1>8. IInv'
  BY <1>b, <1>c
<1>9. QED
  BY <1>8

\* A dropped intent has no row, so nothing is lost with it.
LEMMA SettleAbortedIInv ==
  ASSUME IInv, SettleAborted
  PROVE  IInv'
<1> USE DEF IInv, TypeOK, SettleAborted, Idle,
            vars, dbVars, storeVars, handlerVars, histVars
<1>a. /\ intents # << >> /\ subject = Head(intents) /\ subject \in Intents
      /\ Tail(intents) \in Seq(Intents) /\ subject \notin witness
      /\ Elements(intents) = {subject} \cup Elements(Tail(intents))
      /\ subject \notin Elements(Tail(intents))
      /\ \A x, y \in DOMAIN Tail(intents) :
           Tail(intents)[x] = Tail(intents)[y] => x = y
  BY TailElements, TailDropsHead DEF HandlerKnows, NoDuplicates
<1>s. /\ intents' = Tail(intents) /\ cleanup' = cleanup /\ active' = active
      /\ alarm' \in {"set", "none"} /\ crashes' \in Nat
      /\ Outstanding(Tail(intents), cleanup, active) => alarm' = "set"
  BY SaveEffect DEF Alarmed
<1>1. TypeOK'
  BY <1>a, <1>s DEF Stages, Places
<1>2. NoDuplicates'
  BY <1>a, <1>s DEF NoDuplicates
<1>3. Witnesses'
  BY <1>a, <1>s DEF Witnesses
<1>4. HandlerKnows'
  BY DEF HandlerKnows
<1>5. Alarmed'
  <2>1. NeverStranded'
    BY <1>a, <1>s DEF Alarmed, NeverStranded, Outstanding
  <2>2. AcknowledgedIsStored'
    BY <1>a, <1>s, ElementsOfNonempty DEF Alarmed, AcknowledgedIsStored, Outstanding
  <2>3. QED
    BY <2>1, <2>2 DEF Alarmed
<1>6. Attempts'
  BY <1>a, <1>s DEF Attempts, Outstanding
<1>7. QED
  BY <1>1, <1>2, <1>3, <1>4, <1>5, <1>6

\* A row that goes has been applied and is in the clean-up list.
LEMMA RemoveReceiptIInv ==
  ASSUME IInv, RemoveReceipt
  PROVE  IInv'
<1> USE DEF IInv, TypeOK, RemoveReceipt,
            vars, dbVars, storeVars, handlerVars, histVars
<1>a. subject \in cleanup /\ applied[subject] = 1
  BY DEF HandlerKnows, Witnesses
<1>1. TypeOK'
  BY <1>a DEF Stages, Places
<1>2. NoDuplicates'
  BY DEF NoDuplicates
<1>3. Witnesses'
  BY <1>a DEF Witnesses
<1>4. HandlerKnows'
  BY <1>a DEF HandlerKnows
<1>5. Alarmed'
  BY <1>a DEF Alarmed, NeverStranded, AcknowledgedIsStored
<1>6. Attempts'
  BY <1>a DEF Attempts
<1>7. QED
  BY <1>1, <1>2, <1>3, <1>4, <1>5, <1>6

\* The marker is no longer needed: the row is gone.
LEMMA ForgetReceiptIInv ==
  ASSUME IInv, ForgetReceipt
  PROVE  IInv'
<1> USE DEF IInv, TypeOK, ForgetReceipt, Idle,
            vars, dbVars, storeVars, handlerVars, histVars
<1>a. /\ subject \in cleanup /\ applied[subject] = 1 /\ subject \notin witness
      /\ alarm = "set" /\ marker' = marker \ {subject}
  BY DEF HandlerKnows, Witnesses, Alarmed, OnlyMarker
<1>s. /\ intents' = intents /\ cleanup' \in {cleanup, cleanup \ {subject}}
      /\ active' = active /\ alarm' \in {"set", "none"} /\ crashes' \in Nat
      /\ Outstanding(intents', cleanup', active') => alarm' = "set"
  BY <1>a, SaveEffect DEF OnlyMarker, Restarts
<1>1. TypeOK'
  BY <1>a, <1>s DEF Stages, Places
<1>2. NoDuplicates'
  BY <1>s DEF NoDuplicates
<1>3. Witnesses'
  BY <1>a, <1>s DEF Witnesses
<1>4. HandlerKnows'
  BY DEF HandlerKnows
<1>5. Alarmed'
  <2>1. NeverStranded'
    BY <1>a, <1>s DEF Alarmed, NeverStranded, Outstanding
  <2>2. AcknowledgedIsStored'
    BY <1>a, <1>s, ElementsOfNonempty DEF Alarmed, AcknowledgedIsStored, Outstanding
  <2>3. QED
    BY <2>1, <2>2 DEF Alarmed
<1>6. Attempts'
  BY <1>a, <1>s DEF Attempts, Outstanding
<1>7. QED
  BY <1>1, <1>2, <1>3, <1>4, <1>5, <1>6

\* Nothing is lost when there is nothing to run.
LEMMA NothingToRunIInv ==
  ASSUME IInv, NothingToRun
  PROVE  IInv'
<1> USE DEF IInv, TypeOK, NothingToRun, Idle,
            vars, dbVars, storeVars, handlerVars, histVars
<1>s. /\ intents' = intents /\ cleanup' = cleanup /\ active' = active
      /\ alarm' \in {"set", "none"} /\ crashes' \in Nat
      /\ Outstanding(intents, cleanup, active) => alarm' = "set"
  BY SaveEffect DEF Alarmed
<1>1. TypeOK'
  BY <1>s DEF Stages, Places
<1>2. NoDuplicates'
  BY <1>s DEF NoDuplicates
<1>3. Witnesses'
  BY <1>s DEF Witnesses
<1>4. HandlerKnows'
  BY DEF HandlerKnows
<1>5. Alarmed'
  <2>1. NeverStranded'
    BY <1>s DEF Alarmed, NeverStranded, Outstanding
  <2>2. AcknowledgedIsStored'
    BY <1>s, ElementsOfNonempty DEF Alarmed, AcknowledgedIsStored, Outstanding
  <2>3. QED
    BY <2>1, <2>2 DEF Alarmed
<1>6. Attempts'
  BY <1>s DEF Attempts, Outstanding
<1>7. QED
  BY <1>1, <1>2, <1>3, <1>4, <1>5, <1>6

\* Only a job without attempts left is given up.
LEMMA ClaimExhaustedIInv ==
  ASSUME IInv, ClaimExhausted
  PROVE  IInv'
<1> USE DEF IInv, TypeOK, ClaimExhausted, Runnable, Exhausted, GivingUp,
            vars, dbVars, storeVars, handlerVars, histVars
<1>j. /\ active \in Jobs /\ active' \in Jobs /\ active' # NoJob
      /\ active'.attempts = active.attempts /\ active'.status = "failing"
  <2>1. active \in Jobs
    OBVIOUS
  <2>2. active.attempts \in Nat
    BY <2>1, JobUpdates
  <2>3. active' = Update(active, "failing", active.attempts)
    OBVIOUS
  <2>4. QED
    <3> HIDE DEF IInv, TypeOK, ClaimExhausted, GivingUp
    <3>1. "failing" \in Statuses
      BY DEF Statuses
    <3>2. QED
      BY <2>1, <2>2, <2>3, <3>1, UpdatedJob
<1>1. TypeOK'
  BY <1>j DEF Stages, Places
<1>2. NoDuplicates'
  BY DEF NoDuplicates
<1>3. Witnesses'
  BY DEF Witnesses
<1>4. HandlerKnows'
  BY DEF HandlerKnows
<1>5. Alarmed'
  BY JobUpdates DEF Alarmed, NeverStranded, AcknowledgedIsStored, Statuses
<1>6. Attempts'
  <2>1. active.attempts = MaxAttempts
    <3>1. active.attempts >= MaxAttempts /\ active.attempts <= MaxAttempts
      BY <1>j DEF Attempts
    <3>2. active.attempts \in Nat /\ MaxAttempts \in Nat
      BY <1>j, JobUpdates, BoundsAssumption
    <3> HIDE DEF IInv, TypeOK, ClaimExhausted
    <3>3. QED
      BY <3>1, <3>2
  <2>2. QED
    BY <1>j, <2>1 DEF Attempts
<1>7. QED
  BY <1>1, <1>2, <1>3, <1>4, <1>5, <1>6

\* The attempt is counted with the execution.
LEMMA ClaimRunIInv ==
  ASSUME IInv, ClaimRun
  PROVE  IInv'
<1> USE DEF IInv, TypeOK, ClaimRun, Runnable, Exhausted,
            vars, dbVars, storeVars, handlerVars, histVars
<1>j. /\ active \in Jobs /\ active' \in Jobs /\ active' # NoJob
      /\ active.attempts \in Nat /\ active'.attempts = active.attempts + 1
      /\ active'.status = active.status
  BY JobUpdates
<1>1. TypeOK'
  BY <1>j DEF Stages, Places
<1>2. NoDuplicates'
  BY DEF NoDuplicates
<1>3. Witnesses'
  BY DEF Witnesses
<1>4. HandlerKnows'
  BY DEF HandlerKnows
<1>5. Alarmed'
  BY JobUpdates DEF Alarmed, NeverStranded, AcknowledgedIsStored
<1>6. Attempts'
  BY <1>j, BoundsAssumption DEF Attempts
<1>7. QED
  BY <1>1, <1>2, <1>3, <1>4, <1>5, <1>6

\* The failure is recorded.
LEMMA ReportFailureIInv ==
  ASSUME IInv, ReportFailure
  PROVE  IInv'
<1> USE DEF IInv, TypeOK, ReportFailure,
            vars, dbVars, storeVars, handlerVars, histVars
<1>1. TypeOK'
  BY DEF Stages, Places
<1>2. NoDuplicates'
  BY DEF NoDuplicates
<1>3. Witnesses'
  BY DEF Witnesses
<1>4. HandlerKnows'
  BY DEF HandlerKnows
<1>5. Alarmed'
  BY DEF Alarmed, NeverStranded, AcknowledgedIsStored
<1>6. Attempts'
  BY DEF Attempts
<1>7. QED
  BY <1>1, <1>2, <1>3, <1>4, <1>5, <1>6

\* Only a recorded failure is closed.
LEMMA CloseFailedIInv ==
  ASSUME IInv, CloseFailed
  PROVE  IInv'
<1> USE DEF IInv, TypeOK, CloseFailed, Idle,
            vars, dbVars, storeVars, handlerVars, histVars
<1>a. /\ active \in Jobs /\ active # NoJob /\ active.attempts = MaxAttempts
      /\ runs = MaxAttempts /\ reported
      /\ Update(active, "failed", active.attempts) \in Jobs
      /\ Update(active, "failed", active.attempts) # NoJob
      /\ Update(active, "failed", active.attempts).status = "failed"
      /\ Update(active, "failed", active.attempts).attempts = MaxAttempts
  <2>1. /\ active \in Jobs /\ active # NoJob /\ active.attempts = MaxAttempts
        /\ active.attempts \in Nat /\ runs = MaxAttempts /\ reported
    BY JobUpdates DEF Attempts
  <2>2. "failed" \in Statuses
    BY DEF Statuses
  <2> HIDE DEF CloseFailed, IInv, TypeOK
  <2>3. QED
    BY <2>1, <2>2, UpdatedJob
<1>s. /\ intents' = intents /\ cleanup' = cleanup
      /\ active' = Update(active, "failed", active.attempts)
      /\ alarm' \in {"set", "none"} /\ crashes' \in Nat
      /\ Outstanding(intents', cleanup', active') => alarm' = "set"
  BY SaveEffect DEF Alarmed
<1>1. TypeOK'
  BY <1>a, <1>s DEF Places
<1>2. NoDuplicates'
  BY <1>s DEF NoDuplicates
<1>3. Witnesses'
  BY <1>s DEF Witnesses
<1>4. HandlerKnows'
  BY DEF HandlerKnows
<1>5. Alarmed'
  <2>1. NeverStranded'
    BY <1>s DEF NeverStranded, Outstanding
  <2>2. AcknowledgedIsStored'
    BY <1>s, ElementsOfNonempty DEF Alarmed, AcknowledgedIsStored, Outstanding
  <2>3. QED
    BY <2>1, <2>2 DEF Alarmed
<1>6. Attempts'
  BY <1>a, <1>s DEF Attempts
<1>7. QED
  BY <1>1, <1>2, <1>3, <1>4, <1>5, <1>6

\* An execution's end leaves the intents alone.
LEMMA ExecutionEndsIInv ==
  ASSUME IInv, NEW r \in {"finished", "continues", "fails"}, ExecutionEnds(r)
  PROVE  IInv'
<1> USE DEF IInv, TypeOK, ExecutionEnds, Idle, Exhausted,
            vars, dbVars, storeVars, handlerVars, histVars
<1> DEFINE ended == CASE r = "finished"  -> Update(active, "completed", 0)
                    [] r = "continues" -> Update(active, "pending", 0)
                    [] r = "fails"     ->
                         Update(active, IF Exhausted THEN "failing" ELSE "pending",
                                active.attempts)
<1>a. /\ active \in Jobs /\ active # NoJob
      /\ ended \in Jobs /\ ended # NoJob
      /\ ended.status \in {"completed", "pending", "failing"}
      /\ ended.attempts = runs' /\ ended.attempts <= MaxAttempts
      /\ ended.status = "failing" => ended.attempts = MaxAttempts
      /\ runs' \in Nat
  <2>1. /\ active \in Jobs /\ active # NoJob /\ runs = active.attempts
        /\ active.attempts \in Nat /\ active.attempts <= MaxAttempts
    BY JobUpdates DEF Attempts
  <2>f. /\ {"completed", "pending", "failing"} \subseteq Statuses
        /\ \A s \in Statuses, n \in Nat :
             /\ Update(active, s, n) \in Jobs
             /\ Update(active, s, n) # NoJob
             /\ Update(active, s, n).status = s
             /\ Update(active, s, n).attempts = n
    <3>1. \A s \in Statuses, n \in Nat :
             /\ Update(active, s, n) \in Jobs
             /\ Update(active, s, n) # NoJob
             /\ Update(active, s, n).status = s
             /\ Update(active, s, n).attempts = n
      BY <2>1, UpdatedJob
    <3>2. QED
      BY <3>1 DEF Statuses
  <2>2. CASE r = "finished"
    <3>1. ended = Update(active, "completed", 0) /\ runs' = 0
      BY <2>2
    <3> HIDE DEF ended, ExecutionEnds, IInv, TypeOK
    <3>2. QED
      BY <2>1, <2>f, <3>1, BoundsAssumption
  <2>3. CASE r = "continues"
    <3>1. ended = Update(active, "pending", 0) /\ runs' = 0
      BY <2>3
    <3> HIDE DEF ended, ExecutionEnds, IInv, TypeOK
    <3>2. QED
      BY <2>1, <2>f, <3>1, BoundsAssumption
  <2>4. CASE r = "fails"
    <3>1. runs' = active.attempts
      BY <2>1, <2>4
    <3>2. CASE Exhausted
      <4>1. ended = Update(active, "failing", active.attempts)
        BY <2>4, <3>2
      <4>2. active.attempts = MaxAttempts
        BY <2>1, <3>2, BoundsAssumption
      <4> HIDE DEF ended, ExecutionEnds, IInv, TypeOK, Exhausted
      <4>3. QED
        BY <2>1, <2>f, <3>1, <4>1, <4>2
    <3>3. CASE ~Exhausted
      <4>1. ended = Update(active, "pending", active.attempts)
        BY <2>4, <3>3
      <4> HIDE DEF ended, ExecutionEnds, IInv, TypeOK, Exhausted
      <4>2. QED
        BY <2>1, <2>f, <3>1, <4>1
    <3>4. QED
      BY <3>2, <3>3
  <2>5. QED
    BY <2>2, <2>3, <2>4
<1>s. /\ intents' = intents /\ cleanup' = cleanup /\ active' = ended
      /\ alarm' \in {"set", "none"} /\ crashes' \in Nat
      /\ Outstanding(intents', cleanup', active') => alarm' = "set"
  BY SaveEffect DEF Alarmed
<1> HIDE DEF ended
<1>1. TypeOK'
  BY <1>a, <1>s DEF Places
<1>2. NoDuplicates'
  BY <1>s DEF NoDuplicates
<1>3. Witnesses'
  BY <1>s DEF Witnesses
<1>4. HandlerKnows'
  BY DEF HandlerKnows
<1>5. Alarmed'
  <2>1. NeverStranded'
    BY <1>s DEF NeverStranded, Outstanding
  <2>2. AcknowledgedIsStored'
    BY <1>s, ElementsOfNonempty DEF Alarmed, AcknowledgedIsStored, Outstanding
  <2>3. QED
    BY <2>1, <2>2 DEF Alarmed
<1>6. Attempts'
  BY <1>a, <1>s DEF Attempts
<1>7. QED
  BY <1>1, <1>2, <1>3, <1>4, <1>5, <1>6

\* Time alone changes neither status nor attempts.
LEMMA BecomesDueIInv ==
  ASSUME IInv, BecomesDue
  PROVE  IInv'
<1> USE DEF IInv, TypeOK, BecomesDue,
            vars, dbVars, storeVars, handlerVars, histVars
<1>j. active # NoJob => active \in Jobs
  OBVIOUS
<1>1. TypeOK'
  BY JobUpdates DEF Stages, Places
<1>2. NoDuplicates'
  BY DEF NoDuplicates
<1>3. Witnesses'
  BY DEF Witnesses
<1>4. HandlerKnows'
  BY DEF HandlerKnows
<1>5. Alarmed'
  BY JobUpdates DEF Alarmed, NeverStranded, AcknowledgedIsStored
<1>6. Attempts'
  BY JobUpdates DEF Attempts
<1>7. QED
  BY <1>1, <1>2, <1>3, <1>4, <1>5, <1>6

\* A restart loses nothing that is stored.
LEMMA CrashIInv ==
  ASSUME IInv, Crash
  PROVE  IInv'
<1> USE DEF IInv, TypeOK, Crash, Idle, Restarts,
            vars, dbVars, storeVars, handlerVars, histVars
<1>1. TypeOK'
  BY DEF Stages, Places
<1>2. NoDuplicates'
  BY DEF NoDuplicates
<1>3. Witnesses'
  BY DEF Witnesses
<1>4. HandlerKnows'
  BY DEF HandlerKnows
<1>5. Alarmed'
  BY DEF Alarmed, NeverStranded, AcknowledgedIsStored
<1>6. Attempts'
  BY DEF Attempts
<1>7. QED
  BY <1>1, <1>2, <1>3, <1>4, <1>5, <1>6

\* fetch() stores an intent only if no marker and no stored copy speaks
\* against it; an intent that was applied has lost its row by then.
LEMMA FetchIInv ==
  ASSUME IInv, NEW i \in Intents, Fetch(i)
  PROVE  IInv'
<1> USE DEF IInv, TypeOK, vars, dbVars, storeVars, handlerVars, histVars
<1>a. /\ stage[i] # "unsent" /\ intents' = Received(i)
      /\ alarm' = AlarmFor(intents', cleanup, active)
      /\ deliveries' = [deliveries EXCEPT ![i] = @ + 1]
      /\ stage' = IF stage[i] = "sent" THEN [stage EXCEPT ![i] = "acked"]
                                       ELSE stage
      /\ late' \in {late, late \cup {i}}
      /\ UNCHANGED <<tx, witness, cleanup, active, marker, pc, subject, verdict,
                     crashes, applied, before, runs, reported>>
  BY DEF Fetch, Deliver
<1>b. /\ intents' \in Seq(Intents)
      /\ Elements(intents) \subseteq Elements(intents')
      /\ Elements(intents') \subseteq Elements(intents) \cup {i}
      /\ i \in Elements(intents') \/ i \in marker
      /\ intents # << >> => intents' # << >> /\ Head(intents') = Head(intents)
      /\ i \in marker => Elements(intents') = Elements(intents)
  <2>1. CASE IsReplay(i)
    BY <1>a, <2>1 DEF Received, IsReplay
  <2>2. CASE ~IsReplay(i)
    <3>1. intents' = Append(intents, i) /\ i \notin marker
      BY <1>a, <2>2 DEF Received, IsReplay
    <3>2. intents \in Seq(Intents)
      OBVIOUS
    <3> HIDE DEF IInv, TypeOK
    <3>3. QED
      BY <3>1, <3>2, AppendElements
  <2>3. QED
    BY <2>1, <2>2
<1>c. alarm' \in {"set", "none"} /\ (Outstanding(intents', cleanup, active) =>
                                      alarm' = "set")
  BY <1>a DEF AlarmFor
<1>d. i \in marker => cleanup # {} \/ intents # << >>
  BY ElementsOfNonempty DEF Witnesses
<1>e. alarm' = "set"
  BY <1>a, <1>b, <1>c, <1>d, ElementsOfNonempty DEF Outstanding
<1> HIDE DEF Outstanding, AlarmFor
<1>1. TypeOK'
  <2>1. stage' \in [Intents -> Stages]
    BY <1>a DEF Stages
  <2>2. late' \in SUBSET Intents
    BY <1>a
  <2>3. deliveries' \in [Intents -> Nat]
    BY <1>a
  <2>4. QED
    BY <1>a, <1>b, <1>c, <2>1, <2>2, <2>3
<1>2. NoDuplicates'
  <2>1. CASE IsReplay(i)
    BY <1>a, <2>1 DEF NoDuplicates, Received
  <2>2. CASE ~IsReplay(i)
    <3>1. intents' = Append(intents, i) /\ i \notin Elements(intents)
      BY <1>a, <2>2 DEF Received, IsReplay
    <3>2. \A a, b \in DOMAIN Append(intents, i) :
            Append(intents, i)[a] = Append(intents, i)[b] => a = b
      BY <3>1, AppendKeepsDistinct DEF NoDuplicates
    <3>3. QED
      BY <3>1, <3>2 DEF NoDuplicates
  <2>3. QED
    BY <2>1, <2>2
<1>3. Witnesses'
  <2>1. \A j \in Intents :
          stage'[j] = stage[j] \/ (stage[j] = "sent" /\ stage'[j] = "acked")
    BY <1>a
  <2>2. /\ UNCHANGED <<tx, witness, cleanup, marker, applied>>
        /\ stage[i] # "unsent"
    BY <1>a
  <2>3. /\ Elements(intents) \subseteq Elements(intents')
        /\ \A j \in Elements(intents') :
             j \in Elements(intents) \/ (j = i /\ i \notin marker)
    BY <1>b
  <2>4. Witnesses /\ witness \subseteq Intents
    OBVIOUS
  <2> HIDE DEF IInv, TypeOK
  <2>5. QED
    BY <2>1, <2>2, <2>3, <2>4 DEF Witnesses
<1>4. HandlerKnows'
  BY <1>a, <1>b DEF HandlerKnows
<1>5. Alarmed'
  <2>1. NeverStranded'
    BY <1>e DEF NeverStranded
  <2>2. AcknowledgedIsStored'
    BY <1>a, <1>b, <1>e DEF Alarmed, AcknowledgedIsStored, Witnesses
  <2>3. QED
    BY <1>e, <2>1, <2>2 DEF Alarmed
<1>6. Attempts'
  BY <1>a DEF Attempts
<1>7. QED
  BY <1>1, <1>2, <1>3, <1>4, <1>5, <1>6

\* A fetch that is cut off stores the intent but neither sets the alarm nor
\* acknowledges, so it promises nothing.
LEMMA FetchInterruptedIInv ==
  ASSUME IInv, NEW i \in Intents, FetchInterrupted(i)
  PROVE  IInv'
<1> USE DEF IInv, TypeOK, vars, dbVars, storeVars, handlerVars, histVars
<1>a. /\ stage[i] # "unsent" /\ intents' = Received(i)
      /\ deliveries' = [deliveries EXCEPT ![i] = @ + 1]
      /\ pc' = "idle" /\ subject' = NoJob /\ verdict' = "none" /\ late' = {}
      /\ crashes' \in Nat
      /\ UNCHANGED <<tx, stage, witness, cleanup, active, marker, alarm, applied,
                     before, runs, reported>>
  BY DEF FetchInterrupted, Deliver, Idle, Restarts
<1>b. /\ intents' \in Seq(Intents)
      /\ Elements(intents) \subseteq Elements(intents')
      /\ Elements(intents') \subseteq Elements(intents) \cup {i}
      /\ i \in marker => Elements(intents') = Elements(intents)
  BY <1>a, AppendElements DEF Received, IsReplay
<1>1. TypeOK'
  BY <1>a, <1>b DEF Places
<1>2. NoDuplicates'
  <2>1. CASE IsReplay(i)
    BY <1>a, <2>1 DEF NoDuplicates, Received
  <2>2. CASE ~IsReplay(i)
    <3>1. intents' = Append(intents, i) /\ i \notin Elements(intents)
      BY <1>a, <2>2 DEF Received, IsReplay
    <3>2. \A a, b \in DOMAIN Append(intents, i) :
            Append(intents, i)[a] = Append(intents, i)[b] => a = b
      BY <3>1, AppendKeepsDistinct DEF NoDuplicates
    <3>3. QED
      BY <3>1, <3>2 DEF NoDuplicates
  <2>3. QED
    BY <2>1, <2>2
<1>3. Witnesses'
  BY <1>a, <1>b DEF Witnesses
<1>4. HandlerKnows'
  BY <1>a DEF HandlerKnows
<1>5. Alarmed'
  BY <1>a, <1>b DEF Alarmed, NeverStranded, AcknowledgedIsStored
<1>6. Attempts'
  BY <1>a DEF Attempts
<1>7. QED
  BY <1>1, <1>2, <1>3, <1>4, <1>5, <1>6

\* The cases are the actions of Next.
LEMMA NextIInv == IInv /\ [Next]_vars => IInv'
<1> SUFFICES ASSUME IInv, [Next]_vars PROVE IInv'
  OBVIOUS
<1>1. ASSUME NEW t \in Txs, Client(t) PROVE IInv'
  BY <1>1, PrepareIInv, RollBackCallIInv, CommitIInv, AbortIInv DEF Client
<1>2. ASSUME NEW i \in Intents, Fetch(i) \/ FetchInterrupted(i) PROVE IInv'
  BY <1>2, FetchIInv, FetchInterruptedIInv
<1>3. CASE Handler
  BY <1>3, AlarmFiresIInv, ValidateIInv, SettleCommittedIInv, SettleAbortedIInv,
     RemoveReceiptIInv, ForgetReceiptIInv, NothingToRunIInv, ClaimExhaustedIInv,
     ClaimRunIInv, ReportFailureIInv, CloseFailedIInv, ExecutionEndsIInv
     DEF Handler
<1>4. CASE BecomesDue \/ Crash \/ UNCHANGED vars
  BY <1>4, BecomesDueIInv, CrashIInv, StutterIInv
<1>5. QED
  BY <1>1, <1>2, <1>3, <1>4 DEF Next

-----------------------------------------------------------------------------
(* The theorems.                                                           *)

\* Every reachable state satisfies the inductive invariant.
THEOREM Invariance == Spec => []IInv
  BY InitIInv, NextIInv, PTL DEF Spec

\* The storage, the database and the handler keep their shape.
THEOREM TypeCorrect == Spec => []TypeOK
<1>1. IInv => TypeOK
  BY DEF IInv
<1>2. QED
  BY <1>1, Invariance, PTL

\* Only what a transaction committed ever becomes the job of the object
\* (jobs.ts: the receipt "proves the surrounding business transaction
\* committed").
THEOREM CommittedOnly == Spec => []OnlyCommittedApplies
<1>1. IInv => OnlyCommittedApplies
  BY DEF IInv, TypeOK, Witnesses, OnlyCommittedApplies
<1>2. QED
  BY <1>1, Invariance, PTL

\* No number of replays and restarts applies an intent twice (durable-job.ts:
\* "must not enqueue the same intent twice").
THEOREM AtMostOnce == Spec => []AppliedAtMostOnce
<1>1. IInv => AppliedAtMostOnce
  BY DEF IInv, Witnesses, AppliedAtMostOnce
<1>2. QED
  BY <1>1, Invariance, PTL

\* What was acknowledged is stored under a set alarm until it is settled
\* (job-transport.ts: "only after the intent and its alarm are durably
\* stored").
THEOREM AcknowledgementHolds == Spec => []AcknowledgedIsStored
<1>1. IInv => AcknowledgedIsStored
  BY DEF IInv, Alarmed
<1>2. QED
  BY <1>1, Invariance, PTL

\* No work is left in an object that nothing will wake (durable-job.ts: "no
\* global scan or idle recovery timer").
THEOREM WorkHasAnAlarm == Spec => []NeverStranded
<1>1. IInv => NeverStranded
  BY DEF IInv, Alarmed
<1>2. QED
  BY <1>1, Invariance, PTL

\* Restarts included, no job is executed more than maxAttempts times without
\* success, and none is closed as failed before that and unreported.
THEOREM BoundedAttempts == Spec => [](AttemptsAreBounded /\ FailureIsReported)
<1>1. IInv => AttemptsAreBounded /\ FailureIsReported
  BY BoundsAssumption DEF IInv, Attempts, AttemptsAreBounded, FailureIsReported
<1>2. QED
  BY <1>1, Invariance, PTL
=============================================================================
