------------------------- MODULE CancellationProofs -------------------------
(***************************************************************************)
(* The safety of cancellation for every number of requests, subscriptions, *)
(* callers, objects, events and failures.                                  *)
(***************************************************************************)
EXTENDS Cancellation, FiniteSetTheorems, SequenceTheorems, TLAPS

(***************************************************************************)
(* The inductive invariant.  Recorded and Storage hold for any payer; the  *)
(* other parts for one who never has two subscriptions (Overlap = {}).     *)
(***************************************************************************)

\* What is announced to the payer is dated, and what an execution has not seen
\* is waiting for it as an intent.
Recorded(r) ==
  /\ status[r] \in {"scheduled", "effective", "deleting", "deleted"} =>
       until[r] # NoDate
  /\ place[r] # "idle" => job[r] \in {"running", "rearmed"}
  /\ place[r] # "idle" /\ r \notin again /\ status[r] \in {"effective", "deleting"}
       => job[r] = "rearmed"
  /\ status[r] \in {"effective", "deleting"} => job[r] # "none"

\* No object is in storage without its row.
Storage ==
  /\ bytes \subseteq rows
  /\ \A r \in Requests :
       /\ place[r] = "forget" => object[r] \notin bytes
       /\ place[r] \in {"last", "commit"} => rows = {}
       /\ status[r] = "deleted" => bytes = {} /\ workspaces = "deleted"

\* Subscriptions follow one another, and so do their events.
Succession ==
  /\ \A s, u \in Subs : u < s /\ phase[s] # "new" => phase[u] # "new"
  /\ \A s, u \in Subs : s # u /\ phase[u] = "live" => phase[s] # "live"
  /\ \A i \in DOMAIN sent :
       /\ phase[sent[i].sub] # "new"
       /\ sent[i].type = "cancelled" => phase[sent[i].sub] = "ended"
  /\ \A i, j \in DOMAIN sent :
       phase[sent[j].sub] = "live" /\ sent[i].sub # sent[j].sub => i < j

\* While a subscription is live that somebody has read about, the account is
\* about it, and every event about another one is stale.
Current(s) ==
  \/ phase[s] = "ended"
  \/ phase[s] = "live" /\ account.sub = s

Accounts ==
  /\ phase[account.sub] # "new"
  /\ phase[account.sub] = "live" =>
       \A i \in DOMAIN sent : sent[i].sub # account.sub => i < account.at
  /\ \A r \in Requests : until[r] # NoDate => Current(until[r].sub)
  /\ \A c \in Callers : call[c] # Free =>
       /\ Current(call[c].sub)
       /\ call[c].op = "agreed" => phase[call[c].sub] = "live"

\* Calls that would make a request active again.
Writers(r) == {c \in Callers : call[c] # Free /\ call[c].req = r
                                 /\ call[c].op \notin {"reactivate", "undone"}}

HasEnded(r) == until[r] # NoDate /\ phase[until[r].sub] = "ended"

\* What has taken effect is due to a subscription that has ended, and no call
\* under way can undo it by mistake.
Justified(r) ==
  /\ status[r] \in {"effective", "deleting", "deleted"} => HasEnded(r)
  /\ status[r] \in {"deleting", "deleted"} => r \in due
  /\ place[r] = "mark" /\ HasEnded(r) => r \in due
  /\ status[r] \in {"scheduled", "effective", "deleting", "deleted"} /\ HasEnded(r)
       => Writers(r) = {}

\* An object can only be lost while the request is being deleted or just taken
\* back, and then never again.
Lost(r) ==
  /\ place[r] = "remove" =>
       status[r] \in {"deleting", "reactivated"} /\ Writers(r) = {}
  /\ \/ late[r] = {}
     \/ /\ \E o \in Objects : late[r] = {o}
        /\ status[r] = "reactivated" /\ Writers(r) = {} /\ place[r] # "remove"

BaseInv == TypeOK /\ (\A r \in Requests : Recorded(r)) /\ Storage
IInv == /\ BaseInv /\ Succession /\ Accounts
        /\ \A r \in Requests : Justified(r) /\ Lost(r)
-----------------------------------------------------------------------------
(* The steps, by what they can change.                                       *)

ProviderActs(s) == Subscribe(s) \/ ProviderUpdates(s) \/ TermEnds(s)
Tells(c)  == ScheduleTells(c) \/ ReactivateTells(c)
Writes(c) == \/ StartWrites(c) \/ AcceptCredits(c) \/ AcceptWrites(c)
             \/ ReactivateWrites(c) \/ CalendarWrites(c)
Executes(r) == Runs(r) \/ Throws(r)

LEMMA Steps ==
  ASSUME [Next]_vars
  PROVE  \/ \E s \in Subs : ProviderActs(s)
         \/ \E i \in DOMAIN sent : Deliver(i)
         \/ \E c \in Callers : \/ CallBegins(c) \/ CallDies(c) \/ Tells(c)
                               \/ Writes(c) \/ ScheduleWrites(c)
         \/ \E r \in Requests : Abandon(r) \/ Executes(r) \/ DatePasses(r)
         \/ UNCHANGED vars
  BY DEF Next, CallStep, ProviderActs, Tells, Writes, Executes

LEMMA ProviderFrame ==
  ASSUME NEW s \in Subs, ProviderActs(s)
  PROVE  UNCHANGED <<account, claimed, status, origin, until, accepted, booked,
                     rows, bytes, workspaces, call, job, tries, place, todo,
                     object, again, due, calls, faults, credited, noticed, late>>
  BY DEF ProviderActs, Subscribe, ProviderUpdates, TermEnds, webhookVars,
         requestVars, dataVars, jobVars, runVars, histVars

LEMMA DeliverFrame ==
  ASSUME NEW i \in DOMAIN sent, Deliver(i)
  PROVE  UNCHANGED <<phase, leaving, terms, sent, origin, accepted, booked,
                     rows, bytes, workspaces, call, place, todo, object, again,
                     due, calls, faults, credited, noticed, late>>
  BY DEF Deliver, providerVars, dataVars, runVars, histVars

LEMMA BeginsFrame ==
  ASSUME NEW c \in Callers, CallBegins(c) \/ CallDies(c)
  PROVE  UNCHANGED <<phase, leaving, terms, sent, account, claimed, status,
                     origin, until, accepted, booked, rows, bytes, workspaces,
                     job, tries, place, todo, object, again, due, credited,
                     noticed, late>>
  BY DEF CallBegins, CallDies, StartReads, AcceptReads, ScheduleReads,
         ReactivateReads, CalendarReads, ReadFrame, providerVars, webhookVars,
         requestVars, dataVars, jobVars, runVars, histVars

LEMMA TellsFrame ==
  ASSUME NEW c \in Callers, Tells(c)
  PROVE  UNCHANGED <<phase, terms, account, claimed, status, origin, until,
                     accepted, booked, rows, bytes, workspaces, job, tries,
                     place, todo, object, again, due, calls, faults, credited,
                     noticed, late>>
  BY DEF Tells, ScheduleTells, ReactivateTells, CallFrame, webhookVars,
         requestVars, dataVars, jobVars, runVars

LEMMA WritesFrame ==
  ASSUME \/ \E c \in Callers : Writes(c) \/ ScheduleWrites(c)
         \/ \E r \in Requests : Abandon(r)
  PROVE  UNCHANGED <<phase, leaving, terms, sent, account, claimed, rows, bytes,
                     workspaces, place, todo, object, again, faults, noticed,
                     late>>
  BY DEF Writes, StartWrites, AcceptCredits, AcceptWrites, ReactivateWrites,
         CalendarWrites, ScheduleWrites, Abandon, CallFrame, RequestFrame,
         webhookVars, dataVars, runVars

LEMMA ExecutesFrame ==
  ASSUME NEW r \in Requests, Executes(r)
  PROVE  UNCHANGED <<phase, leaving, terms, sent, account, claimed, origin,
                     until, accepted, booked, call, calls, due, credited>>
  BY DEF Executes, Runs, LoadsNothing, Loads, Mark, List, Check, Remove, Forget,
         Last, Commit, Notify, Throws, RunFrame, providerVars, webhookVars

LEMMA DateFrame ==
  ASSUME NEW r \in Requests, DatePasses(r)
  PROVE  UNCHANGED <<phase, leaving, terms, sent, account, claimed, status,
                     origin, until, accepted, booked, rows, bytes, workspaces,
                     call, job, tries, place, todo, object, again, calls,
                     faults, credited, noticed, late>>
  BY DEF DatePasses, providerVars, webhookVars, requestVars, dataVars, jobVars,
         runVars, histVars

LEMMA StutterFrame ==
  ASSUME UNCHANGED vars
  PROVE  UNCHANGED <<phase, leaving, terms, sent, account, claimed, status,
                     origin, until, accepted, booked, rows, bytes, workspaces,
                     call, job, tries, place, todo, object, again, due, calls,
                     faults, credited, noticed, late>>
  BY DEF vars, providerVars, webhookVars, requestVars, dataVars, jobVars,
         runVars, histVars
-----------------------------------------------------------------------------
(* Types, by group of variables.                                             *)

ProviderOK ==
  /\ phase \in [Subs -> {"new", "live", "ended"}]
  /\ leaving \subseteq Subs
  /\ terms \in [Subs -> Nat]
  /\ sent \in Seq([type : EventTypes, sub : Subs, cancel : BOOLEAN, term : Nat])

WebhookOK ==
  /\ account \in [sub : Subs, at : Nat, term : Nat]
  /\ claimed \subseteq DOMAIN sent

RequestOK ==
  /\ status \in [Requests -> Statuses]
  /\ origin \in [Requests -> Subs \cup {0}]
  /\ until \in [Requests -> Terms \cup {NoDate}]
  /\ accepted \subseteq Requests /\ booked \subseteq Requests
  /\ \A q, r \in Requests : {status[q], status[r]} \subseteq Active => q = r

DataOK ==
  /\ rows \subseteq Objects /\ bytes \subseteq Objects
  /\ workspaces \in {"kept", "deleted"}

CallOK ==
  /\ call \in [Callers -> [op : Operations, req : Requests, sub : Subs,
                           term : Nat] \cup {Free}]
  /\ calls \in Nat /\ faults \in Nat
  /\ credited \subseteq Requests

JobOK ==
  /\ job \in [Requests -> {"none", "armed", "running", "rearmed", "failed"}]
  /\ tries \in [Requests -> 0 .. MaxAttempts - 1]

RunOK ==
  /\ place \in [Requests -> Places]
  /\ todo \in [Requests -> SUBSET Objects]
  /\ object \in [Requests -> Objects \cup {None}]
  /\ again \subseteq Requests /\ due \subseteq Requests
  /\ noticed \subseteq Requests
  /\ late \in [Requests -> SUBSET Objects]

LEMMA TypeParts ==
  TypeOK <=> /\ ProviderOK /\ WebhookOK /\ RequestOK /\ DataOK /\ CallOK
             /\ JobOK /\ RunOK
  BY DEF TypeOK, ProviderOK, WebhookOK, RequestOK, DataOK, CallOK, JobOK, RunOK

\* A call that is open has a request and a subscription.
LEMMA OpenCall ==
  ASSUME CallOK, NEW c \in Callers, call[c] # Free
  PROVE  /\ call[c].op \in Operations /\ call[c].req \in Requests
         /\ call[c].sub \in Subs /\ call[c].term \in Nat
         /\ call[c] \in [op : Operations, req : Requests, sub : Subs, term : Nat]
  BY DEF CallOK

\* A call at a step of an operation is open.
LEMMA AtIsOpen ==
  ASSUME NEW c \in Callers, NEW op \in Operations, At(c, op)
  PROVE  call[c] # Free
  BY DEF At, Free, Operations

LEMMA TypeInit == Init => TypeOK
  BY CancellationAssumption DEF Init, TypeOK, Statuses, Places, Free, NoDate,
     None, Active

Events == [type : EventTypes, sub : Subs, cancel : BOOLEAN, term : Nat]

\* What an event says.
LEMMA EventType ==
  ASSUME ProviderOK
  PROVE  /\ Len(sent) \in Nat /\ DOMAIN sent = 1 .. Len(sent)
         /\ \A i \in DOMAIN sent :
              /\ i \in Nat /\ i <= Len(sent)
              /\ sent[i].type \in EventTypes /\ sent[i].sub \in Subs
              /\ sent[i].cancel \in BOOLEAN /\ sent[i].term \in Nat
<1>1. sent \in Seq(Events)
  BY DEF ProviderOK, Events
<1>2. Len(sent) \in Nat /\ DOMAIN sent = 1 .. Len(sent)
  BY <1>1, LenProperties
<1>3. \A i \in DOMAIN sent : sent[i] \in Events
  BY <1>1, <1>2, ElementOfSeq
<1>4. QED
  BY <1>2, <1>3 DEF Events

\* A new event is the last one.
LEMMA SentType ==
  ASSUME ProviderOK, NEW type \in EventTypes, NEW s \in Subs,
         NEW cancel \in BOOLEAN, NEW term \in Nat, Send(type, s, cancel, term)
  PROVE  /\ sent' \in Seq(Events)
         /\ DOMAIN sent' = 1 .. Len(sent) + 1
         /\ \A i \in DOMAIN sent : i \in DOMAIN sent' /\ sent'[i] = sent[i]
         /\ sent'[Len(sent) + 1] = Event(type, s, cancel, term)
<1>1. sent \in Seq(Events) /\ Event(type, s, cancel, term) \in Events
  BY DEF ProviderOK, Events, Event
<1>2. sent' = Append(sent, Event(type, s, cancel, term))
  BY DEF Send
<1>3. /\ sent' \in Seq(Events) /\ Len(sent') = Len(sent) + 1
      /\ \A i \in 1 .. Len(sent) : sent'[i] = sent[i]
      /\ sent'[Len(sent) + 1] = Event(type, s, cancel, term)
  BY <1>1, <1>2, AppendProperties
<1>4. DOMAIN sent' = 1 .. Len(sent') /\ DOMAIN sent = 1 .. Len(sent)
  BY <1>1, <1>3, LenProperties
<1>5. QED
  BY <1>1, <1>3, <1>4, EventType

LEMMA ProviderTyped ==
  ASSUME TypeOK, [Next]_vars
  PROVE  ProviderOK' /\ DOMAIN sent \subseteq DOMAIN sent'
<1>1. ProviderOK /\ CallOK
  BY TypeParts
<1>2. ASSUME NEW s \in Subs, ProviderActs(s)
      PROVE  ProviderOK' /\ DOMAIN sent \subseteq DOMAIN sent'
  <2>1. terms[s] \in Nat /\ terms[s] + 1 \in Nat
    BY <1>1 DEF ProviderOK
  <2>2. CASE Subscribe(s)
    BY <1>1, <2>1, <2>2, SentType DEF Subscribe, ProviderOK, Events, EventTypes
  <2>3. CASE ProviderUpdates(s)
    BY <1>1, <2>1, <2>3, SentType DEF ProviderUpdates, ProviderOK, Events, EventTypes
  <2>4. CASE TermEnds(s)
    BY <1>1, <2>1, <2>4, SentType DEF TermEnds, ProviderOK, Events, EventTypes
  <2>5. QED
    BY <1>2, <2>2, <2>3, <2>4 DEF ProviderActs
<1>3. ASSUME NEW c \in Callers, Tells(c)
      PROVE  ProviderOK' /\ DOMAIN sent \subseteq DOMAIN sent'
  <2>1. call[c].sub \in Subs
    BY <1>1, <1>3, OpenCall, AtIsOpen
    DEF Tells, ScheduleTells, ReactivateTells, Operations
  <2>2. ASSUME NEW cancel \in BOOLEAN, ProviderSets(call[c].sub, cancel)
        PROVE  ProviderOK' /\ DOMAIN sent \subseteq DOMAIN sent'
    BY <1>1, <1>3, <2>1, <2>2, SentType, TellsFrame
    DEF ProviderSets, ProviderOK, Events, EventTypes
  <2>3. CASE UNCHANGED <<leaving, sent>>
    BY <1>1, <1>3, <2>3, TellsFrame DEF ProviderOK
  <2>4. QED
    BY <1>3, <2>2, <2>3 DEF Tells, ScheduleTells, ReactivateTells
<1>4. CASE UNCHANGED <<phase, leaving, terms, sent>>
  BY <1>1, <1>4 DEF ProviderOK
<1>5. QED
  BY <1>2, <1>3, <1>4, Steps, DeliverFrame, BeginsFrame, WritesFrame,
     ExecutesFrame, DateFrame, StutterFrame

LEMMA WebhookTyped ==
  ASSUME TypeOK, [Next]_vars
  PROVE  WebhookOK'
<1>1. ProviderOK /\ WebhookOK /\ DOMAIN sent \subseteq DOMAIN sent'
  BY TypeParts, ProviderTyped
<1>2. ASSUME NEW i \in DOMAIN sent, Deliver(i) PROVE WebhookOK'
  BY <1>1, <1>2, EventType, DeliverFrame DEF Deliver, Applies, WebhookOK
<1>3. CASE UNCHANGED <<account, claimed>>
  BY <1>1, <1>3 DEF WebhookOK
<1>4. QED
  BY <1>2, <1>3, Steps, ProviderFrame, BeginsFrame, TellsFrame, WritesFrame,
     ExecutesFrame, DateFrame, StutterFrame

LEMMA RequestTyped ==
  ASSUME TypeOK, [Next]_vars
  PROVE  RequestOK'
<1>1. ProviderOK /\ WebhookOK /\ RequestOK /\ CallOK
  BY TypeParts
<1>2. ASSUME NEW i \in DOMAIN sent, Deliver(i) PROVE RequestOK'
  <2>1. UNCHANGED <<origin, accepted, booked>>
    BY <1>2, DeliverFrame
  <2>2. CASE Ends /\ UNCHANGED until
    BY <1>1, <2>1, <2>2 DEF Ends, RequestOK, Statuses, Active
  <2>3. CASE GoesOn(sent[i])
    BY <1>1, <2>1, <2>3 DEF GoesOn, RequestOK, Statuses, Active
  <2>4. CASE UNCHANGED <<status, until>>
    BY <1>1, <2>1, <2>4 DEF RequestOK
  <2>5. QED
    BY <1>2, <2>2, <2>3, <2>4 DEF Deliver, Applies
<1>3. ASSUME NEW c \in Callers, Writes(c) \/ ScheduleWrites(c) PROVE RequestOK'
  <2>1. call[c].req \in Requests /\ call[c].sub \in Subs /\ call[c].term \in Nat
    BY <1>1, <1>3, OpenCall, AtIsOpen
    DEF Writes, StartWrites, AcceptCredits, AcceptWrites, ReactivateWrites,
        CalendarWrites, ScheduleWrites, Operations
  <2>2. CASE StartWrites(c)
    BY <1>1, <2>1, <2>2 DEF StartWrites, MayBeActive, RequestOK, Statuses, Active
  <2>3. CASE AcceptCredits(c)
    BY <1>1, <2>3 DEF AcceptCredits, requestVars, RequestOK
  <2>4. CASE AcceptWrites(c)
    BY <1>1, <2>1, <2>4 DEF AcceptWrites, RequestOK, Statuses, Active
  <2>5. CASE ReactivateWrites(c)
    BY <1>1, <2>1, <2>5 DEF ReactivateWrites, RequestOK, Statuses, Active
  <2>6. CASE CalendarWrites(c)
    BY <1>1, <2>1, <2>6
    DEF CalendarWrites, MayBeActive, RequestOK, Statuses, Active
  <2>7. CASE ScheduleWrites(c)
    BY <1>1, <2>1, <2>7
    DEF ScheduleWrites, Scheduled, RequestOK, Statuses, Active, Terms
  <2>8. QED
    BY <1>3, <2>2, <2>3, <2>4, <2>5, <2>6, <2>7 DEF Writes
<1>4. ASSUME NEW r \in Requests, Abandon(r) PROVE RequestOK'
  BY <1>1, <1>4 DEF Abandon, RequestOK, Statuses, Active
<1>5. ASSUME NEW r \in Requests, Executes(r) PROVE RequestOK'
  <2>1. UNCHANGED <<origin, until, accepted, booked>>
    BY <1>5, ExecutesFrame
  <2>2. CASE Mark(r)
    BY <1>1, <2>1, <2>2 DEF Mark, RequestOK, Statuses, Active
  <2>3. CASE Commit(r)
    BY <1>1, <2>1, <2>3
    DEF Commit, DeletesWorkspaces, RequestOK, Statuses, Active
  <2>4. CASE UNCHANGED status
    BY <1>1, <2>1, <2>4 DEF RequestOK
  <2>5. QED
    BY <1>5, <2>2, <2>3, <2>4
    DEF Executes, Runs, LoadsNothing, Loads, List, Check, Remove, Forget, Last,
        Notify, Throws, Stays
<1>6. CASE UNCHANGED <<status, origin, until, accepted, booked>>
  BY <1>1, <1>6 DEF RequestOK
<1>7. QED
  BY <1>2, <1>3, <1>4, <1>5, <1>6, Steps, ProviderFrame, BeginsFrame,
     TellsFrame, DateFrame, StutterFrame

LEMMA DataTyped ==
  ASSUME TypeOK, [Next]_vars
  PROVE  DataOK'
<1>1. DataOK
  BY TypeParts
<1>2. ASSUME NEW r \in Requests, Executes(r) PROVE DataOK'
  BY <1>1, <1>2
  DEF Executes, Runs, LoadsNothing, Loads, Mark, List, Check, Remove, Forget,
      Last, Commit, Notify, Throws, Stays, DeletesWorkspaces, dataVars, DataOK
<1>3. CASE UNCHANGED <<rows, bytes, workspaces>>
  BY <1>1, <1>3 DEF DataOK
<1>4. QED
  BY <1>2, <1>3, Steps, ProviderFrame, DeliverFrame, BeginsFrame, TellsFrame,
     WritesFrame, DateFrame, StutterFrame

LEMMA CallTyped ==
  ASSUME TypeOK, [Next]_vars
  PROVE  CallOK'
<1>1. WebhookOK /\ CallOK /\ calls + 1 \in Nat /\ faults + 1 \in Nat
  BY TypeParts DEF CallOK
<1>2. account.sub \in Subs /\ account.term \in Nat
  BY <1>1 DEF WebhookOK
<1>3. ASSUME NEW c \in Callers, CallBegins(c) \/ CallDies(c) PROVE CallOK'
  <2>1. ASSUME NEW op \in Operations, NEW r \in Requests, Calls(c, op, r),
               UNCHANGED <<faults, credited>>
        PROVE  CallOK'
    BY <1>1, <1>2, <2>1 DEF Calls, CallOK
  <2>2. CASE CallDies(c)
    BY <1>1, <2>2 DEF CallDies, Returns, histVars, CallOK
  <2>3. CASE CallBegins(c)
    <3>1. UNCHANGED <<faults, credited>>
      BY <2>3 DEF CallBegins, StartReads, AcceptReads, ScheduleReads,
                  ReactivateReads, CalendarReads, ReadFrame, histVars
    <3>2. \E op \in Operations, r \in Requests : Calls(c, op, r)
      BY <2>3 DEF CallBegins, StartReads, AcceptReads, ScheduleReads,
                  ReactivateReads, CalendarReads, Operations
    <3>3. QED
      BY <2>1, <3>1, <3>2
  <2>4. QED
    BY <1>3, <2>2, <2>3
<1>4. ASSUME NEW c \in Callers, Tells(c) \/ Writes(c) \/ ScheduleWrites(c)
      PROVE  CallOK'
  <2>1. ASSUME NEW op \in Operations, call[c] # Free, Goes(c, op),
               UNCHANGED <<calls, faults>>, credited' \subseteq Requests
        PROVE  CallOK'
    <3>1. call[c] \in [op : Operations, req : Requests, sub : Subs, term : Nat]
      BY <1>1, <2>1, OpenCall
    <3>2. [call[c] EXCEPT !.op = op]
            \in [op : Operations, req : Requests, sub : Subs, term : Nat]
      BY <3>1
    <3>3. QED
      BY <1>1, <2>1, <3>2 DEF Goes, CallOK
  <2>2. CASE Returns(c) /\ UNCHANGED <<calls, faults, credited>>
    BY <1>1, <2>2 DEF Returns, CallOK
  <2>3. CASE Tells(c)
    <3>1. call[c] # Free /\ UNCHANGED <<calls, faults, credited>>
      BY <2>3, AtIsOpen, TellsFrame
      DEF Tells, ScheduleTells, ReactivateTells, Operations
    <3>2. credited \subseteq Requests
      BY <1>1 DEF CallOK
    <3>3. QED
      BY <2>1, <2>2, <2>3, <3>1, <3>2
      DEF Tells, ScheduleTells, ReactivateTells, Operations
  <2>4. CASE AcceptCredits(c)
    <3>1. call[c] # Free
      BY <2>4, AtIsOpen DEF AcceptCredits, Operations
    <3>2. credited' \subseteq Requests /\ UNCHANGED <<calls, faults>>
      BY <1>1, <2>4, <3>1, OpenCall DEF AcceptCredits, CallFrame, CallOK
    <3>3. QED
      BY <2>1, <2>4, <3>1, <3>2 DEF AcceptCredits, Operations
  <2>5. CASE ~Tells(c) /\ ~AcceptCredits(c)
    BY <1>4, <2>2, <2>5
    DEF Writes, StartWrites, AcceptWrites, ReactivateWrites, CalendarWrites,
        ScheduleWrites, CallFrame, RequestFrame
  <2>6. QED
    BY <2>3, <2>4, <2>5
<1>5. ASSUME NEW r \in Requests, Abandon(r) PROVE CallOK'
  BY <1>1, <1>5 DEF Abandon, CallFrame, CallOK
<1>6. ASSUME NEW r \in Requests, Executes(r) PROVE CallOK'
  <2>1. UNCHANGED <<call, calls, credited>>
    BY <1>6, ExecutesFrame
  <2>2. faults' \in {faults, faults + 1}
    BY <1>6 DEF Executes, Runs, LoadsNothing, Loads, Mark, List, Check, Remove,
                Forget, Last, Commit, Notify, Throws
  <2>3. QED
    BY <1>1, <2>1, <2>2 DEF CallOK
<1>7. CASE UNCHANGED <<call, calls, faults, credited>>
  BY <1>1, <1>7 DEF CallOK
<1>8. QED
  BY <1>3, <1>4, <1>5, <1>6, <1>7, Steps, ProviderFrame, DeliverFrame,
     DateFrame, StutterFrame

LEMMA JobTyped ==
  ASSUME TypeOK, [Next]_vars
  PROVE  JobOK'
<1>1. CallOK /\ JobOK
  BY TypeParts
<1>2. ASSUME NEW r \in Requests, Enqueued(r) PROVE JobOK'
  BY <1>1, <1>2, CancellationAssumption DEF Enqueued, JobOK
<1>3. ASSUME NEW r \in Requests, NEW more, Finishes(r, more) PROVE JobOK'
  BY <1>1, <1>3, CancellationAssumption DEF Finishes, JobOK
<1>4. ASSUME NEW i \in DOMAIN sent, Deliver(i) PROVE JobOK'
  <2>1. CASE UNCHANGED <<job, tries>>
    BY <1>1, <2>1 DEF JobOK
  <2>2. QED
    BY <1>2, <1>4, <2>1 DEF Deliver, Applies, Ends, jobVars
<1>5. ASSUME NEW c \in Callers, ScheduleWrites(c) PROVE JobOK'
  <2>1. call[c].req \in Requests
    BY <1>1, <1>5, AtIsOpen, OpenCall DEF ScheduleWrites, Operations
  <2>2. CASE UNCHANGED <<job, tries>>
    BY <1>1, <2>2 DEF JobOK
  <2>3. QED
    BY <1>2, <1>5, <2>1, <2>2 DEF ScheduleWrites, Scheduled, jobVars
<1>6. ASSUME NEW r \in Requests, Executes(r) PROVE JobOK'
  <2>1. CASE Loads(r)
    BY <1>1, <2>1 DEF Loads, JobOK
  <2>2. CASE Throws(r)
    <3>1. tries[r] \in 0 .. MaxAttempts - 1 /\ MaxAttempts \in Nat \ {0}
      BY <1>1, CancellationAssumption DEF JobOK
    <3>2. /\ job' \in [Requests -> {"none", "armed", "running", "rearmed",
                                    "failed"}]
          /\ tries' \in [Requests -> 0 .. MaxAttempts - 1]
      BY <1>1, <2>2, <3>1 DEF Throws, JobOK
    <3>3. QED
      BY <3>2 DEF JobOK
  <2>3. CASE UNCHANGED <<job, tries>>
    BY <1>1, <2>3 DEF JobOK
  <2>4. CASE \/ Finishes(r, FALSE) \/ Finishes(r, TRUE)
             \/ Finishes(r, r \in again)
    BY <1>3, <2>4
  <2>5. QED
    BY <1>6, <2>1, <2>2, <2>3, <2>4
    DEF Executes, Runs, LoadsNothing, Mark, List, Check, Remove, Forget, Last,
        Commit, Notify, Stays, jobVars
<1>7. CASE UNCHANGED <<job, tries>>
  BY <1>1, <1>7 DEF JobOK
<1>8. QED
  BY <1>4, <1>5, <1>6, <1>7, Steps, ProviderFrame, BeginsFrame, TellsFrame,
     DateFrame, StutterFrame
     DEF Writes, StartWrites, AcceptCredits, AcceptWrites, ReactivateWrites,
         CalendarWrites, Abandon, jobVars

LEMMA RunTyped ==
  ASSUME TypeOK, [Next]_vars
  PROVE  RunOK'
<1>1. RequestOK /\ DataOK /\ CallOK /\ RunOK
  BY TypeParts
<1>2. ASSUME NEW c \in Callers, ScheduleWrites(c) PROVE RunOK'
  BY <1>1, <1>2, WritesFrame DEF ScheduleWrites, Scheduled, RunOK
<1>3. ASSUME NEW r \in Requests, Executes(r) PROVE RunOK'
  <2>1. UNCHANGED due
    BY <1>3, ExecutesFrame
  <2>2. ASSUME NEW more, Finishes(r, more), UNCHANGED late,
               noticed' = noticed \/ noticed' = noticed \cup {r}
        PROVE  RunOK'
    <3>1. /\ place' \in [Requests -> Places]
          /\ todo' \in [Requests -> SUBSET Objects]
          /\ object' \in [Requests -> Objects \cup {None}]
      BY <1>1, <2>2 DEF Finishes, MovesTo, RunOK, Places
    <3>2. again' \subseteq Requests /\ noticed' \subseteq Requests
      BY <1>1, <2>2 DEF Finishes, RunOK
    <3>3. QED
      BY <1>1, <2>1, <2>2, <3>1, <3>2 DEF RunOK
  <2>3. CASE Loads(r)
    BY <1>1, <2>1, <2>3 DEF Loads, MovesTo, RunOK, Places
  <2>4. CASE Mark(r) \/ Forget(r) \/ Commit(r)
    BY <1>1, <2>1, <2>4 DEF Mark, Forget, Commit, MovesTo, RunOK, Places
  <2>5. CASE List(r)
    <3>1. \A S \in Listed : S \subseteq Objects
      BY <1>1 DEF Listed, DataOK
    <3>2. QED
      BY <1>1, <2>1, <2>5, <3>1 DEF List, MovesTo, Stays, RunOK, Places
  <2>6. CASE Remove(r)
    <3>1. late' \in [Requests -> SUBSET Objects]
      BY <1>1, <2>6 DEF Remove, RunOK, DataOK
    <3>2. UNCHANGED <<todo, object, again, noticed>>
          /\ place' \in [Requests -> Places]
      BY <1>1, <2>6 DEF Remove, MovesTo, RunOK, Places
    <3>3. QED
      BY <1>1, <2>1, <3>1, <3>2 DEF RunOK
  <2>7. CASE Throws(r)
    BY <1>1, <2>1, <2>7 DEF Throws, MovesTo, RunOK, Places, None
  <2>8. CASE Check(r) /\ MovesTo(r, "remove") /\ UNCHANGED <<again, noticed, late>>
    <3>1. PICK o \in todo[r] : /\ object' = [object EXCEPT ![r] = o]
                               /\ todo' = [todo EXCEPT ![r] = todo[r] \ {o}]
      BY <1>1, <2>8 DEF Check, Finishes, MovesTo, RunOK, Places
    <3>2. QED
      BY <1>1, <2>1, <2>8, <3>1 DEF MovesTo, RunOK, Places
  <2>9. CASE Last(r) /\ MovesTo(r, "commit")
             /\ UNCHANGED <<todo, object, again, noticed, late>>
    BY <1>1, <2>1, <2>9 DEF MovesTo, RunOK, Places
  <2>10. QED
    BY <1>3, <2>2, <2>3, <2>4, <2>5, <2>6, <2>7, <2>8, <2>9
    DEF Executes, Runs, LoadsNothing, Check, Last, Notify, Stays
<1>4. ASSUME NEW r \in Requests, DatePasses(r) PROVE RunOK'
  BY <1>1, <1>4, DateFrame DEF DatePasses, RunOK
<1>5. CASE UNCHANGED <<place, todo, object, again, due, noticed, late>>
  BY <1>1, <1>5 DEF RunOK
<1>6. QED
  BY <1>2, <1>3, <1>4, <1>5, Steps, ProviderFrame, DeliverFrame, BeginsFrame,
     TellsFrame, WritesFrame, StutterFrame
     DEF Writes, StartWrites, AcceptCredits, AcceptWrites, ReactivateWrites,
         CalendarWrites, Abandon

LEMMA TypeStep == TypeOK /\ [Next]_vars => TypeOK'
<1> SUFFICES ASSUME TypeOK, [Next]_vars PROVE TypeOK'
  OBVIOUS
<1>1. /\ ProviderOK' /\ WebhookOK' /\ RequestOK' /\ DataOK' /\ CallOK'
      /\ JobOK' /\ RunOK'
  BY ProviderTyped, WebhookTyped, RequestTyped, DataTyped, CallTyped, JobTyped,
     RunTyped
<1>2. QED
  BY <1>1 DEF TypeOK, ProviderOK, WebhookOK, RequestOK, DataOK, CallOK, JobOK,
              RunOK

\* Every variable has its type, and no payer has two active requests, whatever
\* calls and webhooks overlap.
THEOREM CancellationTypeCorrect == Spec => []TypeOK
<1>1. Init => TypeOK
  BY TypeInit
<1>2. TypeOK /\ [Next]_vars => TypeOK'
  BY TypeStep
<1>3. QED
  BY <1>1, <1>2, PTL DEF Spec
-----------------------------------------------------------------------------
(* Jobs and storage.                                                         *)

LEMMA RecordedStep ==
  ASSUME TypeOK, \A r \in Requests : Recorded(r), [Next]_vars
  PROVE  \A r \in Requests : Recorded(r)'
<1> SUFFICES ASSUME NEW q \in Requests PROVE Recorded(q)'
  OBVIOUS
<1>1. RequestOK /\ CallOK /\ JobOK /\ RunOK /\ Recorded(q)
  BY TypeParts
<1>2. ASSUME NEW i \in DOMAIN sent, Deliver(i) PROVE Recorded(q)'
  <2>1. UNCHANGED <<place, again>>
    BY <1>2, DeliverFrame
  <2>2. CASE Ends /\ UNCHANGED until
    BY <1>1, <2>1, <2>2 DEF Ends, Enqueued, jobVars, Recorded, RequestOK, JobOK
  <2>3. CASE GoesOn(sent[i]) /\ UNCHANGED job
    BY <1>1, <2>1, <2>3 DEF GoesOn, Recorded, RequestOK
  <2>4. CASE UNCHANGED <<status, until, job>>
    BY <1>1, <2>1, <2>4 DEF Recorded
  <2>5. QED
    BY <1>2, <2>2, <2>3, <2>4 DEF Deliver, Applies, jobVars
<1>3. ASSUME NEW c \in Callers, Writes(c) PROVE Recorded(q)'
  <2>1. call[c].req \in Requests /\ UNCHANGED <<place, again, job>>
    BY <1>1, <1>3, OpenCall, AtIsOpen, WritesFrame
    DEF Writes, StartWrites, AcceptCredits, AcceptWrites, ReactivateWrites,
        CalendarWrites, Operations, jobVars
  <2>2. \/ UNCHANGED <<status, until>>
        \/ UNCHANGED until /\ \E new \in {"open", "offer_accepted", "call_booked"} :
             status' = [status EXCEPT ![call[c].req] = new]
        \/ /\ status' = [status EXCEPT ![call[c].req] = "reactivated"]
           /\ until' = [until EXCEPT ![call[c].req] = NoDate]
    BY <1>3
    DEF Writes, StartWrites, AcceptCredits, AcceptWrites, ReactivateWrites,
        CalendarWrites, requestVars
  <2>3. QED
    BY <1>1, <2>1, <2>2 DEF Recorded, RequestOK
<1>4. ASSUME NEW c \in Callers, ScheduleWrites(c) PROVE Recorded(q)'
  <2>1. /\ call[c].req \in Requests /\ call[c].sub # 0
        /\ UNCHANGED <<place, again>>
    BY <1>1, <1>4, OpenCall, AtIsOpen, WritesFrame, CancellationAssumption
    DEF ScheduleWrites, Operations
  <2>2. CASE UNCHANGED <<status, until, job>>
    BY <1>1, <2>1, <2>2 DEF Recorded
  <2>3. CASE Scheduled(c)
    <3>1. CASE q = call[c].req
      BY <1>1, <2>1, <2>3, <3>1
      DEF Scheduled, Enqueued, Recorded, RequestOK, JobOK, NoDate
    <3>2. CASE q # call[c].req
      BY <1>1, <2>1, <2>3, <3>2
      DEF Scheduled, Enqueued, Recorded, RequestOK, JobOK
    <3>3. QED
      BY <3>1, <3>2
  <2>4. QED
    BY <1>4, <2>2, <2>3 DEF ScheduleWrites, jobVars
<1>5. ASSUME NEW r \in Requests, Abandon(r) PROVE Recorded(q)'
  BY <1>1, <1>5, WritesFrame DEF Abandon, jobVars, Recorded, RequestOK
<1>6. ASSUME NEW r \in Requests, Executes(r) PROVE Recorded(q)'
  <2>1. UNCHANGED until
    BY <1>6, ExecutesFrame
  <2>2. ASSUME NEW more, Finishes(r, more), UNCHANGED status,
               status[r] \in {"effective", "deleting"} =>
                 more \/ job[r] = "rearmed"
        PROVE  Recorded(q)'
    BY <1>1, <2>1, <2>2 DEF Finishes, MovesTo, Recorded, JobOK, RunOK
  <2>3. CASE LoadsNothing(r)
    BY <1>1, <2>2, <2>3 DEF LoadsNothing, Concerns, Recorded
  <2>4. CASE Loads(r)
    BY <1>1, <2>1, <2>4
    DEF Loads, AsksAgain, MovesTo, Recorded, RequestOK, JobOK, RunOK
  <2>5. CASE Throws(r)
    BY <1>1, <2>1, <2>5 DEF Throws, MovesTo, Recorded, JobOK, RunOK
  <2>6. CASE /\ place[r] # "idle" /\ Finishes(r, r \in again)
             /\ UNCHANGED status
    BY <1>1, <2>2, <2>6 DEF Recorded
  <2>7. CASE /\ place[r] # "idle" /\ UNCHANGED <<job, again>>
             /\ \E p \in Places : MovesTo(r, p)
             /\ \/ UNCHANGED status
                \/ Mark(r)
                \/ Commit(r)
    BY <1>1, <2>1, <2>7
    DEF MovesTo, Mark, Commit, IsDeleting, DeletesWorkspaces, Recorded,
        RequestOK, RunOK
  <2>8. QED
    BY <1>6, <2>3, <2>4, <2>5, <2>6, <2>7
    DEF Executes, Runs, Mark, List, Check, Remove, Forget, Last, Commit, Notify,
        Stays, jobVars, Places
<1>7. CASE UNCHANGED <<status, until, place, again, job>>
  BY <1>1, <1>7 DEF Recorded
<1>8. QED
  BY <1>2, <1>3, <1>4, <1>5, <1>6, <1>7, Steps, ProviderFrame, BeginsFrame,
     TellsFrame, DateFrame, StutterFrame

LEMMA StorageStep ==
  ASSUME TypeOK, Storage, [Next]_vars
  PROVE  Storage'
<1>1. RequestOK /\ DataOK /\ CallOK /\ RunOK
  BY TypeParts
<1>2. ASSUME \A q \in Requests : status'[q] = "deleted" => status[q] = "deleted",
             UNCHANGED <<rows, bytes, workspaces, place, object>>
      PROVE  Storage'
  BY <1>2 DEF Storage
<1>3. ASSUME NEW i \in DOMAIN sent, Deliver(i) PROVE Storage'
  <2>1. \A q \in Requests : status'[q] = "deleted" => status[q] = "deleted"
    BY <1>1, <1>3 DEF Deliver, Applies, Ends, GoesOn, RequestOK
  <2>2. QED
    BY <1>2, <1>3, <2>1, DeliverFrame
<1>4. ASSUME NEW c \in Callers, Writes(c) \/ ScheduleWrites(c) PROVE Storage'
  <2>1. \A q \in Requests : status'[q] = "deleted" => status[q] = "deleted"
    BY <1>1, <1>4
    DEF Writes, StartWrites, AcceptCredits, AcceptWrites, ReactivateWrites,
        CalendarWrites, ScheduleWrites, Scheduled, requestVars, RequestOK
  <2>2. QED
    BY <1>2, <1>4, <2>1, WritesFrame
<1>5. ASSUME NEW r \in Requests, Abandon(r) PROVE Storage'
  <2>1. \A q \in Requests : status'[q] = "deleted" => status[q] = "deleted"
    BY <1>1, <1>5 DEF Abandon, RequestOK
  <2>2. QED
    BY <1>2, <1>5, <2>1, WritesFrame
<1>6. ASSUME NEW r \in Requests, Executes(r) PROVE Storage'
  <2>1. ASSUME NEW p \in Places \ {"forget", "last", "commit"}, MovesTo(r, p),
               UNCHANGED dataVars,
               \A q \in Requests \ {r} : object'[q] = object[q],
               \A q \in Requests : status'[q] = "deleted" => status[q] = "deleted"
        PROVE  Storage'
    BY <1>1, <2>1 DEF MovesTo, dataVars, Storage, RunOK
  <2>2. ASSUME NEW more, Finishes(r, more), UNCHANGED <<status, dataVars>>
        PROVE  Storage'
    BY <1>1, <2>1, <2>2 DEF Finishes, RunOK, Places
  <2>3. CASE LoadsNothing(r) \/ Notify(r)
    BY <2>2, <2>3 DEF LoadsNothing, Notify
  <2>4. CASE Loads(r)
    BY <2>1, <2>4 DEF Loads, Places
  <2>5. CASE Mark(r)
    BY <1>1, <2>1, <2>5 DEF Mark, Places, RequestOK
  <2>6. CASE List(r)
    <3>1. CASE NothingListed
      BY <1>1, <2>6, <3>1
      DEF List, NothingListed, MovesTo, Stays, dataVars, Storage, RunOK
    <3>2. CASE ~NothingListed
      BY <2>1, <2>6, <3>2 DEF List, Stays, Places
    <3>3. QED
      BY <3>1, <3>2
  <2>7. CASE Check(r)
    <3>1. CASE Finishes(r, r \in again) /\ UNCHANGED <<status, dataVars>>
      BY <2>2, <3>1
    <3>2. CASE MovesTo(r, "remove") /\ UNCHANGED <<status, dataVars>>
      <4>1. \A q \in Requests \ {r} : object'[q] = object[q]
        BY <1>1, <2>7, <3>2 DEF Check, Finishes, MovesTo, RunOK
      <4>2. QED
        BY <2>1, <3>2, <4>1 DEF Places
    <3>3. QED
      BY <2>7, <3>1, <3>2 DEF Check, Stays
  <2>8. CASE Remove(r)
    BY <1>1, <2>8 DEF Remove, MovesTo, Storage, RunOK
  <2>9. CASE Forget(r)
    BY <1>1, <2>9 DEF Forget, MovesTo, Storage, RunOK
  <2>10. CASE Last(r)
    <3>1. CASE Finishes(r, r \in again) /\ UNCHANGED <<status, dataVars>>
      BY <2>2, <3>1
    <3>2. CASE MovesTo(r, "commit") /\ UNCHANGED <<status, dataVars, object>>
      BY <1>1, <2>10, <3>2 DEF Last, MovesTo, dataVars, Storage, RunOK
    <3>3. QED
      BY <2>10, <3>1, <3>2 DEF Last
  <2>11. CASE Commit(r)
    BY <1>1, <2>11
    DEF Commit, DeletesWorkspaces, MovesTo, Storage, RunOK, RequestOK, DataOK
  <2>12. CASE Throws(r)
    BY <1>1, <2>1, <2>12 DEF Throws, Places, RunOK
  <2>13. QED
    BY <1>6, <2>3, <2>4, <2>5, <2>6, <2>7, <2>8, <2>9, <2>10, <2>11, <2>12
    DEF Executes, Runs
<1>7. CASE UNCHANGED <<rows, bytes, workspaces, place, object, status>>
  BY <1>2, <1>7
<1>8. QED
  BY <1>3, <1>4, <1>5, <1>6, <1>7, Steps, ProviderFrame, BeginsFrame,
     TellsFrame, DateFrame, StutterFrame

LEMMA BaseInit == Init => BaseInv
<1>1. Init => TypeOK
  BY TypeInit
<1>2. Init => Storage /\ \A r \in Requests : Recorded(r)
  BY DEF Init, Storage, Recorded
<1>3. QED
  BY <1>1, <1>2 DEF BaseInv

LEMMA BaseStep == BaseInv /\ [Next]_vars => BaseInv'
  BY TypeStep, RecordedStep, StorageStep DEF BaseInv

\* A request whose data is to be deleted never lacks a job that will delete it,
\* unless that job has used up its attempts: the run that finds the request
\* still scheduled asks for no other, but the webhook that comes late enqueues
\* the job again.
THEOREM CondemnedKeepsItsJob == Spec => []CondemnedHasJob
<1>1. BaseInv => CondemnedHasJob
  BY DEF BaseInv, Recorded, CondemnedHasJob
<1>2. QED
  BY <1>1, BaseInit, BaseStep, PTL DEF Spec

\* When a request is deleted nothing of the payer's media is left in storage,
\* although removals fail and executions end between an object and its row.
THEOREM DeletionIsComplete == Spec => []DeletedIsComplete
<1>1. BaseInv => DeletedIsComplete
  BY DEF BaseInv, Storage, DeletedIsComplete
<1>2. QED
  BY <1>1, BaseInit, BaseStep, PTL DEF Spec
-----------------------------------------------------------------------------
(* Subscriptions and their events.                                           *)

\* What a step can do to subscriptions: begin one, end one, or report on one.
LEMMA ProviderEffect ==
  ASSUME TypeOK, [Next]_vars
  PROVE  \/ UNCHANGED <<phase, sent>>
         \/ \E s \in Subs, type \in EventTypes, cancel \in BOOLEAN, term \in Nat :
              /\ Send(type, s, cancel, term)
              /\ \/ phase[s] = "live" /\ type # "cancelled" /\ phase' = phase
                 \/ /\ phase[s] = "live" /\ phase' = [phase EXCEPT ![s] = "ended"]
                    /\ \A c \in Callers : call[c] = Free
                    /\ \A r \in Requests : place[r] = "idle"
                 \/ /\ Subscribe(s) /\ type # "cancelled"
                    /\ phase' = [phase EXCEPT ![s] = "live"]
<1>1. ProviderOK /\ CallOK
  BY TypeParts
<1>2. ASSUME NEW s \in Subs
      PROVE  terms[s] \in Nat /\ terms[s] + 1 \in Nat
  BY <1>1 DEF ProviderOK
<1>3. ASSUME NEW s \in Subs, Subscribe(s)
      PROVE  /\ Send("active", s, FALSE, terms[s])
             /\ phase' = [phase EXCEPT ![s] = "live"]
  BY <1>3 DEF Subscribe
<1>4. ASSUME NEW s \in Subs, ProviderUpdates(s)
      PROVE  /\ phase[s] = "live" /\ phase' = phase
             /\ \E cancel \in BOOLEAN : Send("updated", s, cancel, terms[s])
  BY <1>4 DEF ProviderUpdates, Live
<1>5. ASSUME NEW s \in Subs, TermEnds(s)
      PROVE  /\ phase[s] = "live"
             /\ \A c \in Callers : call[c] = Free
             /\ \A r \in Requests : place[r] = "idle"
             /\ \/ /\ phase' = [phase EXCEPT ![s] = "ended"]
                   /\ Send("cancelled", s, FALSE, terms[s])
                \/ phase' = phase /\ Send("renewed", s, FALSE, terms[s] + 1)
  BY <1>5 DEF TermEnds, Live
<1>6. ASSUME NEW c \in Callers, Tells(c)
      PROVE  \/ UNCHANGED <<phase, sent>>
             \/ \E s \in Subs, cancel \in BOOLEAN :
                  /\ phase[s] = "live" /\ phase' = phase
                  /\ Send("updated", s, cancel, terms[s])
  <2>1. call[c].sub \in Subs /\ phase' = phase
    BY <1>1, <1>6, OpenCall, AtIsOpen, TellsFrame
    DEF Tells, ScheduleTells, ReactivateTells, Operations
  <2>2. QED
    BY <1>6, <2>1
    DEF Tells, ScheduleTells, ReactivateTells, ProviderSets, Live
<1>7. QED
  BY <1>2, <1>3, <1>4, <1>5, <1>6, Steps, DeliverFrame, BeginsFrame,
     WritesFrame, ExecutesFrame, DateFrame, StutterFrame
     DEF ProviderActs, EventTypes

LEMMA SuccessionStep ==
  ASSUME TypeOK, Succession, Overlap = {}, [Next]_vars
  PROVE  Succession'
<1>1. ProviderOK /\ Subs \subseteq Nat
  BY TypeParts, CancellationAssumption
<1>2. CASE UNCHANGED <<phase, sent>>
  BY <1>2 DEF Succession
<1>3. ASSUME NEW s \in Subs, NEW type \in EventTypes, NEW cancel \in BOOLEAN,
             NEW term \in Nat, Send(type, s, cancel, term),
             phase' \in [Subs -> {"new", "live", "ended"}],
             \A u \in Subs \ {s} : phase'[u] = phase[u] /\ phase[u] # "live",
             phase[s] = "new" => \A u \in Subs : u < s => phase[u] # "new",
             phase[s] # "ended", phase'[s] # "new",
             type = "cancelled" => phase'[s] = "ended"
      PROVE  Succession'
  <2>0. sent'[Len(sent) + 1] = Event(type, s, cancel, term)
    BY <1>1, <1>3, SentType
  <2>1. /\ DOMAIN sent' = 1 .. Len(sent) + 1 /\ Len(sent) \in Nat
        /\ DOMAIN sent = 1 .. Len(sent)
        /\ \A i \in DOMAIN sent : i \in DOMAIN sent' /\ sent'[i] = sent[i]
        /\ sent'[Len(sent) + 1].sub = s /\ sent'[Len(sent) + 1].type = type
    <3>1. sent'[Len(sent) + 1].sub = s /\ sent'[Len(sent) + 1].type = type
      BY <2>0 DEF Event
    <3>2. QED
      BY <1>1, <1>3, <3>1, SentType, EventType
  <2>2. \A u, v \in Subs : u # v /\ phase'[v] = "live" => phase'[u] # "live"
    BY <1>3
  <2>3. \A u, v \in Subs : v < u /\ phase'[u] # "new" => phase'[v] # "new"
    BY <1>3 DEF Succession
  <2>4. ASSUME NEW i \in DOMAIN sent'
        PROVE  /\ phase'[sent'[i].sub] # "new"
               /\ sent'[i].type = "cancelled" => phase'[sent'[i].sub] = "ended"
    <3>1. CASE i \in DOMAIN sent
      <4>1. /\ sent'[i] = sent[i] /\ sent[i].sub \in Subs
            /\ phase[sent[i].sub] # "new"
            /\ sent[i].type = "cancelled" => phase[sent[i].sub] = "ended"
        BY <1>1, <2>1, <3>1, EventType DEF Succession
      <4>2. QED
        BY <1>3, <4>1
    <3>2. CASE i = Len(sent) + 1
      BY <1>3, <2>1, <3>2
    <3>3. QED
      BY <2>1, <3>1, <3>2
  <2>5. ASSUME NEW i \in DOMAIN sent', NEW j \in DOMAIN sent',
               phase'[sent'[j].sub] = "live", sent'[i].sub # sent'[j].sub
        PROVE  i < j
    <3>1. CASE i \in DOMAIN sent /\ j \in DOMAIN sent
      <4>1. /\ sent[i].sub \in Subs /\ sent[j].sub \in Subs
            /\ sent'[i] = sent[i] /\ sent'[j] = sent[j]
            /\ phase[sent[j].sub] # "new"
        BY <1>1, <2>1, <3>1, EventType DEF Succession
      <4>2. phase[sent[j].sub] = "live"
        <5>1. phase \in [Subs -> {"new", "live", "ended"}]
          BY <1>1 DEF ProviderOK
        <5>2. QED
          BY <1>3, <2>5, <4>1, <5>1
      <4>3. QED
        BY <2>5, <3>1, <4>1, <4>2 DEF Succession
    <3>2. CASE i \in DOMAIN sent /\ j = Len(sent) + 1
      BY <2>1, <3>2
    <3>3. CASE i = Len(sent) + 1 /\ j \in DOMAIN sent
      \* The new event is about the only subscription that may be live.
      <4>1. /\ sent[j].sub \in Subs /\ sent'[j] = sent[j] /\ sent'[i].sub = s
            /\ phase'[sent[j].sub] = "live" /\ sent[j].sub # s
        BY <1>1, <2>1, <2>5, <3>3, EventType
      <4>2. QED
        BY <1>3, <4>1
    <3>4. CASE i = Len(sent) + 1 /\ j = Len(sent) + 1
      BY <2>5, <3>4
    <3>5. QED
      BY <2>1, <3>1, <3>2, <3>3, <3>4
  <2>6. QED
    BY <2>2, <2>3, <2>4, <2>5 DEF Succession
<1>4. ASSUME NEW s \in Subs, NEW type \in EventTypes, NEW cancel \in BOOLEAN,
             NEW term \in Nat, Send(type, s, cancel, term)
      PROVE  /\ phase[s] = "live" /\ type # "cancelled" /\ phase' = phase
                => Succession'
             /\ phase[s] = "live" /\ phase' = [phase EXCEPT ![s] = "ended"]
                => Succession'
             /\ /\ Subscribe(s) /\ type # "cancelled"
                /\ phase' = [phase EXCEPT ![s] = "live"]
                => Succession'
  <2>1. phase \in [Subs -> {"new", "live", "ended"}]
    BY <1>1 DEF ProviderOK
  <2>2. ASSUME phase[s] = "live", type # "cancelled", phase' = phase
        PROVE  Succession'
    <3>1. \A u \in Subs \ {s} : phase[u] # "live"
      BY <2>2 DEF Succession
    <3>2. QED
      BY <1>3, <1>4, <2>1, <2>2, <3>1
  <2>3. ASSUME phase[s] = "live", phase' = [phase EXCEPT ![s] = "ended"]
        PROVE  Succession'
    <3>1. \A u \in Subs \ {s} : phase[u] # "live" /\ phase'[u] = phase[u]
      BY <2>1, <2>3 DEF Succession
    <3>2. phase' \in [Subs -> {"new", "live", "ended"}] /\ phase'[s] = "ended"
      BY <2>1, <2>3
    <3>3. QED
      BY <1>3, <1>4, <2>3, <3>1, <3>2
  <2>4. ASSUME Subscribe(s), type # "cancelled",
               phase' = [phase EXCEPT ![s] = "live"]
        PROVE  Succession'
    <3>1. /\ phase[s] = "new" /\ \A u \in Subs : u < s => phase[u] # "new"
          /\ \A u \in Subs : phase[u] # "live"
      BY <2>4 DEF Subscribe, Live
    <3>2. /\ phase' \in [Subs -> {"new", "live", "ended"}] /\ phase'[s] = "live"
          /\ \A u \in Subs \ {s} : phase'[u] = phase[u]
      BY <2>1, <2>4
    <3>3. QED
      BY <1>3, <1>4, <2>4, <3>1, <3>2
  <2>5. QED
    BY <2>2, <2>3, <2>4
<1>5. QED
  BY <1>2, <1>4, ProviderEffect
-----------------------------------------------------------------------------
(* The account, and what callers have read of it.                            *)

\* The phases of the subscriptions after a step.
LEMMA PhaseStep ==
  ASSUME TypeOK, Succession, Overlap = {}, [Next]_vars
  PROVE  /\ \A s \in Subs :
              /\ phase[s] = "ended" => phase'[s] = "ended"
              /\ phase[s] # "new" => phase'[s] # "new"
              /\ phase[s] # "new" /\ phase'[s] = "live" => phase[s] = "live"
         /\ UNCHANGED phase \/ UNCHANGED <<account, until, call, claimed, place,
                                         status, due>>
<1>1. ProviderOK
  BY TypeParts
<1>2. UNCHANGED phase \/ \E s \in Subs : ProviderActs(s)
  BY Steps, DeliverFrame, BeginsFrame, TellsFrame, WritesFrame, ExecutesFrame,
     DateFrame, StutterFrame
<1>3. \/ UNCHANGED phase
      \/ \E s \in Subs : /\ phase[s] = "live"
                         /\ phase' = [phase EXCEPT ![s] = "ended"]
      \/ \E s \in Subs : /\ phase[s] = "new"
                         /\ phase' = [phase EXCEPT ![s] = "live"]
  BY ProviderEffect DEF Subscribe
<1>4. QED
  BY <1>1, <1>2, <1>3, ProviderFrame DEF ProviderOK

StillCurrent(s) ==
  \/ phase'[s] = "ended"
  \/ phase'[s] = "live" /\ account'.sub = s

\* What was current stays so: an event of another subscription that would change
\* it is stale.
LEMMA CurrentStep ==
  ASSUME TypeOK, Succession, Accounts, Overlap = {}, [Next]_vars,
         NEW s \in Subs, Current(s)
  PROVE  StillCurrent(s)
<1>1. ProviderOK /\ WebhookOK /\ CallOK
  BY TypeParts
<1>2. phase[s] = "ended" => phase'[s] = "ended"
  BY PhaseStep
<1>3. CASE phase[s] = "ended"
  BY <1>2, <1>3 DEF Current, StillCurrent
<1>4. CASE phase[s] = "live" /\ account.sub = s
  <2>1. ASSUME NEW i \in DOMAIN sent, Deliver(i) PROVE StillCurrent(s)
    <3>1. phase' = phase
      BY <2>1, DeliverFrame
    <3>2. CASE account' = account
      BY <1>4, <3>1, <3>2 DEF Current, StillCurrent
    <3>3. CASE ~IsStale(i) /\ account'.sub = sent[i].sub
      <4>1. i \in Nat /\ account.at \in Nat
        BY <1>1, EventType DEF WebhookOK
      <4>2. ~(i < account.at)
        BY <3>3 DEF IsStale
      <4>3. sent[i].sub = s
        BY <1>4, <4>1, <4>2 DEF Accounts
      <4>4. QED
        BY <1>4, <3>1, <3>3, <4>3 DEF Current, StillCurrent
    <3>4. QED
      BY <2>1, <3>2, <3>3 DEF Deliver, Applies
  <2>2. CASE UNCHANGED <<account, phase>>
    BY <1>4, <2>2 DEF Current, StillCurrent
  <2>3. CASE UNCHANGED account /\ phase'[s] \in {"live", "ended"}
    BY <1>4, <2>3 DEF Current, StillCurrent
  <2>4. ASSUME NEW u \in Subs, ProviderActs(u) PROVE StillCurrent(s)
    <3>1. phase'[s] # "new" /\ phase'[s] \in {"new", "live", "ended"}
      <4>1. ProviderOK'
        BY ProviderTyped
      <4>2. QED
        BY <1>4, <4>1, PhaseStep DEF ProviderOK
    <3>2. QED
      BY <2>3, <2>4, <3>1, ProviderFrame
  <2>5. QED
    BY <2>1, <2>2, <2>4, Steps, BeginsFrame, TellsFrame, WritesFrame,
       ExecutesFrame, DateFrame, StutterFrame
<1>5. QED
  BY <1>3, <1>4 DEF Current, StillCurrent

\* The account that is about a live subscription makes the events of all others
\* stale.
LEMMA AccountStep ==
  ASSUME TypeOK, Succession, Accounts, Overlap = {}, [Next]_vars
  PROVE  /\ phase'[account'.sub] # "new"
         /\ phase'[account'.sub] = "live" =>
              \A i \in DOMAIN sent' :
                sent'[i].sub # account'.sub => i < account'.at
<1>1. ProviderOK /\ WebhookOK /\ account.sub \in Subs /\ account.at \in Nat
  BY TypeParts DEF WebhookOK
<1>2. ASSUME NEW i \in DOMAIN sent, Deliver(i)
      PROVE  /\ phase'[account'.sub] # "new"
             /\ phase'[account'.sub] = "live" =>
                  \A j \in DOMAIN sent' :
                    sent'[j].sub # account'.sub => j < account'.at
  <2>1. UNCHANGED <<phase, sent>>
    BY <1>2, DeliverFrame
  <2>2. CASE account' = account
    BY <2>1, <2>2 DEF Accounts
  <2>3. CASE account'.sub = sent[i].sub /\ account'.at = i
    BY <2>1, <2>3 DEF Succession
  <2>4. QED
    BY <1>2, <2>2, <2>3 DEF Deliver, Applies
<1>3. CASE UNCHANGED <<phase, sent, account>>
  BY <1>3 DEF Accounts
<1>4. CASE account' = account
  <2>1. phase[account.sub] # "new" /\ phase'[account.sub] # "new"
    BY <1>1, PhaseStep DEF Accounts
  <2>2. ASSUME phase'[account.sub] = "live", NEW i \in DOMAIN sent',
               sent'[i].sub # account.sub
        PROVE  i < account.at
    <3>1. phase[account.sub] = "live"
      BY <1>1, <2>1, <2>2, PhaseStep
    <3>2. CASE i \in DOMAIN sent /\ sent'[i] = sent[i]
      BY <2>2, <3>1, <3>2 DEF Accounts
    <3>3. ASSUME NEW s \in Subs, NEW type \in EventTypes, NEW cancel \in BOOLEAN,
                 NEW term \in Nat, Send(type, s, cancel, term), s = account.sub
          PROVE  i < account.at
      <4>1. sent'[Len(sent) + 1] = Event(type, s, cancel, term)
        BY <1>1, <3>3, SentType
      <4>2. i # Len(sent) + 1
        BY <2>2, <3>3, <4>1 DEF Event
      <4>3. /\ DOMAIN sent' = 1 .. Len(sent) + 1 /\ DOMAIN sent = 1 .. Len(sent)
            /\ \A j \in DOMAIN sent : sent'[j] = sent[j]
            /\ Len(sent) \in Nat
        BY <1>1, <3>3, SentType, EventType
      <4>4. QED
        BY <2>2, <3>2, <4>2, <4>3
    <3>4. ASSUME NEW s \in Subs, phase[s] = "live" PROVE s = account.sub
      BY <1>1, <3>1, <3>4 DEF Succession
    <3>5. ASSUME NEW s \in Subs PROVE ~Subscribe(s)
      BY <1>1, <3>1 DEF Subscribe, Live
    <3>6. QED
      BY <2>2, <3>2, <3>3, <3>4, <3>5, ProviderEffect
  <2>3. QED
    BY <1>4, <2>1, <2>2
<1>5. QED
  BY <1>2, <1>4, Steps, ProviderFrame, BeginsFrame, TellsFrame, WritesFrame,
     ExecutesFrame, DateFrame, StutterFrame

LEMMA AccountsStep ==
  ASSUME TypeOK, Succession, Accounts, Overlap = {}, [Next]_vars
  PROVE  Accounts'
<1>1. ProviderOK /\ WebhookOK /\ RequestOK /\ CallOK /\ account.sub \in Subs
  BY TypeParts DEF WebhookOK
<1>2. Current(account.sub)
  BY <1>1 DEF Accounts, Current, ProviderOK
<1>3. ASSUME NEW r \in Requests, until'[r] # NoDate
      PROVE  StillCurrent(until'[r].sub)
  <2>1. CASE until'[r] = until[r]
    <3>1. until[r] \in Terms
      BY <1>1, <1>3, <2>1 DEF RequestOK
    <3>2. until[r].sub \in Subs /\ Current(until[r].sub)
      BY <1>3, <2>1, <3>1 DEF Accounts, Terms
    <3>3. StillCurrent(until[r].sub)
      BY <3>2, CurrentStep
    <3>4. QED
      BY <2>1, <3>3
  <2>2. ASSUME NEW c \in Callers, Scheduled(c), At(c, "agreed"), r = call[c].req
        PROVE  StillCurrent(until'[r].sub)
    <3>1. call[c].sub \in Subs /\ Current(call[c].sub)
      BY <1>1, <2>2, OpenCall, AtIsOpen DEF Accounts, Operations
    <3>2. StillCurrent(call[c].sub)
      BY <3>1, CurrentStep
    <3>3. until'[r].sub = call[c].sub
      BY <1>1, <2>2 DEF Scheduled, RequestOK
    <3>4. QED
      BY <3>2, <3>3
  <2>3. until'[r] = until[r] \/ \E c \in Callers :
          Scheduled(c) /\ At(c, "agreed") /\ r = call[c].req
    <3>1. ASSUME NEW i \in DOMAIN sent, Deliver(i) PROVE until'[r] = until[r]
      BY <1>1, <1>3, <3>1 DEF Deliver, Applies, GoesOn, RequestOK
    <3>2. ASSUME NEW c \in Callers, Writes(c) PROVE until'[r] = until[r]
      BY <1>1, <1>3, <3>2
      DEF Writes, StartWrites, AcceptCredits, AcceptWrites, ReactivateWrites,
          CalendarWrites, requestVars, RequestOK
    <3>3. ASSUME NEW c \in Callers, ScheduleWrites(c)
          PROVE  \/ until'[r] = until[r]
                 \/ Scheduled(c) /\ At(c, "agreed") /\ r = call[c].req
      BY <1>1, <1>3, <3>3 DEF ScheduleWrites, Scheduled, RequestOK
    <3>4. ASSUME NEW q \in Requests, Abandon(q) PROVE until' = until
      BY <3>4 DEF Abandon
    <3>5. QED
      BY <3>1, <3>2, <3>3, <3>4, Steps, ProviderFrame, BeginsFrame, TellsFrame,
         ExecutesFrame, DateFrame, StutterFrame
  <2>4. QED
    BY <2>1, <2>2, <2>3
<1>4. ASSUME NEW c \in Callers, call'[c] # Free
      PROVE  /\ StillCurrent(call'[c].sub)
             /\ call'[c].op = "agreed" => phase'[call'[c].sub] = "live"
  <2>1. CASE call'[c] = call[c]
    <3>1. /\ call[c].sub \in Subs /\ Current(call[c].sub)
          /\ call[c].op = "agreed" => phase[call[c].sub] = "live"
      BY <1>1, <1>4, <2>1, OpenCall DEF Accounts
    <3>2. StillCurrent(call[c].sub)
      BY <3>1, CurrentStep
    <3>3. phase[call[c].sub] = "live" => phase'[call[c].sub] = "live"
      BY <1>1, <1>4, <2>1, <3>1, ProviderEffect DEF ProviderOK
    <3>4. QED
      BY <2>1, <3>1, <3>2, <3>3
  <2>2. ASSUME NEW op \in Operations \ {"agreed"}, NEW r \in Requests,
               Calls(c, op, r)
        PROVE  /\ StillCurrent(call'[c].sub)
               /\ call'[c].op = "agreed" => phase'[call'[c].sub] = "live"
    <3>1. call'[c].sub = account.sub /\ call'[c].op = op
      BY <1>1, <2>2 DEF Calls, CallOK
    <3>2. StillCurrent(account.sub)
      BY <1>1, <1>2, CurrentStep
    <3>3. QED
      BY <3>1, <3>2
  <2>3. ASSUME NEW op \in Operations, call[c] # Free, Goes(c, op), phase' = phase,
               op = "agreed" => phase[call[c].sub] = "live"
        PROVE  /\ StillCurrent(call'[c].sub)
               /\ call'[c].op = "agreed" => phase'[call'[c].sub] = "live"
    <3>1. /\ call[c] \in [op : Operations, req : Requests, sub : Subs, term : Nat]
          /\ call[c].sub \in Subs /\ Current(call[c].sub)
      BY <1>1, <2>3, OpenCall DEF Accounts
    <3>2. call'[c].sub = call[c].sub /\ call'[c].op = op
      BY <1>1, <2>3, <3>1 DEF Goes, CallOK
    <3>3. StillCurrent(call[c].sub)
      BY <3>1, CurrentStep
    <3>4. QED
      BY <2>3, <3>2, <3>3
  <2>4. \/ call'[c] = call[c]
        \/ \E op \in Operations \ {"agreed"}, r \in Requests : Calls(c, op, r)
        \/ \E op \in Operations :
             /\ call[c] # Free /\ Goes(c, op) /\ phase' = phase
             /\ op = "agreed" => phase[call[c].sub] = "live"
    <3>1. ASSUME NEW d \in Callers, CallBegins(d)
          PROVE  \E op \in Operations \ {"agreed"}, r \in Requests : Calls(d, op, r)
      BY <3>1 DEF CallBegins, StartReads, AcceptReads, ScheduleReads,
                  ReactivateReads, CalendarReads, Operations
    <3>2. ASSUME NEW d \in Callers, Tells(d)
          PROVE  \/ Returns(d)
                 \/ \E op \in Operations :
                      /\ call[d] # Free /\ Goes(d, op) /\ phase' = phase
                      /\ op = "agreed" => phase[call[d].sub] = "live"
      <4>1. call[d] # Free /\ phase' = phase
        BY <3>2, AtIsOpen, TellsFrame
        DEF Tells, ScheduleTells, ReactivateTells, Operations
      <4>2. QED
        BY <3>2, <4>1
        DEF Tells, ScheduleTells, ReactivateTells, ProviderSets, Live, Operations
    <3>3. ASSUME NEW d \in Callers, Writes(d) \/ ScheduleWrites(d)
          PROVE  \/ Returns(d)
                 \/ /\ call[d] # Free /\ Goes(d, "credited") /\ phase' = phase
      <4>1. CASE AcceptCredits(d)
        BY <4>1, AtIsOpen DEF AcceptCredits, CallFrame, Operations
      <4>2. QED
        BY <3>3, <4>1 DEF Writes, StartWrites, AcceptWrites, ReactivateWrites,
                          CalendarWrites, ScheduleWrites
    <3>4. ASSUME NEW d \in Callers, d # c,
                 \/ Returns(d)
                 \/ \E op \in Operations : Goes(d, op)
                 \/ \E op \in Operations, r \in Requests : Calls(d, op, r)
          PROVE  call'[c] = call[c]
      BY <1>1, <3>4 DEF Returns, Goes, Calls, CallOK
    <3>5. ~Returns(c)
      BY <1>1, <1>4 DEF Returns, CallOK
    <3>6. ASSUME NEW d \in Callers, CallDies(d) PROVE Returns(d)
      BY <3>6 DEF CallDies
    <3>7. "credited" \in Operations
      BY DEF Operations
    <3>8. CASE UNCHANGED call
      BY <3>8
    <3>9. ASSUME NEW d \in Callers, \/ CallBegins(d) \/ CallDies(d) \/ Tells(d)
                                    \/ Writes(d) \/ ScheduleWrites(d)
          PROVE  \/ call'[c] = call[c]
                 \/ \E op \in Operations \ {"agreed"}, r \in Requests :
                      Calls(c, op, r)
                 \/ \E op \in Operations :
                      /\ call[c] # Free /\ Goes(c, op) /\ phase' = phase
                      /\ op = "agreed" => phase[call[c].sub] = "live"
      <4>1. CASE d = c
        BY <3>1, <3>2, <3>3, <3>5, <3>6, <3>7, <3>9, <4>1
      <4>2. CASE d # c
        BY <3>1, <3>2, <3>3, <3>4, <3>6, <3>7, <3>9, <4>2
      <4>3. QED
        BY <4>1, <4>2
    <3>10. ASSUME NEW r \in Requests, Abandon(r) PROVE UNCHANGED call
      BY <3>10 DEF Abandon
    <3>11. QED
      BY <3>8, <3>9, <3>10, Steps, ProviderFrame, DeliverFrame, ExecutesFrame,
         DateFrame, StutterFrame
  <2>5. QED
    BY <2>1, <2>2, <2>3, <2>4
<1>5. QED
  BY <1>3, <1>4, AccountStep DEF Accounts, Current, StillCurrent
-----------------------------------------------------------------------------
(* What can happen to a request.                                             *)

Writable == {"none", "open", "call_booked", "offer_accepted"}

LEMMA StatusStep ==
  ASSUME TypeOK, [Next]_vars, NEW q \in Requests
  PROVE  \/ UNCHANGED status \/ status'[q] = status[q]
         \/ \E c \in Writers(q) :
              \/ status'[q] \in {"open", "offer_accepted", "call_booked"}
              \/ /\ status'[q] = "scheduled" /\ At(c, "agreed")
                 /\ until'[q].sub = call[c].sub /\ phase' = phase
         \/ status[q] \in Writable /\ status'[q] = "abandoned"
         \/ /\ status[q] = "scheduled" /\ status'[q] = "effective"
            /\ until' = until /\ phase' = phase
            /\ \E i \in DOMAIN sent : ~IsStale(i) /\ sent[i].type = "cancelled"
         \/ /\ status[q] \in {"scheduled", "effective", "deleting"}
            /\ status'[q] = "reactivated"
         \/ /\ status[q] = "effective" /\ status'[q] = "deleting"
            /\ place[q] = "mark" /\ place'[q] = "list"
         \/ /\ status[q] = "deleting" /\ status'[q] = "deleted"
            /\ place[q] = "commit" /\ place'[q] = "notify"
<1>1. RequestOK /\ CallOK /\ RunOK
  BY TypeParts
<1>2. ASSUME NEW i \in DOMAIN sent, Deliver(i), status'[q] # status[q]
      PROVE  \/ /\ status[q] = "scheduled" /\ status'[q] = "effective"
                /\ until' = until /\ phase' = phase
                /\ ~IsStale(i) /\ sent[i].type = "cancelled"
             \/ /\ status[q] \in {"scheduled", "effective", "deleting"}
                /\ status'[q] = "reactivated"
  BY <1>1, <1>2, DeliverFrame
  DEF Deliver, Applies, Ends, GoesOn, Restores, RequestOK
<1>3. ASSUME NEW c \in Callers, Writes(c) \/ ScheduleWrites(c),
             status'[q] # status[q]
      PROVE  \/ /\ c \in Writers(q)
                /\ \/ status'[q] \in {"open", "offer_accepted", "call_booked"}
                   \/ /\ status'[q] = "scheduled" /\ At(c, "agreed")
                      /\ until'[q].sub = call[c].sub /\ phase' = phase
             \/ status[q] = "scheduled" /\ status'[q] = "reactivated"
  <2>1. call[c] # Free
    BY <1>3, AtIsOpen
    DEF Writes, StartWrites, AcceptCredits, AcceptWrites, ReactivateWrites,
        CalendarWrites, ScheduleWrites, Operations
  <2>2. CASE StartWrites(c)
    BY <1>1, <1>3, <2>1, <2>2 DEF StartWrites, At, Writers, RequestOK
  <2>3. CASE AcceptCredits(c)
    BY <1>3, <2>3 DEF AcceptCredits, requestVars
  <2>4. CASE AcceptWrites(c)
    BY <1>1, <1>3, <2>1, <2>4 DEF AcceptWrites, At, Writers, RequestOK
  <2>5. CASE ReactivateWrites(c)
    BY <1>1, <1>3, <2>1, <2>5 DEF ReactivateWrites, RequestOK
  <2>6. CASE CalendarWrites(c)
    BY <1>1, <1>3, <2>1, <2>6 DEF CalendarWrites, At, Writers, RequestOK
  <2>7. CASE ScheduleWrites(c)
    <3>1. phase' = phase
      BY <2>7, WritesFrame
    <3>2. QED
      BY <1>1, <1>3, <2>1, <2>7, <3>1
      DEF ScheduleWrites, Scheduled, At, Writers, RequestOK
  <2>8. QED
    BY <1>3, <2>2, <2>3, <2>4, <2>5, <2>6, <2>7 DEF Writes
<1>4. ASSUME NEW r \in Requests, Abandon(r), status'[q] # status[q]
      PROVE  status[q] \in Writable /\ status'[q] = "abandoned"
  BY <1>1, <1>4 DEF Abandon, Writable, RequestOK
<1>5. ASSUME NEW r \in Requests, Executes(r), status'[q] # status[q]
      PROVE  \/ /\ status[q] = "effective" /\ status'[q] = "deleting"
                /\ place[q] = "mark" /\ place'[q] = "list"
             \/ /\ status[q] = "deleting" /\ status'[q] = "deleted"
                /\ place[q] = "commit" /\ place'[q] = "notify"
  <2>1. CASE Mark(r)
    BY <1>1, <1>5, <2>1 DEF Mark, MovesTo, RequestOK, RunOK
  <2>2. CASE Commit(r)
    BY <1>1, <1>5, <2>2
    DEF Commit, DeletesWorkspaces, IsDeleting, MovesTo, RequestOK, RunOK
  <2>3. CASE UNCHANGED status
    BY <1>5, <2>3
  <2>4. QED
    BY <1>5, <2>1, <2>2, <2>3
    DEF Executes, Runs, LoadsNothing, Loads, List, Check, Remove, Forget, Last,
        Notify, Throws, Stays
<1>6. QED
  BY <1>2, <1>3, <1>4, <1>5, Steps, ProviderFrame, BeginsFrame, TellsFrame,
     DateFrame, StutterFrame

\* A date is set when the request is scheduled, and taken away when it is taken
\* back.
LEMMA UntilStep ==
  ASSUME TypeOK, [Next]_vars, NEW q \in Requests
  PROVE  \/ until'[q] = until[q] /\ (q \in due => q \in due')
         \/ until'[q] = NoDate /\ (q \in due => q \in due')
         \/ \E c \in Callers : /\ At(c, "agreed") /\ call[c] # Free
                               /\ call[c].req = q /\ phase' = phase
                               /\ until'[q].sub = call[c].sub
<1>1. RequestOK /\ CallOK
  BY TypeParts
<1>2. ASSUME NEW i \in DOMAIN sent, Deliver(i)
      PROVE  until'[q] \in {until[q], NoDate} /\ due' = due
  BY <1>1, <1>2, DeliverFrame DEF Deliver, Applies, GoesOn, RequestOK
<1>3. ASSUME NEW c \in Callers, Writes(c)
      PROVE  until'[q] \in {until[q], NoDate} /\ due' = due
  BY <1>1, <1>3
  DEF Writes, StartWrites, AcceptCredits, AcceptWrites, ReactivateWrites,
      CalendarWrites, requestVars, RequestOK
<1>4. ASSUME NEW c \in Callers, ScheduleWrites(c)
      PROVE  \/ until'[q] = until[q] /\ (q \in due => q \in due')
             \/ /\ At(c, "agreed") /\ call[c] # Free
                /\ call[c].req = q /\ phase' = phase
                /\ until'[q].sub = call[c].sub
  <2>1. At(c, "agreed") /\ call[c] # Free /\ phase' = phase
    BY <1>4, AtIsOpen, WritesFrame DEF ScheduleWrites, Operations
  <2>2. QED
    BY <1>1, <1>4, <2>1 DEF ScheduleWrites, Scheduled, RequestOK
<1>5. ASSUME NEW r \in Requests, Abandon(r) PROVE UNCHANGED <<until, due>>
  BY <1>5 DEF Abandon
<1>6. ASSUME NEW r \in Requests, DatePasses(r)
      PROVE  until' = until /\ (q \in due => q \in due')
  BY <1>6, DateFrame DEF DatePasses
<1>7. QED
  BY <1>2, <1>3, <1>4, <1>5, <1>6, Steps, ProviderFrame, BeginsFrame,
     TellsFrame, ExecutesFrame, StutterFrame

\* No call that could write to a request begins once it is scheduled.
LEMMA WritersStep ==
  ASSUME TypeOK, [Next]_vars, NEW q \in Requests, Writers(q) = {},
         status[q] \notin Writable
  PROVE  Writers(q)' = {}
<1>1. CallOK
  BY TypeParts
<1>2. ASSUME NEW d \in Callers, CallBegins(d)
      PROVE  \E op \in Operations, r \in Requests :
               /\ Calls(d, op, r)
               /\ r = q => op = "reactivate"
  BY <1>2 DEF CallBegins, StartReads, AcceptReads, ScheduleReads,
              ReactivateReads, CalendarReads, Operations, Writable
<1>3. ASSUME NEW d \in Callers, NEW op \in Operations, NEW r \in Requests,
             Calls(d, op, r), r = q => op = "reactivate"
      PROVE  Writers(q)' = {}
  <2>1. call'[d].req = r /\ call'[d].op = op
    BY <1>1, <1>3 DEF Calls, CallOK
  <2>2. \A c \in Callers \ {d} : call'[c] = call[c]
    BY <1>1, <1>3 DEF Calls, CallOK
  <2>3. QED
    BY <1>3, <2>1, <2>2 DEF Writers
<1>4. ASSUME NEW d \in Callers, Returns(d) PROVE Writers(q)' = {}
  BY <1>1, <1>4 DEF Returns, Writers, CallOK
<1>5. ASSUME NEW d \in Callers, NEW op \in Operations, call[d] # Free,
             Goes(d, op), call[d].op \in {"reactivate", "undone"} => op = "undone"
      PROVE  Writers(q)' = {}
  <2>1. call[d] \in [op : Operations, req : Requests, sub : Subs, term : Nat]
    BY <1>1, <1>5, OpenCall
  <2>2. call'[d].req = call[d].req /\ call'[d].op = op
    BY <1>1, <1>5, <2>1 DEF Goes, CallOK
  <2>3. \A c \in Callers \ {d} : call'[c] = call[c]
    BY <1>1, <1>5 DEF Goes, CallOK
  <2>4. QED
    BY <1>5, <2>2, <2>3 DEF Writers
<1>6. CASE UNCHANGED call
  BY <1>6 DEF Writers
<1>7. ASSUME NEW d \in Callers, Tells(d) PROVE Writers(q)' = {}
  <2>1. call[d] # Free
    BY <1>7, AtIsOpen DEF Tells, ScheduleTells, ReactivateTells, Operations
  <2>2. QED
    BY <1>4, <1>5, <1>7, <2>1
    DEF Tells, ScheduleTells, ReactivateTells, At, Operations
<1>8. ASSUME NEW d \in Callers, Writes(d) \/ ScheduleWrites(d)
      PROVE  Writers(q)' = {}
  <2>1. CASE AcceptCredits(d)
    <3>1. call[d] # Free /\ call[d].op = "accept" /\ Goes(d, "credited")
      BY <2>1, AtIsOpen DEF AcceptCredits, At, Operations
    <3>2. QED
      BY <1>5, <3>1 DEF Operations
  <2>2. CASE ~AcceptCredits(d)
    BY <1>4, <1>8, <2>2
    DEF Writes, StartWrites, AcceptWrites, ReactivateWrites, CalendarWrites,
        ScheduleWrites
  <2>3. QED
    BY <2>1, <2>2
<1>9. ASSUME NEW d \in Callers, CallDies(d) PROVE Writers(q)' = {}
  BY <1>4, <1>9 DEF CallDies
<1>10. ASSUME NEW r \in Requests, Abandon(r) PROVE UNCHANGED call
  BY <1>10 DEF Abandon
<1>11. ASSUME NEW d \in Callers, CallBegins(d) PROVE Writers(q)' = {}
  BY <1>2, <1>3, <1>11
<1>12. QED
  BY <1>6, <1>7, <1>8, <1>9, <1>10, <1>11, Steps, ProviderFrame, DeliverFrame,
     ExecutesFrame, DateFrame, StutterFrame
-----------------------------------------------------------------------------
(* Deletion is justified, and loses little.                                  *)

\* A request becomes due to a subscription that has ended only when a term ends,
\* and then neither a call nor an execution is under way.
LEMMA HasEndedStep ==
  ASSUME TypeOK, Succession, Accounts, Overlap = {}, [Next]_vars,
         NEW q \in Requests, HasEnded(q)'
  PROVE  /\ until'[q] = until[q] /\ (q \in due => q \in due')
         /\ \/ HasEnded(q)
            \/ /\ \A c \in Callers : call[c] = Free
               /\ \A r \in Requests : place[r] = "idle"
               /\ UNCHANGED <<call, place, status>>
<1>1. ProviderOK /\ RequestOK /\ CallOK
  BY TypeParts
<1>2. until'[q] # NoDate /\ phase'[until'[q].sub] = "ended"
  BY DEF HasEnded
<1>3. until'[q] = until[q] /\ (q \in due => q \in due')
  <2>1. ASSUME NEW c \in Callers, At(c, "agreed"), call[c] # Free,
               phase' = phase, until'[q].sub = call[c].sub
        PROVE  FALSE
    BY <1>2, <2>1 DEF At, Accounts
  <2>2. QED
    BY <1>2, <2>1, UntilStep
<1>4. until[q].sub \in Subs
  BY <1>1, <1>2, <1>3 DEF RequestOK, Terms
<1>5. CASE phase' = phase
  BY <1>2, <1>3, <1>5 DEF HasEnded
<1>6. CASE phase' # phase
  <2>1. UNCHANGED <<call, place, status>>
    BY <1>6, PhaseStep
  <2>2. CASE phase[until[q].sub] = "ended"
    BY <1>2, <1>3, <2>2 DEF HasEnded
  <2>3. CASE phase[until[q].sub] # "ended"
    <3>1. ASSUME NEW s \in Subs, phase' = [phase EXCEPT ![s] = "live"]
          PROVE  FALSE
      BY <1>1, <1>2, <1>3, <1>4, <2>3, <3>1 DEF ProviderOK
    <3>2. /\ \A c \in Callers : call[c] = Free
          /\ \A r \in Requests : place[r] = "idle"
      BY <1>6, <3>1, ProviderEffect
    <3>3. QED
      BY <1>3, <2>1, <3>2
  <2>4. QED
    BY <2>2, <2>3
<1>7. QED
  BY <1>3, <1>5, <1>6

LEMMA JustifiedStep ==
  ASSUME BaseInv, Succession, Accounts, Overlap = {}, [Next]_vars,
         NEW q \in Requests, Justified(q)
  PROVE  Justified(q)'
<1>1. /\ ProviderOK /\ WebhookOK /\ RequestOK /\ CallOK /\ RunOK
      /\ TypeOK /\ Recorded(q) /\ Recorded(q)'
  BY TypeParts, BaseStep DEF BaseInv
<1>2. status[q] \in {"scheduled", "effective", "deleting", "deleted"} =>
        status[q] \notin Writable
  BY DEF Writable
<1>3. status'[q] \in {"effective", "deleting", "deleted"} => HasEnded(q)'
  <2>1. CASE HasEnded(q) /\ status'[q] \in {"effective", "deleting", "deleted"}
    <3>1. until[q].sub \in Subs /\ until[q] # NoDate
      BY <1>1, <2>1 DEF HasEnded, RequestOK, Terms
    <3>2. until'[q] = until[q]
      <4>1. ASSUME NEW c \in Callers, At(c, "agreed"), call[c] # Free,
                   call[c].req = q
            PROVE  c \in Writers(q)
        BY <4>1 DEF At, Writers
      <4>2. status[q] \in {"scheduled", "effective", "deleting", "deleted"}
        BY <1>1, <2>1, StatusStep
      <4>3. Writers(q) = {}
        BY <2>1, <4>2 DEF Justified
      <4>4. until'[q] # NoDate
        BY <1>1, <2>1 DEF Recorded
      <4>5. QED
        BY <1>1, <4>1, <4>3, <4>4, UntilStep
    <3>3. phase'[until[q].sub] = "ended"
      BY <1>1, <2>1, <3>1, PhaseStep DEF HasEnded
    <3>4. QED
      BY <3>1, <3>2, <3>3 DEF HasEnded
  <2>2. CASE ~HasEnded(q) /\ status'[q] \in {"effective", "deleting", "deleted"}
    <3>1. status[q] \notin {"effective", "deleting", "deleted"}
      BY <2>2 DEF Justified
    <3>2. PICK i \in DOMAIN sent : ~IsStale(i) /\ sent[i].type = "cancelled"
      BY <1>1, <2>2, <3>1, StatusStep
    <3>3. status[q] = "scheduled" /\ until' = until /\ phase' = phase
      BY <1>1, <2>2, <3>1, StatusStep
    <3>4. until[q] # NoDate /\ until[q].sub \in Subs
      BY <1>1, <3>3 DEF Recorded, RequestOK, Terms
    <3>5. i \in Nat /\ account.at \in Nat /\ ~(i < account.at)
      BY <1>1, <3>2, EventType DEF IsStale, WebhookOK
    <3>6. phase[sent[i].sub] = "ended"
      BY <3>2 DEF Succession
    <3>7. phase[until[q].sub] = "ended"
      BY <3>4, <3>5, <3>6 DEF Accounts, Current
    <3>8. QED
      BY <2>2, <3>4, <3>7 DEF HasEnded
  <2>3. QED
    BY <2>1, <2>2
<1>4. place'[q] = "mark" /\ HasEnded(q)' => q \in due'
  <2>1. SUFFICES ASSUME place'[q] = "mark", HasEnded(q)' PROVE q \in due'
    OBVIOUS
  <2>2. CASE place[q] = "mark"
    BY <1>1, <2>1, <2>2, HasEndedStep DEF Justified
  <2>3. CASE place[q] # "mark"
    <3>1. PICK r \in Requests : Executes(r)
      BY <2>1, <2>3, Steps, ProviderFrame, DeliverFrame, BeginsFrame,
         TellsFrame, WritesFrame, DateFrame, StutterFrame
    <3>2. Loads(r) /\ r = q
      BY <1>1, <2>1, <2>3, <3>1
      DEF Executes, Runs, LoadsNothing, Loads, Mark, List, Check, Remove, Forget,
          Last, Commit, Notify, Throws, Finishes, MovesTo, RunOK
    <3>3. q \in due
      BY <1>1, <2>1, <3>2 DEF Loads, MovesTo, RunOK
    <3>4. QED
      BY <3>1, <3>3, ExecutesFrame
  <2>4. QED
    BY <2>2, <2>3
<1>5. status'[q] \in {"deleting", "deleted"} => q \in due'
  <2>1. SUFFICES ASSUME status'[q] \in {"deleting", "deleted"} PROVE q \in due'
    OBVIOUS
  <2>2. HasEnded(q)' /\ (q \in due => q \in due')
    BY <1>1, <1>3, <2>1, HasEndedStep
  <2>3. CASE status[q] \in {"deleting", "deleted"}
    BY <2>2, <2>3 DEF Justified
  <2>4. CASE status[q] \notin {"deleting", "deleted"}
    <3>1. status[q] = "effective" /\ place[q] = "mark"
      BY <1>1, <2>1, <2>4, StatusStep
    <3>2. QED
      BY <2>2, <3>1 DEF Justified
  <2>5. QED
    BY <2>3, <2>4
<1>6. /\ status'[q] \in {"scheduled", "effective", "deleting", "deleted"}
      /\ HasEnded(q)'
      => Writers(q)' = {}
  <2>1. SUFFICES ASSUME HasEnded(q)',
                        status'[q] \in {"scheduled", "effective", "deleting",
                                        "deleted"}
                 PROVE  Writers(q)' = {}
    OBVIOUS
  <2>2. CASE HasEnded(q)
    <3>1. ASSUME NEW c \in Writers(q), At(c, "agreed"), phase' = phase,
                 until'[q].sub = call[c].sub
          PROVE  FALSE
      BY <2>1, <3>1 DEF At, Writers, Accounts, HasEnded
    <3>2. status[q] \in {"scheduled", "effective", "deleting", "deleted"}
      BY <1>1, <2>1, <3>1, StatusStep
    <3>3. Writers(q) = {} /\ status[q] \notin Writable
      BY <1>2, <2>2, <3>2 DEF Justified
    <3>4. QED
      BY <1>1, <3>3, WritersStep
  <2>3. CASE ~HasEnded(q)
    BY <1>1, <2>1, <2>3, HasEndedStep DEF Writers
  <2>4. QED
    BY <2>2, <2>3
<1>7. QED
  BY <1>3, <1>4, <1>5, <1>6 DEF Justified

LEMMA LostStep ==
  ASSUME BaseInv, Succession, Accounts, Overlap = {}, [Next]_vars,
         NEW q \in Requests, Justified(q), Lost(q)
  PROVE  Lost(q)'
<1>1. /\ RequestOK /\ DataOK /\ CallOK /\ RunOK /\ TypeOK
  BY TypeParts DEF BaseInv
<1>2. ASSUME Writers(q) = {}, status[q] \in {"deleting", "reactivated"},
             place[q] # "commit"
      PROVE  /\ status'[q] \in {"deleting", "reactivated"} /\ Writers(q)' = {}
             /\ status[q] = "reactivated" => status'[q] = "reactivated"
  <2>1. status[q] \notin Writable
    BY <1>2 DEF Writable
  <2>2. QED
    BY <1>1, <1>2, <2>1, StatusStep, WritersStep
<1>3. status[q] = "reactivated" /\ Writers(q) = {} =>
        status'[q] = "reactivated" /\ Writers(q)' = {}
  <2>1. SUFFICES ASSUME status[q] = "reactivated", Writers(q) = {}
                 PROVE  status'[q] = "reactivated" /\ Writers(q)' = {}
    OBVIOUS
  <2>2. status[q] \notin Writable
    BY <2>1 DEF Writable
  <2>3. QED
    BY <1>1, <2>1, <2>2, StatusStep, WritersStep
<1>4. \/ place'[q] # "remove"
      \/ place'[q] = place[q]
      \/ IsDeleting(q) /\ UNCHANGED <<status, call, late>>
  <2>1. ASSUME NEW r \in Requests, Executes(r)
        PROVE  \/ place'[q] # "remove"
               \/ place'[q] = place[q]
               \/ IsDeleting(q) /\ UNCHANGED <<status, call, late>>
    <3>1. CASE Check(r)
      BY <1>1, <2>1, <3>1, ExecutesFrame
      DEF Check, Finishes, MovesTo, Stays, RunOK
    <3>2. CASE ~Check(r)
      BY <1>1, <2>1, <3>2
      DEF Executes, Runs, LoadsNothing, Loads, Mark, List, Remove, Forget,
          Last, Commit, Notify, Throws, Finishes, MovesTo, RunOK
    <3>3. QED
      BY <3>1, <3>2
  <2>2. QED
    BY <2>1, Steps, ProviderFrame, DeliverFrame, BeginsFrame, TellsFrame,
       WritesFrame, DateFrame, StutterFrame
<1>5. place'[q] = "remove" =>
        status'[q] \in {"deleting", "reactivated"} /\ Writers(q)' = {}
  <2>1. CASE place'[q] = "remove" /\ place'[q] = place[q]
    BY <1>2, <2>1 DEF Lost
  <2>2. CASE IsDeleting(q) /\ UNCHANGED <<status, call, late>>
    BY <2>2 DEF IsDeleting, Justified, Writers
  <2>3. QED
    BY <1>4, <2>1, <2>2
<1>6. \/ late'[q] = late[q]
      \/ /\ place[q] = "remove" /\ place'[q] = "forget"
         /\ status[q] # "deleting" /\ UNCHANGED <<status, call>>
         /\ object[q] \in Objects /\ late'[q] = late[q] \cup {object[q]}
  <2>1. ASSUME NEW r \in Requests, Remove(r)
        PROVE  \/ late'[q] = late[q]
               \/ /\ place[q] = "remove" /\ place'[q] = "forget"
                  /\ status[q] # "deleting" /\ UNCHANGED <<status, call>>
                  /\ object[q] \in Objects /\ late'[q] = late[q] \cup {object[q]}
    BY <1>1, <2>1 DEF Remove, MovesTo, RunFrame, RunOK, DataOK
  <2>2. QED
    BY <2>1, Steps, ProviderFrame, DeliverFrame, BeginsFrame, TellsFrame,
       WritesFrame, DateFrame, StutterFrame
       DEF Executes, Runs, LoadsNothing, Loads, Mark, List, Check, Forget, Last,
           Commit, Notify, Throws, Stays
<1>7. \/ late'[q] = {}
      \/ /\ \E o \in Objects : late'[q] = {o}
         /\ status'[q] = "reactivated" /\ Writers(q)' = {}
         /\ place'[q] # "remove"
  <2>1. CASE late'[q] = late[q] /\ late[q] = {}
    BY <2>1
  <2>2. CASE late'[q] = late[q] /\ late[q] # {}
    <3>1. /\ \E o \in Objects : late[q] = {o}
          /\ status[q] = "reactivated" /\ Writers(q) = {} /\ place[q] # "remove"
      BY <2>2 DEF Lost
    <3>2. QED
      BY <1>3, <1>4, <2>2, <3>1 DEF IsDeleting
  <2>3. CASE /\ place[q] = "remove" /\ place'[q] = "forget"
             /\ status[q] # "deleting" /\ UNCHANGED <<status, call>>
             /\ object[q] \in Objects /\ late'[q] = late[q] \cup {object[q]}
    <3>1. late[q] = {} /\ status[q] = "reactivated" /\ Writers(q) = {}
      BY <2>3 DEF Lost
    <3>2. QED
      BY <1>3, <2>3, <3>1
  <2>4. QED
    BY <1>6, <2>1, <2>2, <2>3
<1>8. QED
  BY <1>5, <1>7 DEF Lost

LEMMA IInit == Init => IInv
<1> SUFFICES ASSUME Init PROVE IInv
  OBVIOUS
<1>1. BaseInv
  BY BaseInit
<1>2. Succession /\ Accounts
  BY CancellationAssumption DEF Init, Succession, Accounts, Current
<1>3. \A r \in Requests : Justified(r) /\ Lost(r)
  BY DEF Init, Justified, Lost
<1>4. QED
  BY <1>1, <1>2, <1>3 DEF IInv

LEMMA IStep ==
  ASSUME Overlap = {}
  PROVE  IInv /\ [Next]_vars => IInv'
<1> SUFFICES ASSUME IInv, [Next]_vars PROVE IInv'
  OBVIOUS
<1>1. /\ BaseInv /\ TypeOK /\ Succession /\ Accounts
      /\ \A r \in Requests : Justified(r) /\ Lost(r)
  BY DEF IInv, BaseInv
<1>2. BaseInv'
  BY <1>1, BaseStep
<1>3. Succession' /\ Accounts'
  BY <1>1, SuccessionStep, AccountsStep
<1>4. ASSUME NEW r \in Requests PROVE Justified(r)' /\ Lost(r)'
  BY <1>1, JustifiedStep, LostStep
<1>5. QED
  BY <1>2, <1>3, <1>4 DEF IInv

\* Of a payer who has one subscription at a time: access ends, and data is
\* deleted, only when the cancelled subscription has really ended, whatever the
\* order in which the webhooks came and whatever calls overlap.
THEOREM CondemnationIsDue ==
  ASSUME Overlap = {}
  PROVE  Spec => []CondemnedHasEnded
<1>1. IInv => CondemnedHasEnded
  BY DEF IInv, Justified, HasEnded, CondemnedHasEnded
<1>2. IInv /\ [Next]_vars => IInv'
  BY IStep
<1>3. QED
  BY <1>1, <1>2, IInit, PTL DEF Spec

\* A payer who returns during the deletion loses one more object at the most,
\* and it is the one whose removal was under way.
THEOREM OneObjectIsLostAtMost ==
  ASSUME Overlap = {}
  PROVE  Spec => []AtMostOneLate
<1>1. IInv => AtMostOneLate
  <2> SUFFICES ASSUME IInv, NEW r \in Requests PROVE Cardinality(late[r]) <= 1
    BY DEF AtMostOneLate
  <2>1. late[r] = {} \/ \E o \in Objects : late[r] = {o}
    BY DEF IInv, Lost
  <2>2. QED
    BY <2>1, FS_EmptySet, FS_Singleton
<1>2. IInv /\ [Next]_vars => IInv'
  BY IStep
<1>3. QED
  BY <1>1, <1>2, IInit, PTL DEF Spec
=============================================================================
