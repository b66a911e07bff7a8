---------------------------- MODULE Cancellation ----------------------------
(***************************************************************************)
(* The cancellation of one payer's subscription: the requests of           *)
(* CancellationService (services/src/cancellation.ts), the webhooks of the *)
(* payment provider (services/src/billing-webhooks.ts) and the retention   *)
(* job that deletes the payer's media and workspaces.                      *)
(*                                                                         *)
(* Every call of the service is several steps, one for each await at which *)
(* what it has read may become old.  The webhook is one transaction, which *)
(* locks the payer's subscription first, and so is one step.  The job of a *)
(* request lives in a durable job object, of which only what JobLedger     *)
(* promises is kept: an intent takes effect between two executions.        *)
(***************************************************************************)
EXTENDS Naturals, Sequences, FiniteSets

CONSTANTS
  Requests,     \* the rows of cancellation_requests that can exist
  Subs,         \* subscriptions the payer may take out, in order, from 1
  Callers,      \* calls of the service that can be open at a time
  Objects,      \* the media of the payer's workspaces
  Batch,        \* how many objects one run of the retention job lists (100)
  Overlap,      \* those subscriptions that may be bought while another is live
  MaxAttempts,  \* DurableJob.maxAttempts
  MaxEvents,    \* bound: events the provider sends
  MaxCalls,     \* bound: calls of the service
  MaxFaults     \* bound: executions and calls cut off, objects not removed

ASSUME CancellationAssumption ==
  /\ Subs \subseteq Nat \ {0} /\ 1 \in Subs
  /\ Batch \in Nat \ {0} /\ MaxAttempts \in Nat \ {0}
  /\ MaxEvents \in Nat /\ MaxCalls \in Nat /\ MaxFaults \in Nat

VARIABLES
  \* The payment provider.
  phase,      \* each subscription: "new", "live" or "ended"
  leaving,    \* those with cancel_at_next_billing_date
  terms,      \* how many paid terms of each have ended
  sent,       \* the events sent; the later one has the later time
  \* subscriptions, billing_webhook_events
  account,    \* provider_subscription_id, provider_updated_at, current_period_end
  claimed,    \* the events applied or found stale
  \* cancellation_requests
  status,     \* "none" while the row does not exist
  origin,     \* provider_subscription_id
  until,      \* data_deletion_at: 60 days after the end of this term
  accepted,   \* rows with save_offer_accepted
  booked,     \* rows with a calendar_booking_uid
  \* Product data.
  rows,       \* media
  bytes,      \* the objects in R2
  workspaces, \* "kept" or "deleted"
  \* The calls of the service that have not returned, and what they know.
  call,
  \* The durable job of each request and its execution.
  job,        \* "none", "armed", "running", "rearmed" or "failed"
  tries,      \* ActiveJob.attempts
  place,      \* the await it is at
  todo,       \* the listed objects left
  object,     \* the object being removed
  again,      \* executions that will ask to be run again
  due,        \* requests whose data_deletion_at has passed
  \* Budgets, and history.
  calls, faults,
  credited,   \* requests for which the wallet was credited
  noticed,    \* requests whose payer was told that the data is deleted
  late        \* objects removed while their request was not being deleted

providerVars == <<phase, leaving, terms, sent>>
webhookVars  == <<account, claimed>>
requestVars  == <<status, origin, until, accepted, booked>>
dataVars     == <<rows, bytes, workspaces>>
jobVars      == <<job, tries>>
runVars      == <<place, todo, object, again>>
histVars     == <<credited, noticed, late>>
vars == <<providerVars, webhookVars, requestVars, dataVars, call, calls,
          jobVars, runVars, due, faults, histVars>>

Statuses == {"none", "open", "call_booked", "offer_accepted", "scheduled",
             "effective", "deleting", "deleted", "reactivated", "abandoned"}
\* The statuses of cancellation_requests_one_active_owner_idx.
Active == {"open", "call_booked", "offer_accepted", "scheduled", "effective",
           "deleting"}
EventTypes == {"active", "updated", "renewed", "cancelled"}
Places == {"idle", "mark", "list", "check", "remove", "forget", "last",
           "commit", "notify"}

None == "none"
Terms == [sub : Subs, term : Nat]
NoDate == [sub |-> 0, term |-> 0]
Free == [op |-> "free"]
Operations == {"start", "accept", "credited", "schedule", "agreed",
               "reactivate", "undone", "book", "unbook"}

Init ==
  /\ phase = [s \in Subs |-> IF s = 1 THEN "live" ELSE "new"]
  /\ leaving = {} /\ terms = [s \in Subs |-> 0] /\ sent = <<>>
  /\ account = [sub |-> 1, at |-> 0, term |-> 0] /\ claimed = {}
  /\ status = [r \in Requests |-> "none"]
  /\ origin = [r \in Requests |-> 0]
  /\ until = [r \in Requests |-> NoDate]
  /\ accepted = {} /\ booked = {}
  /\ rows = Objects /\ bytes = Objects /\ workspaces = "kept"
  /\ call = [c \in Callers |-> Free]
  /\ job = [r \in Requests |-> "none"] /\ tries = [r \in Requests |-> 0]
  /\ place = [r \in Requests |-> "idle"]
  /\ todo = [r \in Requests |-> {}]
  /\ object = [r \in Requests |-> None]
  /\ again = {} /\ due = {}
  /\ calls = 0 /\ faults = 0
  /\ credited = {} /\ noticed = {} /\ late = [r \in Requests |-> {}]

-----------------------------------------------------------------------------
(* The provider.  It sends an event for each change; time passes between   *)
(* two events, and two never carry the same time.                          *)

Live == {s \in Subs : phase[s] = "live"}

Event(type, s, cancel, term) ==
  [type |-> type, sub |-> s, cancel |-> cancel, term |-> term]

Send(type, s, cancel, term) ==
  /\ Len(sent) < MaxEvents
  /\ sent' = Append(sent, Event(type, s, cancel, term))

\* Checkout: a subscription of its own.  The API offers it at any time; those
\* not in Overlap are bought by a payer who has none.
Subscribe(s) ==
  /\ phase[s] = "new" /\ \A u \in Subs : u < s => phase[u] # "new"
  /\ Live = {} \/ s \in Overlap
  /\ phase' = [phase EXCEPT ![s] = "live"]
  /\ Send("active", s, FALSE, terms[s])
  /\ UNCHANGED <<leaving, terms, webhookVars, requestVars, dataVars, call,
                 calls, jobVars, runVars, due, faults, histVars>>

\* In the provider's portal the payer changes the plan or the card, or takes
\* back or gives notice.
ProviderUpdates(s) ==
  /\ s \in Live
  /\ \E cancel \in BOOLEAN :
       /\ leaving' = IF cancel THEN leaving \cup {s} ELSE leaving \ {s}
       /\ Send("updated", s, cancel, terms[s])
  /\ UNCHANGED <<phase, terms, webhookVars, requestVars, dataVars, call, calls,
                 jobVars, runVars, due, faults, histVars>>

\* A paid term ends, and with it the subscription if it is leaving or the
\* payment fails.  A call and an execution last minutes, a term a month: none
\* that is open spans the end of a term.
TermEnds(s) ==
  /\ s \in Live
  /\ \A c \in Callers : call[c] = Free
  /\ \A r \in Requests : place[r] = "idle"
  /\ terms' = [terms EXCEPT ![s] = terms[s] + 1]
  /\ \/ /\ phase' = [phase EXCEPT ![s] = "ended"]
        /\ Send("cancelled", s, FALSE, terms[s])
     \/ /\ s \notin leaving
        /\ phase' = phase
        /\ Send("renewed", s, FALSE, terms[s] + 1)
  /\ UNCHANGED <<leaving, webhookVars, requestVars, dataVars, call, calls,
                 jobVars, runVars, due, faults, histVars>>

\* scheduleCancellation and undoCancellation.  A subscription that has ended
\* cannot be changed, and the call fails.
ProviderSets(s, cancel) ==
  /\ s \in Live
  /\ leaving' = IF cancel THEN leaving \cup {s} ELSE leaving \ {s}
  /\ Send("updated", s, cancel, terms[s])

-----------------------------------------------------------------------------
(* The webhook: one transaction per event, in any order.  An event that is   *)
(* delivered again is found in billing_webhook_events and changes nothing.   *)

\* JobService.enqueue of CancellationDeadline, seen from the job object.
Enqueued(r) ==
  /\ job' = [job EXCEPT ![r] =
       IF job[r] \in {"running", "rearmed"} THEN "rearmed" ELSE "armed"]
  /\ tries' = [tries EXCEPT ![r] =
       IF job[r] \in {"running", "rearmed"} THEN tries[r] ELSE 0]

\* Fault: the upsert without its WHERE.
IsStaleNever(i) == FALSE
IsStale(i) == i < account.at

\* subscription.cancelled or .expired
\* Fault: the job of a scheduled request is thought to be waiting anyway.
EndsUnattended ==
  /\ status' = [r \in Requests |->
       IF status[r] = "scheduled" THEN "effective" ELSE status[r]]
  /\ UNCHANGED jobVars

Ends ==
  \/ /\ \A r \in Requests : status[r] # "scheduled"
     /\ UNCHANGED <<status, jobVars>>
  \/ \E r \in Requests :
       /\ status[r] = "scheduled"
       /\ status' = [status EXCEPT ![r] = "effective"]
       /\ Enqueued(r)

\* Requests that an event of a subscription that goes on takes back.
Restores(e, r) ==
  \/ status[r] = "scheduled"
  \/ /\ e.type = "active"
     /\ status[r] \in {"effective", "deleting"} /\ origin[r] # e.sub

GoesOn(e) ==
  LET restored == {r \in Requests : Restores(e, r)} IN
  /\ status' = [r \in Requests |->
       IF r \in restored THEN "reactivated" ELSE status[r]]
  /\ until' = [r \in Requests |-> IF r \in restored THEN NoDate ELSE until[r]]

Applies(i) ==
  LET e == sent[i] IN
  /\ account' = [sub |-> e.sub, at |-> i, term |-> e.term]
  /\ \/ /\ e.type = "cancelled"
        /\ Ends
        /\ UNCHANGED until
     \/ /\ e.type # "cancelled" /\ ~e.cancel
        /\ GoesOn(e)
        /\ UNCHANGED jobVars
     \/ /\ e.type # "cancelled" /\ e.cancel
        /\ UNCHANGED <<status, until, jobVars>>

Deliver(i) ==
  /\ i \in DOMAIN sent \ claimed
  /\ claimed' = claimed \cup {i}
  /\ IF IsStale(i) THEN UNCHANGED <<account, status, until, jobVars>>
     ELSE Applies(i)
  /\ UNCHANGED <<providerVars, origin, accepted, booked, dataVars, call, calls,
                 runVars, due, faults, histVars>>

-----------------------------------------------------------------------------
(* CancellationService.  A call begins with a read, which finds it a place  *)
(* in call, and every later step of it is one await.                        *)

Calls(c, op, r) ==
  /\ call[c] = Free /\ calls < MaxCalls
  /\ calls' = calls + 1
  /\ call' = [call EXCEPT ![c] =
       [op |-> op, req |-> r, sub |-> account.sub, term |-> account.term]]

Goes(c, op) == call' = [call EXCEPT ![c] = [call[c] EXCEPT !.op = op]]
Returns(c)  == call' = [call EXCEPT ![c] = Free]
At(c, op)   == call[c].op = op

\* What the steps of a call leave alone.
CallFrame == UNCHANGED <<phase, terms, webhookVars, dataVars, runVars, faults,
                         noticed, late>>
ReadFrame == UNCHANGED <<providerVars, webhookVars, requestVars, dataVars,
                         jobVars, runVars, due, faults, histVars>>
RequestFrame == UNCHANGED <<leaving, sent, calls, credited>>

\* Fault: without the index.
MayBeActiveAlways(r) == TRUE

\* The partial unique index of the active requests of a payer.
MayBeActive(r) == \A q \in Requests \ {r} : status[q] \notin Active

\* start: the active request if it may be changed, or else a new one.
StartReads(c) ==
  /\ \E r \in Requests :
       /\ \/ status[r] \in {"open", "offer_accepted"}
          \/ /\ \A q \in Requests : status[q] \notin Active
             /\ status[r] = "none"
             /\ \A d \in Callers : call[d] # Free => call[d].req # r
       /\ Calls(c, "start", r)
  /\ ReadFrame

\* INSERT ... ON CONFLICT (id) DO UPDATE SET status = 'open'.
StartWrites(c) ==
  /\ At(c, "start")
  /\ LET r == call[c].req IN
       IF MayBeActive(r)
         THEN /\ status' = [status EXCEPT ![r] = "open"]
              /\ origin' = [origin EXCEPT ![r] =
                   IF status[r] = "none" THEN call[c].sub ELSE origin[r]]
         ELSE UNCHANGED <<status, origin>>
  /\ Returns(c)
  /\ CallFrame /\ RequestFrame
  /\ UNCHANGED <<until, accepted, booked, jobVars, due>>

\* acceptOffer: reads, credits the wallet under a key of the request, writes.
AcceptReads(c) ==
  /\ \E r \in Requests :
       status[r] = "open" /\ accepted = {} /\ Calls(c, "accept", r)
  /\ ReadFrame

AcceptCredits(c) ==
  /\ At(c, "accept")
  /\ credited' = credited \cup {call[c].req}
  /\ Goes(c, "credited")
  /\ CallFrame
  /\ UNCHANGED <<leaving, sent, calls, requestVars, jobVars, due>>

\* The guarded UPDATE, and the unique index of the accepted requests.
AcceptWrites(c) ==
  /\ At(c, "credited")
  /\ LET r == call[c].req IN
       IF status[r] = "open" /\ accepted = {}
         THEN /\ status' = [status EXCEPT ![r] = "offer_accepted"]
              /\ accepted' = {r}
         ELSE UNCHANGED <<status, accepted>>
  /\ Returns(c)
  /\ CallFrame /\ RequestFrame
  /\ UNCHANGED <<origin, until, booked, jobVars, due>>

\* abandon: its UPDATE repeats what it has read, so that it is one step.
Abandon(r) ==
  /\ status[r] \in {"open", "call_booked"} /\ calls < MaxCalls
  /\ status' = [status EXCEPT ![r] = "abandoned"]
  /\ calls' = calls + 1
  /\ CallFrame
  /\ UNCHANGED <<leaving, sent, credited, origin, until, accepted, booked, call,
                 jobVars, due>>

\* schedule: reads the request and the subscription, tells the provider, and
\* then writes.
ScheduleReads(c) ==
  /\ \E r \in Requests : status[r] = "open" /\ Calls(c, "schedule", r)
  /\ ReadFrame

ScheduleTells(c) ==
  /\ At(c, "schedule")
  /\ \/ ProviderSets(call[c].sub, TRUE) /\ Goes(c, "agreed")
     \/ /\ call[c].sub \notin Live
        /\ Returns(c) /\ UNCHANGED <<leaving, sent>>
  /\ CallFrame
  /\ UNCHANGED <<calls, credited, requestVars, jobVars, due>>

\* Only a request that is still open: else ConflictError.
Scheduled(c) ==
  LET r == call[c].req IN
  /\ status[r] = "open"
  /\ status' = [status EXCEPT ![r] = "scheduled"]
  /\ until' = [until EXCEPT ![r] = [sub |-> call[c].sub, term |-> call[c].term]]
  /\ due' = due \ {r}
  /\ Enqueued(r)

ScheduleWrites(c) ==
  /\ At(c, "agreed")
  /\ \/ Scheduled(c)
     \/ status[call[c].req] # "open" /\ UNCHANGED <<status, until, due, jobVars>>
  /\ Returns(c)
  /\ CallFrame /\ RequestFrame
  /\ UNCHANGED <<origin, accepted, booked>>

\* reactivate, for a request that is scheduled.  For a later one the answer is
\* a checkout, which is Subscribe.
ReactivateReads(c) ==
  /\ \E r \in Requests : status[r] = "scheduled" /\ Calls(c, "reactivate", r)
  /\ ReadFrame

ReactivateTells(c) ==
  /\ At(c, "reactivate")
  /\ \/ ProviderSets(call[c].sub, FALSE) /\ Goes(c, "undone")
     \/ /\ call[c].sub \notin Live
        /\ Returns(c) /\ UNCHANGED <<leaving, sent>>
  /\ CallFrame
  /\ UNCHANGED <<calls, credited, requestVars, jobVars, due>>

ReactivateWrites(c) ==
  /\ At(c, "undone")
  /\ LET r == call[c].req IN
       IF status[r] = "scheduled"
         THEN /\ status' = [status EXCEPT ![r] = "reactivated"]
              /\ until' = [until EXCEPT ![r] = NoDate]
         ELSE UNCHANGED <<status, until>>
  /\ Returns(c)
  /\ CallFrame /\ RequestFrame
  /\ UNCHANGED <<origin, accepted, booked, jobVars, due>>

\* handleCalendar: a SELECT that knows the status, an UPDATE that does not.
CalendarReads(c) ==
  /\ \E r \in Requests :
       \/ /\ status[r] = "open" /\ r \notin booked
          /\ Calls(c, "book", r)
       \/ /\ status[r] = "call_booked"
          /\ \E op \in {"book", "unbook"} : Calls(c, op, r)
  /\ ReadFrame

CalendarWrites(c) ==
  /\ \E op \in {"book", "unbook"} :
       LET r == call[c].req IN
       /\ At(c, op)
       /\ IF MayBeActive(r)
            THEN /\ status' = [status EXCEPT ![r] =
                      IF op = "book" THEN "call_booked" ELSE "open"]
                 /\ booked' = IF op = "book" THEN booked \cup {r}
                                             ELSE booked \ {r}
            ELSE UNCHANGED <<status, booked>>
  /\ Returns(c)
  /\ CallFrame /\ RequestFrame
  /\ UNCHANGED <<origin, until, accepted, jobVars, due>>

\* The request is cut off, or a call to the provider fails.
CallDies(c) ==
  /\ call[c] # Free /\ faults < MaxFaults
  /\ Returns(c)
  /\ faults' = faults + 1
  /\ UNCHANGED <<providerVars, webhookVars, requestVars, dataVars, calls,
                 jobVars, runVars, due, histVars>>

CallStep(c) ==
  \/ StartWrites(c) \/ AcceptCredits(c) \/ AcceptWrites(c)
  \/ ScheduleTells(c) \/ ScheduleWrites(c)
  \/ ReactivateTells(c) \/ ReactivateWrites(c) \/ CalendarWrites(c)

CallBegins(c) ==
  \/ StartReads(c) \/ AcceptReads(c) \/ ScheduleReads(c)
  \/ ReactivateReads(c) \/ CalendarReads(c)

-----------------------------------------------------------------------------
(* The retention job of a request: runRetention, one step per await.        *)

RunFrame == UNCHANGED <<providerVars, webhookVars, origin, until, accepted,
                        booked, call, calls, due, credited>>
Stays    == UNCHANGED <<status, dataVars, jobVars, noticed, late>>

MovesTo(r, p) == place' = [place EXCEPT ![r] = p]

\* The execution returns: the object runs the next intent, or at the time it
\* was given, or not again.
Finishes(r, more) ==
  /\ job' = [job EXCEPT ![r] =
       IF job[r] = "rearmed" \/ more THEN "armed" ELSE "none"]
  /\ tries' = [tries EXCEPT ![r] = 0]
  /\ MovesTo(r, "idle")
  /\ todo' = [todo EXCEPT ![r] = {}]
  /\ object' = [object EXCEPT ![r] = None]
  /\ again' = again \ {r}

\* Fault: a deleted request is not loaded any more.
ConcernsUndeleted(r) ==
  status[r] \in {"scheduled", "effective", "deleting"} /\ until[r] # NoDate

\* The rows it loads.
Concerns(r) ==
  /\ status[r] \in {"scheduled", "effective", "deleting", "deleted"}
  /\ until[r] # NoDate

\* Nothing to load, or deadlines to wait for (a warning is sent at some).
LoadsNothing(r) ==
  /\ job[r] = "armed"
  /\ \/ ~Concerns(r) /\ Finishes(r, FALSE)
     \/ /\ Concerns(r) /\ status[r] # "deleted" /\ r \notin due
        /\ Finishes(r, TRUE)
  /\ UNCHANGED <<status, dataVars, faults, noticed, late>> /\ RunFrame

\* Fault: none is run again once the date has passed.
AsksAgainNever(r) == FALSE

\* Once the date has passed a scheduled request has no deadline left; the others
\* are run again in half a minute.
AsksAgain(r) == status[r] # "scheduled"

Loads(r) ==
  /\ job[r] = "armed" /\ Concerns(r)
  /\ \/ /\ status[r] = "deleted"
        /\ MovesTo(r, "notify")
        /\ again' = again
     \/ /\ status[r] # "deleted" /\ r \in due
        /\ MovesTo(r, "mark")
        /\ again' = IF AsksAgain(r) THEN again \cup {r} ELSE again
  /\ job' = [job EXCEPT ![r] = "running"]
  /\ UNCHANGED <<status, dataVars, tries, todo, object, faults, noticed, late>>
  /\ RunFrame

\* UPDATE ... SET status = 'deleting' WHERE status = 'effective'.
Mark(r) ==
  /\ place[r] = "mark"
  /\ status' = [status EXCEPT ![r] =
       IF status[r] = "effective" THEN "deleting" ELSE status[r]]
  /\ MovesTo(r, "list")
  /\ UNCHANGED <<dataVars, jobVars, todo, object, again, faults, noticed, late>>
  /\ RunFrame

Listed == IF Cardinality(rows) <= Batch THEN {rows}
          ELSE {o \in SUBSET rows : Cardinality(o) = Batch}

\* Fault: the last batch is taken for an empty one.
NothingListedOnLast == Cardinality(rows) <= Batch
NothingListed == rows = {}

List(r) ==
  /\ place[r] = "list"
  /\ todo' \in {[todo EXCEPT ![r] = o] : o \in Listed}
  /\ MovesTo(r, IF NothingListed THEN "last" ELSE "check")
  /\ UNCHANGED <<object, again, faults>> /\ Stays /\ RunFrame

\* Fault: the status is remembered from the beginning of the run.
IsDeletingAsLoaded(r) == r \in again

\* SELECT EXISTS (... status = 'deleting'), before each object and at the end.
IsDeleting(r) == status[r] = "deleting"

Check(r) ==
  /\ place[r] = "check"
  /\ \/ /\ todo[r] = {} \/ ~IsDeleting(r)
        /\ Finishes(r, r \in again)
        /\ UNCHANGED <<status, dataVars, noticed, late>>
     \/ /\ todo[r] # {} /\ IsDeleting(r)
        /\ \E o \in todo[r] :
             /\ object' = [object EXCEPT ![r] = o]
             /\ todo' = [todo EXCEPT ![r] = todo[r] \ {o}]
        /\ MovesTo(r, "remove")
        /\ UNCHANGED again /\ Stays
  /\ UNCHANGED faults /\ RunFrame

\* The removal of the object, which may fail: its row is then left for the next
\* run.
Remove(r) ==
  /\ place[r] = "remove"
  /\ \/ /\ bytes' = bytes \ {object[r]}
        /\ late' = [late EXCEPT ![r] =
             IF status[r] = "deleting" \/ object[r] \notin bytes THEN late[r]
             ELSE late[r] \cup {object[r]}]
        /\ MovesTo(r, "forget")
        /\ UNCHANGED faults
     \/ /\ faults < MaxFaults /\ faults' = faults + 1
        /\ MovesTo(r, "check")
        /\ UNCHANGED <<bytes, late>>
  /\ UNCHANGED <<status, rows, workspaces, jobVars, todo, object, again, noticed>>
  /\ RunFrame

Forget(r) ==
  /\ place[r] = "forget"
  /\ rows' = rows \ {object[r]}
  /\ MovesTo(r, "check")
  /\ UNCHANGED <<status, bytes, workspaces, jobVars, todo, object, again, faults,
                 noticed, late>>
  /\ RunFrame

Last(r) ==
  /\ place[r] = "last"
  /\ \/ IsDeleting(r) /\ MovesTo(r, "commit")
        /\ UNCHANGED <<jobVars, todo, object, again>>
     \/ ~IsDeleting(r) /\ Finishes(r, r \in again)
  /\ UNCHANGED <<status, dataVars, faults, noticed, late>> /\ RunFrame

\* The final transaction locks the request and returns if it is not deleting
\* any more; the notice follows in either case.
DeletesWorkspaces(r) ==
  /\ workspaces' = "deleted" /\ rows' = {}
  /\ status' = [status EXCEPT ![r] = "deleted"]

Commit(r) ==
  /\ place[r] = "commit"
  /\ \/ IsDeleting(r) /\ DeletesWorkspaces(r)
     \/ ~IsDeleting(r) /\ UNCHANGED <<status, rows, workspaces>>
  /\ MovesTo(r, "notify")
  /\ UNCHANGED <<bytes, jobVars, todo, object, again, faults, noticed, late>>
  /\ RunFrame

Notify(r) ==
  /\ place[r] = "notify"
  /\ noticed' = noticed \cup {r}
  /\ Finishes(r, r \in again)
  /\ UNCHANGED <<status, dataVars, faults, late>> /\ RunFrame

\* An await throws or the object restarts: the attempt is repeated, until there
\* have been MaxAttempts.  failJob does nothing for this job.
Throws(r) ==
  /\ place[r] # "idle" /\ faults < MaxFaults
  /\ faults' = faults + 1
  /\ LET given == job[r] = "rearmed" IN
     LET last == ~given /\ tries[r] + 1 = MaxAttempts IN
     /\ job' = [job EXCEPT ![r] = IF last THEN "failed" ELSE "armed"]
     /\ tries' = [tries EXCEPT ![r] = IF given \/ last THEN 0 ELSE tries[r] + 1]
  /\ MovesTo(r, "idle")
  /\ todo' = [todo EXCEPT ![r] = {}]
  /\ object' = [object EXCEPT ![r] = None]
  /\ again' = again \ {r}
  /\ UNCHANGED <<status, dataVars, noticed, late>> /\ RunFrame

Runs(r) ==
  \/ LoadsNothing(r) \/ Loads(r) \/ Mark(r) \/ List(r) \/ Check(r)
  \/ Remove(r) \/ Forget(r) \/ Last(r) \/ Commit(r) \/ Notify(r)

\* Sixty days after the end of the term.
DatePasses(r) ==
  /\ r \notin due /\ until[r] # NoDate
  /\ terms[until[r].sub] > until[r].term
  /\ due' = due \cup {r}
  /\ UNCHANGED <<providerVars, webhookVars, requestVars, dataVars, call, calls,
                 jobVars, runVars, faults, histVars>>

Next ==
  \/ \E s \in Subs : Subscribe(s) \/ ProviderUpdates(s) \/ TermEnds(s)
  \/ \E i \in DOMAIN sent : Deliver(i)
  \/ \E c \in Callers : CallBegins(c) \/ CallStep(c) \/ CallDies(c)
  \/ \E r \in Requests : Abandon(r) \/ Runs(r) \/ Throws(r) \/ DatePasses(r)

Spec == Init /\ [][Next]_vars

Fairness == \A r \in Requests : WF_vars(Runs(r)) /\ WF_vars(DatePasses(r))
FairSpec == Spec /\ Fairness

-----------------------------------------------------------------------------
(* Properties.                                                              *)

\* Every variable has its type, and no payer has two active requests.
TypeOK ==
  /\ phase \in [Subs -> {"new", "live", "ended"}]
  /\ leaving \subseteq Subs
  /\ terms \in [Subs -> Nat]
  /\ sent \in Seq([type : EventTypes, sub : Subs, cancel : BOOLEAN, term : Nat])
  /\ account \in [sub : Subs, at : Nat, term : Nat]
  /\ claimed \subseteq DOMAIN sent
  /\ status \in [Requests -> Statuses]
  /\ origin \in [Requests -> Subs \cup {0}]
  /\ until \in [Requests -> Terms \cup {NoDate}]
  /\ accepted \subseteq Requests /\ booked \subseteq Requests
  /\ rows \subseteq Objects /\ bytes \subseteq Objects
  /\ workspaces \in {"kept", "deleted"}
  /\ call \in [Callers -> [op : Operations, req : Requests, sub : Subs,
                           term : Nat] \cup {Free}]
  /\ job \in [Requests -> {"none", "armed", "running", "rearmed", "failed"}]
  /\ tries \in [Requests -> 0 .. MaxAttempts - 1]
  /\ place \in [Requests -> Places]
  /\ todo \in [Requests -> SUBSET Objects]
  /\ object \in [Requests -> Objects \cup {None}]
  /\ again \subseteq Requests /\ due \subseteq Requests
  /\ calls \in Nat /\ faults \in Nat
  /\ credited \subseteq Requests /\ noticed \subseteq Requests
  /\ late \in [Requests -> SUBSET Objects]
  /\ \A q, r \in Requests : {status[q], status[r]} \subseteq Active => q = r

\* Access ends, and data is deleted, only of a payer whose subscription has
\* really ended, whatever the order in which the webhooks came, and the latter
\* only after the date that was announced.
CondemnedHasEnded ==
  \A r \in Requests : status[r] \in {"effective", "deleting", "deleted"} =>
    /\ until[r] # NoDate /\ phase[until[r].sub] = "ended"
    /\ status[r] # "effective" => r \in due

\* A request whose data is to be deleted never lacks a job that will delete it,
\* unless that job has used up its attempts.
CondemnedHasJob ==
  \A r \in Requests :
    status[r] \in {"effective", "deleting"} => job[r] # "none"

\* A request that is taken back loses one object more at the most: the one whose
\* removal was under way.
AtMostOneLate == \A r \in Requests : Cardinality(late[r]) <= 1

\* When a request is deleted nothing of the payer's media is left in storage.
DeletedIsComplete ==
  (\E r \in Requests : status[r] = "deleted") =>
    bytes = {} /\ workspaces = "deleted"

\* Once access and the cancelled subscription have ended the data is deleted, or
\* the payer is back.
CondemnedIsSettled ==
  \A r \in Requests :
    status[r] = "effective" /\ phase[until[r].sub] = "ended"
      ~> status[r] \in {"deleted", "reactivated"}

\* A payer whose data is deleted is told so.
DeletionIsAnnounced ==
  \A r \in Requests : status[r] = "deleted" ~> r \in noticed

\* The rest of what the texts of the product promise.  Section 4 of the README
\* tells how each of these fails.

\* A payer who is back, and all of whose events have been applied, is not deleted.
PayerIsNotDeleted ==
  [][workspaces' # workspaces => Live = {} \/ claimed # DOMAIN sent]_vars

\* A cancellation that was scheduled is only taken back when the subscription is
\* to go on.
RestorationIsMeant ==
  [][\A r \in Requests :
       status[r] = "scheduled" /\ status'[r] = "reactivated" =>
         until[r].sub \notin leaving]_vars

\* A cancellation that was scheduled stays so until it is taken back or effective.
ScheduledIsKept ==
  [][\A r \in Requests : status[r] = "scheduled" =>
       status'[r] \in {"scheduled", "reactivated", "effective"}]_vars

\* The free month is credited once to a payer.
CreditedOnce == Cardinality(credited) <= 1

\* Who is told that the data is deleted has lost it.
NoticeIsTrue == \A r \in noticed : status[r] = "deleted"

\* Access ends only once the cancelled subscription has ended.
EffectiveHasEnded ==
  \A r \in Requests :
    status[r] = "effective" => phase[until[r].sub] = "ended"

=============================================================================
