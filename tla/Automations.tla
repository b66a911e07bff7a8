---------------------------- MODULE Automations ----------------------------
(***************************************************************************)
(* One Instagram automation and one person who writes to it: the events    *)
(* Meta delivers (services/src/webhook-ingress.ts, webhook-deliveries.ts), *)
(* the engine that walks the flow for each (automation-engine.ts), the     *)
(* session in which the person answers (automation-sessions.ts), the DMs   *)
(* (dm-dispatch.ts), the reply to the comment, and the payer's monthly     *)
(* count of DMs.                                                           *)
(*                                                                         *)
(* An invocation is one HTTP request that handles one event.  Each await   *)
(* of it at which another one may run ends a step; a SQL transaction is    *)
(* one step, since the rows it reads are locked by it.  Meta delivers an   *)
(* event again until it gets a 200.                                        *)
(***************************************************************************)
EXTENDS Naturals, Sequences, FiniteSets

CONSTANTS
  Invocations,  \* requests that can be handled at a time
  Comments,     \* events that trigger the automation
  Messages,     \* events with a message of the person
  Taps,         \* the step whose quick reply a message taps, Text for words
  Dms,          \* steps of type send_dm
  Waits,        \* those with a quick_reply button
  Conditions,   \* steps of type condition
  First,        \* trigger.nextStepId
  Then,         \* nextStepId of a DM, or End
  OnTap,        \* nextStepId of the quick reply of a DM, or End
  Outcomes,     \* yesStepId and noStepId of a condition
  End, Text,
  StepLimit,    \* steps of one execution (32)
  SoftLimit,    \* dmSoftLimit of the plan
  MaxSessions,  \* bound: rows of automation_sessions
  MaxMonths,    \* bound: months that pass
  MaxLapses,    \* bound: times that five minutes pass over a claim
  MaxFaults     \* bound: failed requests and transactions

Events == Comments \cup Messages
Steps == Dms \cup Conditions
NoEvent == "no event"

ASSUME AutomationsAssumption ==
  /\ Comments \cap Messages = {} /\ Dms \cap Conditions = {}
  /\ NoEvent \notin Events
  /\ End \notin Steps /\ Text \notin Steps /\ Waits \subseteq Dms
  /\ Taps \in [Messages -> Dms \cup {Text}] /\ First \in Steps \cup {End}
  /\ Then \in [Dms -> Steps \cup {End}] /\ OnTap \in [Dms -> Steps \cup {End}]
  /\ Outcomes \in [Conditions -> SUBSET (Steps \cup {End})]
  /\ IsFiniteSet(Invocations)
  /\ StepLimit \in Nat /\ SoftLimit \in Nat /\ MaxSessions \in Nat
  /\ MaxMonths \in Nat /\ MaxLapses \in Nat /\ MaxFaults \in Nat

VARIABLES
  \* webhook_deliveries, and what Meta knows.
  delivery,   \* the status of each event's row, "none" while it has none
  overdue,    \* rows "processing" whose updated_at is five minutes old
  answered,   \* events for which Meta got a 200
  \* automation_dm_dispatches, automation_comment_dispatches.
  dispatch,   \* the status of each event and DM, "notSent" and "unknown"
              \* being "failed" and "ambiguous" with their failure_state
  expired,    \* rows "reserved" whose updated_at is five minutes old
  comment,    \* the status of each comment's reply
  \* subscriptions.
  usage,      \* dms_sent, dms_reserved
  newMonth,   \* dms_sent_period_start lies in an earlier month
  \* automation_sessions.
  sessions,   \* rows in the order of their creation: current_step_id, status
  \* The invocations: place, event, step to visit, session read and the step
  \* that its answer leads to, steps visited.
  inv,
  \* Budgets.
  months, lapses, faults,
  \* History.
  delivered,  \* how often the provider has accepted each DM
  excuses,    \* how often a claim of it was taken over or its answer lost
  replied,    \* how often the provider has accepted a reply to each comment
  misread,    \* how often the answer to such a reply was an error, and the
              \* comment's row was deleted
  window,     \* since the last reset: DMs accepted, answers lost, and the
              \* reservations that were open at the reset
  dropped,    \* reservations since the reset whose invocation ended early
  unheard,    \* messages for which no session was found
  overtaken,  \* events whose claim was taken over
  doubled     \* events for which Meta got the 200 of a repetition while the
              \* first request was still at work

tableVars == <<delivery, overdue, dispatch, expired, comment>>
metaVars == <<answered, overtaken, doubled>>
usageVars == <<usage, newMonth>>
budgetVars == <<months, lapses, faults>>
histVars ==
  <<delivered, excuses, replied, misread, window, dropped, unheard>>
vars == <<tableVars, metaVars, usageVars, sessions, inv, budgetVars,
          histVars>>

Places == {"idle", "resolve", "walk", "calling", "accepted", "start",
           "reply", "asking", "heard", "advance", "finish", "fail"}
DispatchStatuses ==
  {"none", "reserved", "sent", "skipped", "notSent", "unknown"}
CommentStatuses == {"none", "reserved", "sent", "notSent", "unknown"}
Idle == [at |-> "idle", event |-> NoEvent, step |-> End, session |-> 0,
         asked |-> End, visited |-> 0]

Init ==
  /\ delivery = [e \in Events |-> "none"] /\ overdue = {} /\ answered = {}
  /\ overtaken = {} /\ doubled = {}
  /\ dispatch = [e \in Events |-> [d \in Dms |-> "none"]] /\ expired = {}
  /\ comment = [e \in Comments |-> "none"]
  /\ usage = [sent |-> 0, reserved |-> 0] /\ newMonth = FALSE
  /\ sessions = <<>>
  /\ inv = [i \in Invocations |-> Idle]
  /\ months = 0 /\ lapses = 0 /\ faults = 0
  /\ delivered = [e \in Events |-> [d \in Dms |-> 0]]
  /\ excuses = [e \in Events |-> [d \in Dms |-> 0]]
  /\ replied = [e \in Comments |-> 0] /\ misread = [e \in Comments |-> 0]
  /\ window = [given |-> 0, lost |-> 0, carried |-> 0]
  /\ dropped = 0 /\ unheard = {}

At(i, place) == inv[i].at = place
Goes(i, place) == inv' = [inv EXCEPT ![i].at = place]
Fault == faults < MaxFaults /\ faults' = faults + 1

-----------------------------------------------------------------------------
(* The delivery of an event.                                               *)

\* The person can tap what has been delivered, and write at any time.
Happened(e) ==
  e \in Messages =>
    \/ Taps[e] = Text
    \/ \E f \in Events : delivered[f][Taps[e]] > 0

\* Fault: an event that is being processed can be claimed at once.
ClaimableAtOnce(e) == delivery[e] # "processed"

\* The conflict clause of claim.
Claimable(e) ==
  delivery[e] \in {"none", "failed"} \/ e \in overdue

\* WebhookDeliveryService.claim.
Claim(i, e) ==
  /\ At(i, "idle") /\ Happened(e) /\ e \notin answered /\ Claimable(e)
  /\ delivery' = [delivery EXCEPT ![e] = "processing"]
  /\ overdue' = overdue \ {e}
  /\ overtaken' = overtaken \cup ({e} \cap overdue)
  /\ inv' = [inv EXCEPT ![i] = [Idle EXCEPT !.at = "resolve", !.event = e]]
  /\ UNCHANGED <<answered, doubled, dispatch, expired, comment, usageVars,
                 sessions, budgetVars, histVars>>

\* The claim is a duplicate: Meta is told that the event was accepted.
Duplicate(e) ==
  /\ Happened(e) /\ e \notin answered /\ ~Claimable(e)
  /\ answered' = answered \cup {e}
  /\ doubled' = IF delivery[e] = "processing" THEN doubled \cup {e}
                                              ELSE doubled
  /\ UNCHANGED <<tableVars, overtaken, usageVars, sessions, inv, budgetVars,
                 histVars>>

\* WebhookDeliveryService.complete and the 200.
Completes(i) ==
  /\ At(i, "finish")
  /\ delivery' = [delivery EXCEPT ![inv[i].event] = "processed"]
  /\ overdue' = overdue \ {inv[i].event}
  /\ answered' = answered \cup {inv[i].event}
  /\ inv' = [inv EXCEPT ![i] = Idle]
  /\ UNCHANGED <<overtaken, doubled, dispatch, expired, comment, usageVars,
                 sessions, budgetVars, histVars>>

\* WebhookDeliveryService.fail and the 503.
Fails(i) ==
  /\ At(i, "fail")
  /\ delivery' = [delivery EXCEPT ![inv[i].event] = "failed"]
  /\ overdue' = overdue \ {inv[i].event}
  /\ inv' = [inv EXCEPT ![i] = Idle]
  /\ UNCHANGED <<metaVars, dispatch, expired, comment, usageVars, sessions,
                 budgetVars, histVars>>

-----------------------------------------------------------------------------
(* The engine.                                                             *)

Active == {k \in DOMAIN sessions : sessions[k].status = "active"}

\* AutomationSessionService.findActive.  The session that KV names counts only
\* if it is active, and of one automation at most one is, so that the cache
\* makes no difference.
Found == Active

\* The step an answer leads to.
Answer(e, step) ==
  IF step \notin Dms THEN End
  ELSE IF Taps[e] = step /\ OnTap[step] # End THEN OnTap[step] ELSE Then[step]

ResolveComment(i) ==
  /\ At(i, "resolve") /\ inv[i].event \in Comments
  /\ inv' = [inv EXCEPT ![i].at = "walk", ![i].step = First]
  /\ UNCHANGED <<tableVars, metaVars, usageVars, sessions, budgetVars,
                 histVars>>

ResolveMessage(i) ==
  /\ At(i, "resolve") /\ inv[i].event \in Messages
  /\ \/ /\ Found = {}
        /\ Goes(i, "finish")
        /\ unheard' = unheard \cup {inv[i].event}
     \/ \E k \in Found : LET next == Answer(inv[i].event, sessions[k].step) IN
          /\ inv' = [inv EXCEPT ![i].at = "walk", ![i].session = k,
                                ![i].step = next, ![i].asked = next]
          /\ UNCHANGED unheard
  /\ UNCHANGED <<tableVars, metaVars, usageVars, sessions, budgetVars,
                 delivered, excuses, replied, misread, window, dropped>>

Walking(i) ==
  /\ At(i, "walk") /\ inv[i].step # End /\ inv[i].visited < StepLimit

Decide(i) ==
  /\ Walking(i) /\ inv[i].step \in Conditions
  /\ \E next \in Outcomes[inv[i].step] :
       inv' = [inv EXCEPT ![i].step = next, ![i].visited = @ + 1]
  /\ UNCHANGED <<tableVars, metaVars, usageVars, sessions, budgetVars,
                 histVars>>

\* What execute does with the result of sendOnce: wait for the answer, or go
\* on with the next step.
GoesOn(i, visited) ==
  IF inv[i].step \in Waits
  THEN inv' = [inv EXCEPT ![i].at = "start", ![i].visited = visited]
  ELSE inv' = [inv EXCEPT ![i].at = "walk", ![i].visited = visited,
                          ![i].step = Then[inv[i].step]]

\* The walk is over: the limit, or the rest of evaluate.
Leave(i) ==
  /\ At(i, "walk") /\ ~Walking(i)
  /\ Goes(i, IF inv[i].visited >= StepLimit THEN "fail"
             ELSE IF inv[i].event \in Comments THEN "reply" ELSE "advance")
  /\ UNCHANGED <<tableVars, metaVars, usageVars, sessions, budgetVars,
                 histVars>>

-----------------------------------------------------------------------------
(* DmDispatchService.sendOnce.                                             *)

Row(i) == dispatch[inv[i].event][inv[i].step]
RowIs(i, status) ==
  /\ dispatch' = [dispatch EXCEPT ![inv[i].event][inv[i].step] = status]
  /\ expired' = expired \ {<<inv[i].event, inv[i].step>>}

Expired(i) == <<inv[i].event, inv[i].step>> \in expired

\* Fault: a DM that may have arrived is sent again.
ReservableForgetsState(i) ==
  Row(i) \in {"none", "notSent", "unknown"} \/ Expired(i)

\* The conflict clause of reserve.
Reservable(i) == Row(i) \in {"none", "notSent"} \/ Expired(i)

\* Invocations that have reserved a DM and not settled it.
Holding == {i \in Invocations : inv[i].at \in {"calling", "accepted"}}

\* The count at the time of a reservation: a new month begins at zero.
Current == IF newMonth THEN [sent |-> 0, reserved |-> 0] ELSE usage

\* A reset forgets the reservations that are open.
Resets ==
  /\ newMonth' = FALSE
  /\ IF newMonth
     THEN /\ window' = [given |-> 0, lost |-> 0,
                        carried |-> Cardinality(Holding)]
          /\ dropped' = 0
     ELSE UNCHANGED <<window, dropped>>

\* reserve, when the row can be claimed and the limit allows it.
Reserve(i) ==
  /\ Walking(i) /\ inv[i].step \in Dms /\ Reservable(i)
  /\ Current.sent + Current.reserved < SoftLimit
  /\ Resets
  /\ usage' = [Current EXCEPT !.reserved = @ + 1]
  /\ RowIs(i, "reserved")
  /\ inv' = [inv EXCEPT ![i].at = "calling", ![i].visited = @ + 1]
  /\ excuses' = IF Expired(i)
                THEN [excuses EXCEPT ![inv[i].event][inv[i].step] = @ + 1]
                ELSE excuses
  /\ UNCHANGED <<delivery, overdue, comment, metaVars, sessions,
                 budgetVars, delivered, replied, misread, unheard>>

\* reserve, when the limit is reached.
Skip(i) ==
  /\ Walking(i) /\ inv[i].step \in Dms /\ Reservable(i)
  /\ Current.sent + Current.reserved >= SoftLimit
  /\ Resets
  /\ usage' = Current
  /\ RowIs(i, "skipped")
  /\ GoesOn(i, inv[i].visited + 1)
  /\ UNCHANGED <<delivery, overdue, comment, metaVars, sessions,
                 budgetVars, delivered, excuses, replied, misread, unheard>>

\* reserve, when another claim holds the row or the DM is settled.
Refuse(i) ==
  /\ Walking(i) /\ inv[i].step \in Dms /\ ~Reservable(i)
  /\ IF Row(i) = "reserved"
     THEN inv' = [inv EXCEPT ![i].at = "fail", ![i].visited = @ + 1]
     ELSE GoesOn(i, inv[i].visited + 1)
  /\ UNCHANGED <<tableVars, metaVars, usageVars, sessions, budgetVars,
                 histVars>>

\* Meta takes the DM; the idempotency-key header is not part of its API.
Accept(i) ==
  /\ At(i, "calling")
  /\ Goes(i, "accepted")
  /\ delivered' = [delivered EXCEPT ![inv[i].event][inv[i].step] = @ + 1]
  /\ window' = [window EXCEPT !.given = @ + 1]
  /\ UNCHANGED <<tableVars, metaVars, usageVars, sessions, budgetVars,
                 excuses, replied, misread, dropped, unheard>>

\* A reservation becomes a DM that counts: greatest(0, dms_reserved - 1).
OneLess(n) == IF n = 0 THEN 0 ELSE n - 1
Counted == [sent |-> usage.sent + 1, reserved |-> OneLess(usage.reserved)]

\* The answer arrives and the transaction of sendOnce commits.
RecordSent(i) ==
  /\ At(i, "accepted")
  /\ usage' = Counted
  /\ RowIs(i, "sent")
  /\ GoesOn(i, inv[i].visited)
  /\ UNCHANGED <<delivery, overdue, comment, metaVars, newMonth, sessions,
                 budgetVars, histVars>>

\* Fault: a DM that may have arrived is given back.
RecordUnknownUncounted(i) ==
  /\ At(i, "accepted") /\ Fault
  /\ usage' = [usage EXCEPT !.reserved = OneLess(@)]
  /\ RowIs(i, "unknown")
  /\ Goes(i, "fail")
  /\ UNCHANGED <<delivery, overdue, comment, metaVars, newMonth, sessions,
                 months, lapses, histVars>>

\* recordFailure after an answer that cannot be read.
RecordUnknown(i) ==
  /\ At(i, "accepted") /\ Fault
  /\ usage' = Counted
  /\ RowIs(i, "unknown")
  /\ Goes(i, "fail")
  /\ UNCHANGED <<delivery, overdue, comment, metaVars, newMonth, sessions,
                 months, lapses, histVars>>

\* recordFailure after a refusal, or a request that failed: "before
\* acceptance", says the adapter, which cannot know.
RecordNotSent(i) ==
  /\ i \in Holding /\ Fault
  /\ usage' = [usage EXCEPT !.reserved = OneLess(@)]
  /\ RowIs(i, "notSent")
  /\ Goes(i, "fail")
  /\ IF At(i, "accepted")
     THEN /\ excuses' = [excuses EXCEPT ![inv[i].event][inv[i].step] = @ + 1]
          /\ window' = [window EXCEPT !.lost = @ + 1]
     ELSE UNCHANGED <<excuses, window>>
  /\ UNCHANGED <<delivery, overdue, comment, metaVars, newMonth, sessions,
                 months, lapses, delivered, replied, misread, dropped, unheard>>

-----------------------------------------------------------------------------
(* AutomationSessionService.                                               *)

\* Fault: the session before it stays active.
StartSessionBeside(i) ==
  /\ At(i, "start") /\ Len(sessions) < MaxSessions
  /\ sessions' = Append(sessions, [step |-> inv[i].step, status |-> "active"])
  /\ inv' = [inv EXCEPT ![i].at = "walk", ![i].step = End]
  /\ UNCHANGED <<tableVars, metaVars, usageVars, budgetVars, histVars>>

\* start: the active session is expired and a new one is inserted.
StartSession(i) ==
  /\ At(i, "start") /\ Len(sessions) < MaxSessions
  /\ sessions' = Append(
       [k \in DOMAIN sessions |->
          IF k \in Active THEN [sessions[k] EXCEPT !.status = "expired"]
          ELSE sessions[k]],
       [step |-> inv[i].step, status |-> "active"])
  /\ inv' = [inv EXCEPT ![i].at = "walk", ![i].step = End]
  /\ UNCHANGED <<tableVars, metaVars, usageVars, budgetVars, histVars>>

\* advance: the UPDATE by id makes the session active again, whatever has
\* become of it, which the unique index refuses if another one is active.
Advance(i) ==
  /\ At(i, "advance")
  /\ LET k == inv[i].session
         next == inv[i].asked
     IN
     \/ /\ next = End
        /\ sessions' = [sessions EXCEPT ![k].status = "completed"]
        /\ Goes(i, "finish")
     \/ /\ next # End /\ Active \subseteq {k}
        /\ sessions' = [sessions EXCEPT ![k] = [step |-> next,
                                                status |-> "active"]]
        /\ Goes(i, "finish")
     \/ /\ next # End /\ ~(Active \subseteq {k})
        /\ Goes(i, "fail")
        /\ UNCHANGED sessions
  /\ UNCHANGED <<tableVars, metaVars, usageVars, budgetVars, histVars>>

-----------------------------------------------------------------------------
(* replyToCommentOnce.                                                     *)

Replies(i, status) == comment' = [comment EXCEPT ![inv[i].event] = status]

\* The row is inserted; if there is one already, another claim has replied,
\* or is about to, or has failed for good.
ReserveReply(i) ==
  /\ At(i, "reply")
  /\ IF comment[inv[i].event] = "none"
     THEN Replies(i, "reserved") /\ Goes(i, "asking")
     ELSE Goes(i, "finish") /\ UNCHANGED comment
  /\ UNCHANGED <<delivery, overdue, dispatch, expired, metaVars, usageVars,
                 sessions, budgetVars, histVars>>

AcceptReply(i) ==
  /\ At(i, "asking")
  /\ Goes(i, "heard")
  /\ replied' = [replied EXCEPT ![inv[i].event] = @ + 1]
  /\ UNCHANGED <<tableVars, metaVars, usageVars, sessions, budgetVars,
                 delivered, excuses, misread, window, dropped, unheard>>

RecordReply(i) ==
  /\ At(i, "heard")
  /\ Replies(i, "sent") /\ Goes(i, "finish")
  /\ UNCHANGED <<delivery, overdue, dispatch, expired, metaVars, usageVars,
                 sessions, budgetVars, histVars>>

\* Fault: the row is deleted although the reply may have been made.
ReplyUnknownDeletes(i) ==
  /\ inv[i].at \in {"asking", "heard"} /\ Fault
  /\ Replies(i, "none") /\ Goes(i, "fail")
  /\ UNCHANGED <<delivery, overdue, dispatch, expired, metaVars, usageVars,
                 sessions, months, lapses, histVars>>

\* The connection fails or the answer cannot be read: "unknown" here.
ReplyUnknown(i) ==
  /\ inv[i].at \in {"asking", "heard"} /\ Fault
  /\ Replies(i, "unknown") /\ Goes(i, "fail")
  /\ UNCHANGED <<delivery, overdue, dispatch, expired, metaVars, usageVars,
                 sessions, months, lapses, histVars>>

\* An answer that is not ok.  The adapter calls it "not_sent", also when Meta
\* has made the reply; the row is deleted after a 429 or a 5xx, when another
\* attempt may succeed.
ReplyRefused(i) ==
  /\ inv[i].at \in {"asking", "heard"} /\ Fault
  /\ \E status \in {"none", "notSent"} :
       /\ Replies(i, status)
       /\ misread' = IF At(i, "heard") /\ status = "none"
                     THEN [misread EXCEPT ![inv[i].event] = @ + 1]
                     ELSE misread
  /\ Goes(i, "fail")
  /\ UNCHANGED <<delivery, overdue, dispatch, expired, metaVars, usageVars,
                 sessions, months, lapses, delivered, excuses, replied,
                 window, dropped, unheard>>

-----------------------------------------------------------------------------
(* Failures and time.                                                      *)

\* A statement, a transaction or a request to another service fails: what it
\* did is rolled back and the delivery is marked failed.  Dies is the end of
\* the invocation, which records nothing.
Ends(i, place) ==
  /\ ~At(i, "idle") /\ ~At(i, place) /\ Fault
  /\ dropped' = IF i \in Holding THEN dropped + 1 ELSE dropped
  /\ inv' = IF place = "idle" THEN [inv EXCEPT ![i] = Idle]
            ELSE [inv EXCEPT ![i].at = place]
  /\ UNCHANGED <<tableVars, metaVars, usageVars, sessions, months, lapses,
                 delivered, excuses, replied, misread, window, unheard>>

Throws(i) == Ends(i, "fail")
Dies(i) == Ends(i, "idle")

Lapse == lapses < MaxLapses /\ lapses' = lapses + 1

\* Five minutes pass over a claim, whether its holder still works or not.
DeliveryLapses(e) ==
  /\ Lapse /\ delivery[e] = "processing" /\ e \notin overdue
  /\ overdue' = overdue \cup {e}
  /\ UNCHANGED <<delivery, dispatch, expired, comment, metaVars, usageVars,
                 sessions, inv, months, faults, histVars>>

DispatchLapses(e, d) ==
  /\ Lapse /\ dispatch[e][d] = "reserved" /\ <<e, d>> \notin expired
  /\ expired' = expired \cup {<<e, d>>}
  /\ UNCHANGED <<delivery, overdue, dispatch, comment, metaVars, usageVars,
                 sessions, inv, months, faults, histVars>>

MonthEnds ==
  /\ months < MaxMonths /\ months' = months + 1
  /\ newMonth' = TRUE
  /\ UNCHANGED <<tableVars, metaVars, usage, sessions, inv, lapses, faults,
                 histVars>>

\* The billing webhook begins a new period of the subscription: dms_sent is
\* zero, and dms_reserved stays.  The event may arrive in a later month.
PeriodBegins ==
  /\ months < MaxMonths /\ months' = months + 1
  /\ usage' = [usage EXCEPT !.sent = 0] /\ newMonth' \in BOOLEAN
  /\ window' = [window EXCEPT !.given = 0, !.lost = 0]
  /\ UNCHANGED <<tableVars, metaVars, sessions, inv, lapses, faults,
                 delivered, excuses, replied, misread, dropped, unheard>>

Next ==
  \/ \E i \in Invocations :
       \/ \E e \in Events : Claim(i, e)
       \/ Completes(i) \/ Fails(i)
       \/ ResolveComment(i) \/ ResolveMessage(i) \/ Decide(i) \/ Leave(i)
       \/ Reserve(i) \/ Skip(i) \/ Refuse(i)
       \/ Accept(i) \/ RecordSent(i) \/ RecordUnknown(i) \/ RecordNotSent(i)
       \/ StartSession(i) \/ Advance(i)
       \/ ReserveReply(i) \/ AcceptReply(i) \/ RecordReply(i)
       \/ ReplyUnknown(i) \/ ReplyRefused(i)
       \/ Throws(i) \/ Dies(i)
  \/ \E e \in Events : Duplicate(e) \/ DeliveryLapses(e)
  \/ \E e \in Events, d \in Dms : DispatchLapses(e, d)
  \/ MonthEnds \/ PeriodBegins

Spec == Init /\ [][Next]_vars

-----------------------------------------------------------------------------
(* Properties.                                                             *)

\* Every variable stays within its table's or its record's domain.
TypeOK ==
  /\ delivery \in [Events -> {"none", "processing", "failed", "processed"}]
  /\ overdue \subseteq {e \in Events : delivery[e] = "processing"}
  /\ answered \subseteq Events /\ overtaken \subseteq Events
  /\ doubled \subseteq Events
  /\ dispatch \in [Events -> [Dms -> DispatchStatuses]]
  /\ expired \subseteq {p \in Events \X Dms : dispatch[p[1]][p[2]] = "reserved"}
  /\ comment \in [Comments -> CommentStatuses]
  /\ usage \in [sent : Nat, reserved : Nat] /\ newMonth \in BOOLEAN
  /\ sessions \in Seq([step : Steps, status : {"active", "expired", "completed"}])
  /\ \A k, l \in Active : k = l
  /\ inv \in [Invocations ->
       [at : Places, event : Events \cup {NoEvent}, step : Steps \cup {End},
        session : {0} \cup DOMAIN sessions, asked : Steps \cup {End},
        visited : Nat]]
  /\ months \in Nat /\ lapses \in Nat /\ faults \in Nat
  /\ delivered \in [Events -> [Dms -> Nat]]
  /\ excuses \in [Events -> [Dms -> Nat]]
  /\ replied \in [Comments -> Nat] /\ misread \in [Comments -> Nat]
  /\ window \in [given : Nat, lost : Nat, carried : Nat] /\ dropped \in Nat
  /\ unheard \subseteq Messages

\* A DM is sent a second time only when a claim was taken over after five
\* minutes or the answer to the request was lost: neither the repetition of an
\* event, nor a second invocation, nor the settlement of a claim by one that
\* has lost it sends it again (automation-engine and dm-dispatch together).
RepeatsAreExcused ==
  \A e \in Events, d \in Dms : delivered[e][d] <= 1 + excuses[e][d]

\* A comment is answered a second time only when Meta made the reply and
\* answered with a 429 or a 5xx: lost answers, repetitions of the event and
\* invocations that end early lead to no second reply, since the comment's row
\* is never taken over and is deleted only after an error (replyToCommentOnce).
CommentIsAnsweredOnce == \A e \in Comments : replied[e] <= 1 + misread[e]

\* A comment gets at most one reply.  It fails: a 5xx that Meta sends after it
\* has made the reply is taken for a refusal, and the event is delivered again.
RepliedOnce == \A e \in Comments : replied[e] <= 1

\* Between two resets no more DMs reach Meta than the plan's soft limit, but
\* for those whose answer was lost and those that a reset found under way
\* (the counters of dm-dispatch, reset by two different clocks).
SoftLimitHolds == window.given <= SoftLimit + window.lost + window.carried

\* An event whose claim has not been taken over is handled by one request at a
\* time, which finds its row as it left it, and when Meta has its 200 it has been
\* handled to the end: unless the 200 answered a repetition that came meanwhile
\* (webhook-ingress), nothing that fails, and no repetition, loses it.
HandledByOne ==
  \A e \in Events \ overtaken :
    /\ \A i, j \in Invocations : inv[i].event = e /\ inv[j].event = e => i = j
    /\ \A i \in Invocations : inv[i].event = e => delivery[e] = "processing"
    /\ e \in answered \ doubled => delivery[e] = "processed"

\* What Meta was told is accepted has been handled or is being handled.  It
\* fails: a repetition that comes while the row is "processing" gets a 200, and
\* when the first invocation then ends early, nobody delivers the event again.
AcceptedIsHandled ==
  \A e \in answered :
    delivery[e] = "processed" \/ \E i \in Invocations : inv[i].event = e

\* A processed event is not handled again.  It fails when an invocation that
\* works for more than five minutes marks the row "failed" after a second one
\* has completed it.
ProcessedIsFinal ==
  [][\A e \in Events : delivery[e] = "processed" => delivery'[e] = "processed"]_vars

\* A tap on a button that was sent is heard: the templates promise "an "I'm
\* following" button that re-checks status".
ButtonIsHeard == unheard = {}
=============================================================================
