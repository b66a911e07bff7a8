------------------------- MODULE AutomationsProofs -------------------------
(***************************************************************************)
(* The DMs and the replies of an automation, for every flow, every number  *)
(* of events and of invocations, and every soft limit.                     *)
(***************************************************************************)
EXTENDS Automations, FiniteSetTheorems, TLAPS

USE DEF metaVars

-----------------------------------------------------------------------------
(* The types, and what the place of an invocation says of its record.       *)

Rows == [step : Steps, status : {"active", "expired", "completed"}]

Records(ks) ==
  [at : Places, event : Events \cup {NoEvent}, step : Steps \cup {End},
   session : {0} \cup ks, asked : Steps \cup {End}, visited : Nat]

\* Where an invocation that handles a message relies on its session.
Sessioned == {"walk", "calling", "accepted", "start", "advance"}

\* What the steps of an invocation assume of the ones before.
Link(r, ks) ==
  /\ r.at # "idle" => r.event \in Events
  /\ r.at \in {"calling", "accepted", "start"} => r.step \in Dms
  /\ r.at \in {"reply", "asking", "heard"} => r.event \in Comments
  /\ r.at \in Sessioned => r.event \in Comments \/ r.session \in ks
  /\ r.at = "advance" => r.event \notin Comments

Fits(r, ks) == r \in Records(ks) /\ Link(r, ks)

TablesOK ==
  /\ delivery \in [Events -> {"none", "processing", "failed", "processed"}]
  /\ overdue \subseteq {e \in Events : delivery[e] = "processing"}
  /\ answered \subseteq Events /\ overtaken \subseteq Events
  /\ doubled \subseteq Events
DispatchOK ==
  /\ dispatch \in [Events -> [Dms -> DispatchStatuses]]
  /\ expired \subseteq {p \in Events \X Dms : dispatch[p[1]][p[2]] = "reserved"}
CommentOK == comment \in [Comments -> CommentStatuses]
UsageOK == usage \in [sent : Nat, reserved : Nat] /\ newMonth \in BOOLEAN
SessionsOK == sessions \in Seq(Rows) /\ \A k, l \in Active : k = l
InvOK == inv \in [Invocations -> Records(DOMAIN sessions)]
BudgetsOK == months \in Nat /\ lapses \in Nat /\ faults \in Nat
HistoryOK ==
  /\ delivered \in [Events -> [Dms -> Nat]]
  /\ excuses \in [Events -> [Dms -> Nat]]
  /\ replied \in [Comments -> Nat] /\ misread \in [Comments -> Nat]
  /\ window \in [given : Nat, lost : Nat, carried : Nat] /\ dropped \in Nat
  /\ unheard \subseteq Messages

Linked == \A i \in Invocations : Link(inv[i], DOMAIN sessions)

Types == /\ TablesOK /\ DispatchOK /\ CommentOK /\ UsageOK
         /\ SessionsOK /\ InvOK /\ BudgetsOK /\ HistoryOK

LEMMA TypeParts == Types <=> TypeOK
  BY DEF TypeOK, Types, TablesOK, DispatchOK, CommentOK, UsageOK, SessionsOK, InvOK,
         BudgetsOK, HistoryOK, Rows, Records

-----------------------------------------------------------------------------
(* The records.                                                             *)

\* More sessions do no harm.
LEMMA FitsMore ==
  ASSUME NEW ks, NEW ls, ks \subseteq ls, NEW r, Fits(r, ks)
  PROVE  Fits(r, ls)
  BY DEF Fits, Link, Records

\* An invocation's record is replaced by one that fits.
LEMMA RecordFits ==
  ASSUME NEW i \in Invocations, InvOK, Linked,
         DOMAIN sessions \subseteq (DOMAIN sessions)',
         NEW r, Fits(r, DOMAIN sessions), inv' = [inv EXCEPT ![i] = r]
  PROVE  InvOK' /\ Linked'
<1> DEFINE ks == DOMAIN sessions
           ls == (DOMAIN sessions)'
<1>1. \A j \in Invocations : Fits(inv'[j], ks)
  BY DEF Fits, InvOK, Linked
<1>2. \A j \in Invocations : Fits(inv'[j], ls)
  BY <1>1, FitsMore
<1>3. inv' = [j \in Invocations |-> inv'[j]]
  BY DEF InvOK
<1> QED
  BY <1>2, <1>3 DEF Fits, InvOK, Linked

\* A request ends.
LEMMA IdleFits ==
  ASSUME InvOK, Linked, NEW i \in Invocations, UNCHANGED sessions,
         inv' = [inv EXCEPT ![i] = Idle]
  PROVE  InvOK' /\ Linked'
<1>1. Fits(Idle, DOMAIN sessions)
  BY DEF Fits, Link, Records, Places, Sessioned, Idle
<1> QED
  BY <1>1, RecordFits

\* A request begins.
LEMMA ClaimFits ==
  ASSUME InvOK, Linked, NEW i \in Invocations, NEW e \in Events, Claim(i, e)
  PROVE  InvOK' /\ Linked'
<1> DEFINE r == [Idle EXCEPT !.at = "resolve", !.event = e]
<1>1. Idle \in Records(DOMAIN sessions)
  BY DEF Records, Places, Idle
<1>2. r \in Records(DOMAIN sessions) /\ r.at = "resolve" /\ r.event = e
  BY <1>1 DEF Records, Places
<1>3. Link(r, DOMAIN sessions)
  BY <1>2 DEF Link, Sessioned
<1>4. inv' = [inv EXCEPT ![i] = r] /\ sessions' = sessions
  BY DEF Claim
<1> QED
  BY <1>2, <1>3, <1>4, RecordFits DEF Fits

\* An invocation goes to another place, where its record still fits.
LEMMA GoesFits ==
  ASSUME InvOK, Linked, NEW i \in Invocations, NEW place \in Places,
         DOMAIN sessions \subseteq (DOMAIN sessions)', Goes(i, place),
         ~At(i, "idle"),
         \/ place \in {"finish", "fail"}
         \/ At(i, "calling") /\ place = "accepted"
         \/ At(i, "asking") /\ place = "heard"
         \/ At(i, "reply") /\ place = "asking"
         \/ At(i, "walk") /\ inv[i].event \in Comments /\ place = "reply"
         \/ At(i, "walk") /\ inv[i].event \notin Comments /\ place = "advance"
  PROVE  InvOK' /\ Linked'
<1> DEFINE r == [inv[i] EXCEPT !.at = place]
<1>1. inv[i] \in Records(DOMAIN sessions) /\ Link(inv[i], DOMAIN sessions)
  BY DEF InvOK, Linked
<1>2. r \in Records(DOMAIN sessions)
  BY <1>1 DEF Records
<1>3. r.at = place /\ r.event = inv[i].event /\ r.step = inv[i].step
      /\ r.session = inv[i].session
  BY <1>1 DEF Records
<1>4. Link(r, DOMAIN sessions)
  BY <1>1, <1>3 DEF Link, Sessioned, At
<1>5. inv' = [inv EXCEPT ![i] = r]
  BY DEF Goes
<1> QED
  BY <1>2, <1>4, <1>5, RecordFits DEF Fits

-----------------------------------------------------------------------------
(* The engine's steps.                                                      *)

\* The record of an invocation, as far as the steps rely on it.
LEMMA RecordOf ==
  ASSUME InvOK, Linked, NEW i \in Invocations
  PROVE  /\ inv[i] \in Records(DOMAIN sessions)
         /\ Link(inv[i], DOMAIN sessions)
  BY DEF InvOK, Linked

LEMMA ResolveCommentFits ==
  ASSUME InvOK, Linked, NEW i \in Invocations, ResolveComment(i)
  PROVE  InvOK' /\ Linked'
<1> DEFINE r == [inv[i] EXCEPT !.at = "walk", !.step = First]
<1>1. First \in Steps \cup {End}
  BY AutomationsAssumption
<1>2. /\ r \in Records(DOMAIN sessions) /\ r.at = "walk"
      /\ r.event \in Comments
  BY <1>1, RecordOf DEF Records, Places, ResolveComment
<1>3. Link(r, DOMAIN sessions)
  BY <1>2 DEF Link, Sessioned, Events
<1>4. inv' = [inv EXCEPT ![i] = r] /\ sessions' = sessions
  BY DEF ResolveComment
<1> QED
  BY <1>2, <1>3, <1>4, RecordFits DEF Fits

\* What a session leads to is a step.
LEMMA AnswerType ==
  ASSUME SessionsOK, NEW k \in Active, NEW e
  PROVE  /\ k \in DOMAIN sessions /\ sessions[k] \in Rows
         /\ Answer(e, sessions[k].step) \in Steps \cup {End}
<1>1. k \in DOMAIN sessions /\ sessions[k] \in Rows
  BY DEF SessionsOK, Active
<1>2. \A d \in Dms : /\ Then[d] \in Steps \cup {End}
                     /\ OnTap[d] \in Steps \cup {End}
  BY AutomationsAssumption
<1> QED
  BY <1>1, <1>2 DEF Answer

LEMMA ResolveMessageFits ==
  ASSUME InvOK, Linked, SessionsOK, NEW i \in Invocations, ResolveMessage(i)
  PROVE  InvOK' /\ Linked'
<1>1. CASE Found = {} /\ Goes(i, "finish")
  BY <1>1, GoesFits DEF ResolveMessage, Places, At
<1>2. CASE ~(Found = {} /\ Goes(i, "finish"))
  <2>1. PICK k \in Active :
          LET next == Answer(inv[i].event, sessions[k].step) IN
          inv' = [inv EXCEPT ![i].at = "walk", ![i].session = k,
                             ![i].step = next, ![i].asked = next]
    BY <1>2 DEF ResolveMessage, Found
  <2> DEFINE next == Answer(inv[i].event, sessions[k].step)
             r == [inv[i] EXCEPT !.at = "walk", !.session = k,
                                 !.step = next, !.asked = next]
  <2>2. k \in DOMAIN sessions /\ next \in Steps \cup {End}
    BY AnswerType
  <2>3. /\ r \in Records(DOMAIN sessions) /\ r.at = "walk"
        /\ r.event \in Messages /\ r.session = k
    <3> HIDE DEF next
    <3> QED
      BY <2>2, RecordOf DEF Records, Places, ResolveMessage
  <2>4. Link(r, DOMAIN sessions)
    BY <2>2, <2>3 DEF Link, Sessioned, Events
  <2>5. inv' = [inv EXCEPT ![i] = r] /\ sessions' = sessions
    BY <2>1 DEF ResolveMessage
  <2> QED
    BY <2>3, <2>4, <2>5, RecordFits DEF Fits
<1> QED
  BY <1>1, <1>2

LEMMA DecideFits ==
  ASSUME InvOK, Linked, NEW i \in Invocations, Decide(i)
  PROVE  InvOK' /\ Linked'
<1>1. PICK next \in Outcomes[inv[i].step] :
        inv' = [inv EXCEPT ![i].step = next, ![i].visited = @ + 1]
  BY DEF Decide
<1>2. next \in Steps \cup {End}
  BY AutomationsAssumption DEF Decide
<1> DEFINE n == inv[i].visited + 1
           r == [inv[i] EXCEPT !.step = next, !.visited = n]
<1>3. n \in Nat
  BY RecordOf DEF Records
<1>4. inv' = [inv EXCEPT ![i] = r] /\ sessions' = sessions
  BY <1>1 DEF Decide
<1> HIDE DEF n
<1>5. /\ r \in Records(DOMAIN sessions) /\ r.at = "walk"
      /\ r.event = inv[i].event /\ r.session = inv[i].session
  BY <1>2, <1>3, RecordOf DEF Records, Decide, Walking, At
<1>6. Link(r, DOMAIN sessions)
  BY <1>5, RecordOf DEF Link, Sessioned, Decide, Walking, At
<1> QED
  BY <1>4, <1>5, <1>6, RecordFits DEF Fits

LEMMA GoesOnFits ==
  ASSUME InvOK, Linked, NEW i \in Invocations, NEW visited \in Nat,
         inv[i].at \in {"walk", "accepted"}, inv[i].step \in Dms,
         GoesOn(i, visited), UNCHANGED sessions
  PROVE  InvOK' /\ Linked'
<1>1. Then[inv[i].step] \in Steps \cup {End}
  BY AutomationsAssumption
<1>2. CASE inv[i].step \in Waits
  <2> DEFINE r == [inv[i] EXCEPT !.at = "start", !.visited = visited]
  <2>1. /\ r \in Records(DOMAIN sessions) /\ r.at = "start"
        /\ r.event = inv[i].event /\ r.session = inv[i].session
        /\ r.step = inv[i].step
    BY RecordOf DEF Records, Places
  <2>2. Link(r, DOMAIN sessions)
    BY <2>1, RecordOf DEF Link, Sessioned
  <2>3. inv' = [inv EXCEPT ![i] = r]
    BY <1>2 DEF GoesOn
  <2> QED
    BY <2>1, <2>2, <2>3, RecordFits DEF Fits
<1>3. CASE inv[i].step \notin Waits
  <2> DEFINE r == [inv[i] EXCEPT !.at = "walk", !.visited = visited,
                                 !.step = Then[inv[i].step]]
  <2>1. /\ r \in Records(DOMAIN sessions) /\ r.at = "walk"
        /\ r.event = inv[i].event /\ r.session = inv[i].session
    BY <1>1, RecordOf DEF Records, Places
  <2>2. Link(r, DOMAIN sessions)
    BY <2>1, RecordOf DEF Link, Sessioned
  <2>3. inv' = [inv EXCEPT ![i] = r]
    BY <1>3 DEF GoesOn
  <2> QED
    BY <2>1, <2>2, <2>3, RecordFits DEF Fits
<1> QED
  BY <1>2, <1>3

\* The DM's row is reserved, or another claim holds it.
LEMMA VisitFits ==
  ASSUME InvOK, Linked, NEW i \in Invocations, NEW place \in {"calling", "fail"},
         At(i, "walk"), inv[i].step \in Dms, UNCHANGED sessions,
         inv' = [inv EXCEPT ![i].at = place, ![i].visited = @ + 1]
  PROVE  InvOK' /\ Linked'
<1> DEFINE n == inv[i].visited + 1
           r == [inv[i] EXCEPT !.at = place, !.visited = n]
<1>1. n \in Nat
  BY RecordOf DEF Records
<1>2. inv' = [inv EXCEPT ![i] = r]
  OBVIOUS
<1> HIDE DEF n
<1>3. /\ r \in Records(DOMAIN sessions) /\ r.at = place
      /\ r.event = inv[i].event /\ r.session = inv[i].session
      /\ r.step = inv[i].step
  BY <1>1, RecordOf DEF Records, Places
<1>4. Link(r, DOMAIN sessions)
  BY <1>3, RecordOf DEF Link, Sessioned, At
<1> QED
  BY <1>2, <1>3, <1>4, RecordFits DEF Fits

\* A new session becomes the only active one.
LEMMA StartSessionFits ==
  ASSUME InvOK, Linked, SessionsOK, NEW i \in Invocations, StartSession(i)
  PROVE  InvOK' /\ Linked' /\ SessionsOK'
<1> DEFINE n == Len(sessions)
           olds == [k \in DOMAIN sessions |->
             IF k \in Active THEN [sessions[k] EXCEPT !.status = "expired"]
             ELSE sessions[k]]
           new == [step |-> inv[i].step, status |-> "active"]
<1>1. inv[i].step \in Steps /\ At(i, "start")
  BY RecordOf DEF StartSession, At, Link, Steps
<1>2. new \in Rows
  BY <1>1 DEF Rows
<1>3. n \in Nat /\ DOMAIN sessions = 1..n /\ \A k \in 1..n : sessions[k] \in Rows
  BY DEF SessionsOK
<1>4. \A k \in 1..n : olds[k] \in Rows /\ olds[k].status # "active"
  <2> TAKE k \in 1..n
  <2>1. CASE k \in Active
    BY <1>3, <2>1 DEF Rows
  <2>2. CASE k \notin Active
    BY <1>3, <2>2 DEF Active
  <2> QED
    BY <2>1, <2>2
<1>5. olds \in Seq(Rows) /\ Len(olds) = n
  BY <1>3, <1>4
<1>6. sessions' = Append(olds, new)
  BY DEF StartSession
<1> HIDE DEF olds, new
<1>7. /\ sessions' \in Seq(Rows) /\ (DOMAIN sessions)' = 1..(n + 1)
      /\ \A k \in 1..n : sessions'[k] = olds[k]
  BY <1>2, <1>3, <1>5, <1>6
<1>8. Active' \subseteq {n + 1}
  BY <1>3, <1>4, <1>7 DEF Active
<1>9. SessionsOK'
  BY <1>7, <1>8 DEF SessionsOK
<1> DEFINE r == [inv[i] EXCEPT !.at = "walk", !.step = End]
<1>10. /\ r \in Records(DOMAIN sessions) /\ r.at = "walk"
       /\ r.event = inv[i].event /\ r.session = inv[i].session
  BY RecordOf DEF Records, Places
<1>11. Link(r, DOMAIN sessions)
  BY <1>1, <1>10, RecordOf DEF Link, Sessioned, At
<1>12. inv' = [inv EXCEPT ![i] = r]
  BY DEF StartSession
<1>13. DOMAIN sessions \subseteq (DOMAIN sessions)'
  BY <1>3, <1>7
<1> QED
  BY <1>9, <1>10, <1>11, <1>12, <1>13, RecordFits DEF Fits

\* The session that was answered moves on or is completed.
LEMMA AdvanceFits ==
  ASSUME InvOK, Linked, SessionsOK, NEW i \in Invocations, Advance(i)
  PROVE  InvOK' /\ Linked' /\ SessionsOK'
<1> DEFINE k == inv[i].session
           next == inv[i].asked
<1>1. At(i, "advance") /\ k \in DOMAIN sessions /\ next \in Steps \cup {End}
  BY RecordOf DEF Advance, At, Link, Sessioned, Records
<1>2. sessions[k] \in Rows
  BY <1>1 DEF SessionsOK
<1>3. PICK place \in {"finish", "fail"} : Goes(i, place)
  BY DEF Advance
<1>4. /\ SessionsOK' /\ DOMAIN sessions' = DOMAIN sessions
  <2>1. CASE /\ next = End
             /\ sessions' = [sessions EXCEPT ![k].status = "completed"]
    <3>1. sessions' = [sessions EXCEPT
                          ![k] = [sessions[k] EXCEPT !.status = "completed"]]
      BY <2>1
    <3>2. [sessions[k] EXCEPT !.status = "completed"] \in Rows
      BY <1>2 DEF Rows
    <3>3. sessions' \in Seq(Rows) /\ DOMAIN sessions' = DOMAIN sessions
      BY <1>1, <3>1, <3>2 DEF SessionsOK
    <3>4. Active' \subseteq Active
      <4> SUFFICES ASSUME NEW l \in Active' PROVE l \in Active
        OBVIOUS
      <4>1. l \in DOMAIN sessions /\ sessions'[l].status = "active"
        BY <3>3 DEF Active
      <4>2. l # k
        BY <1>1, <1>2, <3>1, <4>1 DEF SessionsOK, Rows
      <4> QED
        BY <3>1, <4>1, <4>2 DEF Active
    <3> QED
      BY <3>3, <3>4 DEF SessionsOK
  <2>2. CASE /\ next # End /\ Active \subseteq {k}
             /\ sessions' = [sessions EXCEPT ![k] = [step |-> next,
                                                     status |-> "active"]]
    <3>1. [step |-> next, status |-> "active"] \in Rows
      BY <1>1, <2>2 DEF Rows
    <3>2. sessions' \in Seq(Rows) /\ DOMAIN sessions' = DOMAIN sessions
      BY <1>1, <2>2, <3>1 DEF SessionsOK
    <3>3. Active' \subseteq {k}
      BY <2>2, <3>2 DEF Active
    <3> QED
      BY <3>2, <3>3 DEF SessionsOK
  <2>3. CASE UNCHANGED sessions
    BY <2>3 DEF SessionsOK, Active
  <2> QED
    BY <2>1, <2>2, <2>3 DEF Advance
<1>5. InvOK' /\ Linked'
  BY <1>1, <1>3, <1>4, GoesFits DEF Places, At
<1> QED
  BY <1>4, <1>5

-----------------------------------------------------------------------------
(* The inductive invariant.                                                 *)

\* The invocations that are about to send a DM, and those that reply to a
\* comment and have not recorded what became of it.
Calling(e, d) ==
  {i \in Invocations : /\ inv[i].at = "calling"
                       /\ inv[i].event = e /\ inv[i].step = d}
Asking(e) ==
  {i \in Invocations : inv[i].at \in {"asking", "heard"} /\ inv[i].event = e}

\* The invocations whose DM Meta has taken and which have not heard of it.
Accepted == {i \in Invocations : inv[i].at = "accepted"}

\* A row that anyone may claim at once stands for a DM that can still be sent.
Claims(e, d) == IF dispatch[e][d] \in {"none", "notSent"} THEN 1 ELSE 0

\* A DM that is sent, about to be sent or free to be claimed counts once.
Sendings(e, d) ==
  delivered[e][d] + Cardinality(Calling(e, d)) + Claims(e, d) <= 1 + excuses[e][d]

\* Who replies holds the comment's row, alone.  While Meta can still be asked for
\* the first time, every reply made so far was taken for a refusal.
Replying(e) ==
  /\ replied[e] <= 1 + misread[e]
  /\ comment[e] = "none" => replied[e] <= misread[e] /\ Asking(e) = {}
  /\ \A i \in Asking(e) : inv[i].at = "asking" => replied[e] <= misread[e]
  /\ \A i, j \in Asking(e) : i = j

\* The reservations of those who hold one, and of those who have ended with
\* one, are in the count, but for the ones that a reset forgot.
Held == Cardinality(Holding) + dropped
Reservations == Held <= usage.reserved + window.carried
Limit == usage.sent + Held <= SoftLimit + window.carried

\* A DM that Meta took is counted, is reserved, or its answer was lost.
GivenIsKnown ==
  window.given <= usage.sent + window.lost + Cardinality(Accepted) + dropped

DmInv == /\ \A e \in Events, d \in Dms : Sendings(e, d)
         /\ Reservations /\ Limit /\ GivenIsKnown
ReplyInv == \A e \in Comments : Replying(e)

IInv == Types /\ Linked /\ DmInv /\ ReplyInv

-----------------------------------------------------------------------------
(* Counting invocations.                                                    *)

LEMMA SubsetsCount ==
  ASSUME NEW S \in SUBSET Invocations
  PROVE  IsFiniteSet(S) /\ Cardinality(S) \in Nat
  BY AutomationsAssumption, FS_Subset, FS_CardinalityType

\* A set loses or gains one invocation.
LEMMA OneMore ==
  ASSUME NEW S \in SUBSET Invocations, NEW T \in SUBSET Invocations,
         NEW i, i \notin S, T = S \cup {i}
  PROVE  Cardinality(T) = Cardinality(S) + 1
  BY SubsetsCount, FS_AddElement

\* Only the record of i changes.
OnlyThis(i) == \A j \in Invocations \ {i} : inv'[j] = inv[j]

\* An invocation that holds no reservation before and after changes no count.
LEMMA OutsideCounts ==
  ASSUME NEW i \in Invocations, OnlyThis(i), i \notin Holding, i \notin Holding'
  PROVE  /\ Holding' = Holding /\ Accepted' = Accepted
         /\ \A e \in Events, d \in Dms : Calling(e, d)' = Calling(e, d)
  BY DEF OnlyThis, Holding, Accepted, Calling

\* An invocation that does not reply after the step.
LEMMA OutsideAsking ==
  ASSUME NEW i \in Invocations, OnlyThis(i), inv'[i].at \notin {"asking", "heard"},
         ReplyInv, UNCHANGED <<comment, replied, misread>>
  PROVE  ReplyInv'
<1>1. ASSUME NEW e \in Comments, NEW j \in Asking(e)'
      PROVE  j \in Asking(e) /\ inv'[j] = inv[j]
  BY DEF OnlyThis, Asking
<1> QED
  BY <1>1 DEF ReplyInv, Replying

\* Nothing that counts changes.
LEMMA SameCounts ==
  ASSUME DmInv, Holding' = Holding, Accepted' = Accepted,
         \A e \in Events, d \in Dms : Calling(e, d)' = Calling(e, d),
         UNCHANGED <<dispatch, usage, delivered, excuses, window, dropped>>
  PROVE  DmInv'
  BY DEF DmInv, Sendings, Claims, Reservations, Limit, Held, GivenIsKnown

-----------------------------------------------------------------------------
(* Steps that send nothing and reply to nothing.                            *)

Quiet(i) ==
  \/ \E e \in Events : Claim(i, e)
  \/ Completes(i) \/ Fails(i)
  \/ ResolveComment(i) \/ ResolveMessage(i) \/ Decide(i) \/ Leave(i)
  \/ Refuse(i) \/ StartSession(i) \/ Advance(i)

\* A message is not for this automation, or its answer leads to a step.
LEMMA ResolvesTo ==
  ASSUME InvOK, NEW i \in Invocations, ResolveMessage(i)
  PROVE  /\ OnlyThis(i) /\ inv'[i].event = inv[i].event
         /\ inv'[i].at \in {"walk", "finish"}
<1>1. inv[i] \in Records(DOMAIN sessions)
  BY DEF InvOK
<1>2. CASE Found = {} /\ Goes(i, "finish")
  BY <1>1, <1>2 DEF Goes, OnlyThis, InvOK, Records
<1>3. CASE ~(Found = {} /\ Goes(i, "finish"))
  <2>1. PICK k \in Found :
          LET next == Answer(inv[i].event, sessions[k].step) IN
          inv' = [inv EXCEPT ![i].at = "walk", ![i].session = k,
                             ![i].step = next, ![i].asked = next]
    BY <1>3 DEF ResolveMessage
  <2> DEFINE next == Answer(inv[i].event, sessions[k].step)
             r == [inv[i] EXCEPT !.at = "walk", !.session = k,
                                 !.step = next, !.asked = next]
  <2>2. inv' = [inv EXCEPT ![i] = r]
    BY <2>1
  <2>3. r.at = "walk" /\ r.event = inv[i].event
    <3> HIDE DEF next
    <3> QED
      BY <1>1 DEF Records
  <2> HIDE DEF r
  <2> QED
    BY <2>2, <2>3 DEF OnlyThis, InvOK
<1> QED
  BY <1>2, <1>3

\* What such a step does to the places.
LEMMA QuietPlaces ==
  ASSUME InvOK, NEW i \in Invocations, Quiet(i)
  PROVE  /\ OnlyThis(i) /\ i \notin Holding
         /\ inv'[i].at \notin {"calling", "accepted", "asking", "heard"}
<1>1. inv[i] \in Records(DOMAIN sessions)
  BY DEF InvOK
<1>2. Idle \in Records(DOMAIN sessions)
  BY DEF Idle, Records, Places
<1>3. ASSUME NEW e \in Events, Claim(i, e)
      PROVE  OnlyThis(i) /\ i \notin Holding /\ inv'[i].at = "resolve"
  BY <1>2, <1>3 DEF Claim, OnlyThis, Holding, At, InvOK, Records
<1>4. CASE Completes(i) \/ Fails(i)
  BY <1>2, <1>4 DEF Completes, Fails, OnlyThis, Holding, At, InvOK, Idle
<1>5. CASE ResolveComment(i)
  BY <1>1, <1>5 DEF ResolveComment, OnlyThis, Holding, At, InvOK, Records
<1>6. CASE ResolveMessage(i)
  BY <1>6, ResolvesTo DEF ResolveMessage, Holding, At
<1>7. CASE Decide(i)
  BY <1>1, <1>7 DEF Decide, Walking, OnlyThis, Holding, At, InvOK, Records
<1>8. CASE Leave(i)
  BY <1>1, <1>8 DEF Leave, Goes, OnlyThis, Holding, At, InvOK, Records
<1>9. CASE Refuse(i)
  BY <1>1, <1>9
     DEF Refuse, GoesOn, Walking, OnlyThis, Holding, At, InvOK, Records
<1>10. CASE StartSession(i)
  BY <1>1, <1>10 DEF StartSession, OnlyThis, Holding, At, InvOK, Records
<1>11. CASE Advance(i)
  BY <1>1, <1>11 DEF Advance, Goes, OnlyThis, Holding, At, InvOK, Records
<1> QED
  BY <1>3, <1>4, <1>5, <1>6, <1>7, <1>8, <1>9, <1>10, <1>11 DEF Quiet

LEMMA QuietTypes ==
  ASSUME Types, Linked, NEW i \in Invocations, Quiet(i)
  PROVE  Types' /\ Linked'
<1> USE DEF Types
<1>1. inv[i] \in Records(DOMAIN sessions) /\ Link(inv[i], DOMAIN sessions)
  BY RecordOf
<1>2. InvOK' /\ Linked' /\ SessionsOK'
  <2>1. ASSUME NEW e \in Events, Claim(i, e) PROVE InvOK' /\ Linked' /\ SessionsOK'
    BY <2>1, ClaimFits DEF Claim, SessionsOK, Active
  <2>2. CASE Completes(i) \/ Fails(i)
    BY <2>2, IdleFits DEF Completes, Fails, SessionsOK, Active
  <2>3. CASE ResolveComment(i)
    BY <2>3, ResolveCommentFits DEF ResolveComment, SessionsOK, Active
  <2>4. CASE ResolveMessage(i)
    BY <2>4, ResolveMessageFits DEF ResolveMessage, SessionsOK, Active
  <2>5. CASE Decide(i)
    BY <2>5, DecideFits DEF Decide, SessionsOK, Active
  <2>6. CASE Leave(i)
    BY <2>6, GoesFits DEF Leave, Places, At, SessionsOK, Active
  <2>7. CASE Refuse(i)
    <3>1. inv[i].visited + 1 \in Nat
      BY <1>1 DEF Records
    <3> QED
      BY <2>7, <3>1, VisitFits, GoesOnFits
         DEF Refuse, Walking, At, SessionsOK, Active
  <2>8. CASE StartSession(i)
    BY <2>8, StartSessionFits
  <2>9. CASE Advance(i)
    BY <2>9, AdvanceFits
  <2> QED
    BY <2>1, <2>2, <2>3, <2>4, <2>5, <2>6, <2>7, <2>8, <2>9 DEF Quiet
<1>3. /\ UNCHANGED <<dispatch, expired, comment, usage, newMonth, months,
                      lapses, faults>>
      /\ UNCHANGED <<delivered, excuses, replied, misread, window, dropped>>
  BY DEF Quiet, Claim, Completes, Fails, ResolveComment, ResolveMessage, Decide,
         Leave, Refuse, StartSession, Advance, tableVars, usageVars, budgetVars,
         histVars
<1>4. unheard' \subseteq Messages
  <2>1. CASE ResolveMessage(i)
    BY <2>1 DEF ResolveMessage, HistoryOK
  <2>2. CASE UNCHANGED unheard
    BY <2>2 DEF HistoryOK
  <2> QED
    BY <2>1, <2>2
       DEF Quiet, Claim, Completes, Fails, ResolveComment, Decide, Leave, Refuse,
           StartSession, Advance, histVars
<1>5. TablesOK'
  <2>1. ASSUME NEW e \in Events, Claim(i, e) PROVE TablesOK'
    BY <2>1 DEF Claim, TablesOK
  <2>2. CASE Completes(i)
    BY <1>1, <2>2 DEF Completes, TablesOK, Link, At
  <2>3. CASE Fails(i)
    BY <1>1, <2>3 DEF Fails, TablesOK, Link, At
  <2>4. CASE UNCHANGED <<delivery, overdue, metaVars>>
    BY <2>4 DEF TablesOK
  <2> QED
    BY <2>1, <2>2, <2>3, <2>4
       DEF Quiet, ResolveComment, ResolveMessage, Decide, Leave, Refuse,
           StartSession, Advance, tableVars
<1> QED
  BY <1>2, <1>3, <1>4, <1>5
     DEF DispatchOK, CommentOK, UsageOK, BudgetsOK, HistoryOK

LEMMA QuietStep ==
  ASSUME IInv, NEW i \in Invocations, Quiet(i)
  PROVE  IInv'
<1>1. Types /\ InvOK /\ Linked /\ DmInv /\ ReplyInv
  BY DEF IInv, Types
<1>2. /\ OnlyThis(i) /\ i \notin Holding
      /\ inv'[i].at \notin {"calling", "accepted", "asking", "heard"}
  BY <1>1, QuietPlaces
<1>3. UNCHANGED <<dispatch, comment, usage, delivered, excuses, window, dropped,
                  replied, misread>>
  BY DEF Quiet, Claim, Completes, Fails, ResolveComment, ResolveMessage, Decide,
         Leave, Refuse, StartSession, Advance, tableVars, usageVars, histVars
<1>4. i \notin Holding'
  BY <1>2 DEF Holding
<1>5. DmInv'
  BY <1>1, <1>2, <1>3, <1>4, OutsideCounts, SameCounts
<1>6. ReplyInv'
  BY <1>1, <1>2, <1>3, OutsideAsking
<1> QED
  BY <1>1, <1>5, <1>6, QuietTypes DEF IInv

-----------------------------------------------------------------------------
(* DMs.                                                                     *)

\* One for the DM of an invocation at a place, nothing for the others.
One(i, place, e, d) ==
  IF At(i, place) /\ inv[i].event = e /\ inv[i].step = d THEN 1 ELSE 0

\* An invocation reserves a DM.
LEMMA ReservesCounts ==
  ASSUME NEW i \in Invocations, OnlyThis(i), i \notin Holding, At(i, "calling")'
  PROVE  /\ Cardinality(Holding') = Cardinality(Holding) + 1
         /\ Accepted' = Accepted
         /\ \A e \in Events, d \in Dms :
              Cardinality(Calling(e, d)') =
                Cardinality(Calling(e, d)) + One(i, "calling", e, d)'
<1>1. Holding' = Holding \cup {i} /\ Accepted' = Accepted
  BY DEF OnlyThis, Holding, Accepted, At
<1>2. ASSUME NEW e \in Events, NEW d \in Dms
      PROVE  Cardinality(Calling(e, d)') =
               Cardinality(Calling(e, d)) + One(i, "calling", e, d)'
  <2>1. Calling(e, d) \in SUBSET Invocations /\ i \notin Calling(e, d)
    BY DEF Calling, Holding
  <2>2. CASE One(i, "calling", e, d)' = 1
    <3>1. Calling(e, d)' = Calling(e, d) \cup {i}
      BY <2>2 DEF Calling, OnlyThis, One, At
    <3> QED
      BY <2>1, <2>2, <3>1, OneMore, SubsetsCount
  <2>3. CASE One(i, "calling", e, d)' = 0
    <3>1. Calling(e, d)' = Calling(e, d)
      BY <2>1, <2>3 DEF Calling, OnlyThis, One, At
    <3> QED
      BY <2>1, <2>3, <3>1, SubsetsCount
  <2> QED
    BY <2>2, <2>3 DEF One
<1> QED
  BY <1>1, <1>2, OneMore DEF Holding

\* Meta takes the DM of an invocation.
LEMMA AcceptCounts ==
  ASSUME NEW i \in Invocations, OnlyThis(i), At(i, "calling"), At(i, "accepted")'
  PROVE  /\ Holding' = Holding
         /\ Cardinality(Accepted') = Cardinality(Accepted) + 1
         /\ \A e \in Events, d \in Dms :
              Cardinality(Calling(e, d)) =
                Cardinality(Calling(e, d)') + One(i, "calling", e, d)
<1>1. Holding' = Holding /\ Accepted' = Accepted \cup {i} /\ i \notin Accepted
  BY DEF OnlyThis, Holding, Accepted, At
<1>2. ASSUME NEW e \in Events, NEW d \in Dms
      PROVE  Cardinality(Calling(e, d)) =
               Cardinality(Calling(e, d)') + One(i, "calling", e, d)
  <2>1. Calling(e, d)' \in SUBSET Invocations /\ i \notin Calling(e, d)'
    BY DEF Calling, At
  <2>2. CASE One(i, "calling", e, d) = 1
    <3>1. Calling(e, d) = Calling(e, d)' \cup {i}
      BY <2>2 DEF Calling, OnlyThis, One, At
    <3> QED
      BY <2>1, <2>2, <3>1, OneMore, SubsetsCount
  <2>3. CASE One(i, "calling", e, d) = 0
    <3>1. Calling(e, d)' = Calling(e, d)
      BY <2>1, <2>3 DEF Calling, OnlyThis, One, At
    <3> QED
      BY <2>1, <2>3, <3>1, SubsetsCount
  <2> QED
    BY <2>2, <2>3 DEF One
<1> QED
  BY <1>1, <1>2, OneMore DEF Accepted

\* An invocation settles its reservation or ends with it.
LEMMA LeavesCounts ==
  ASSUME NEW i \in Holding, OnlyThis(i), i \notin Holding'
  PROVE  /\ Cardinality(Holding) = Cardinality(Holding') + 1
         /\ Cardinality(Accepted) =
              Cardinality(Accepted') + (IF At(i, "accepted") THEN 1 ELSE 0)
         /\ \A e \in Events, d \in Dms :
              Cardinality(Calling(e, d)) =
                Cardinality(Calling(e, d)') + One(i, "calling", e, d)
<1>1. Holding = Holding' \cup {i} /\ i \in Invocations
  BY DEF OnlyThis, Holding
<1>2. i \notin Accepted' /\ \A e \in Events, d \in Dms : i \notin Calling(e, d)'
  BY DEF Accepted, Calling, Holding
<1>3. Cardinality(Accepted) =
        Cardinality(Accepted') + (IF At(i, "accepted") THEN 1 ELSE 0)
  <2>1. Accepted \in SUBSET Invocations /\ Accepted' \in SUBSET Invocations
    BY DEF Accepted
  <2>2. CASE At(i, "accepted")
    <3>1. Accepted = Accepted' \cup {i}
      BY <1>1, <2>2 DEF Accepted, OnlyThis, At
    <3> QED
      BY <1>2, <2>1, <2>2, <3>1, OneMore
  <2>3. CASE ~At(i, "accepted")
    <3>1. Accepted = Accepted'
      BY <1>1, <1>2, <2>3 DEF Accepted, OnlyThis, At
    <3> QED
      BY <2>1, <2>3, <3>1, SubsetsCount
  <2> QED
    BY <2>2, <2>3
<1>4. ASSUME NEW e \in Events, NEW d \in Dms
      PROVE  Cardinality(Calling(e, d)) =
               Cardinality(Calling(e, d)') + One(i, "calling", e, d)
  <2>1. /\ Calling(e, d) \in SUBSET Invocations
        /\ Calling(e, d)' \in SUBSET Invocations
    BY DEF Calling
  <2>2. CASE One(i, "calling", e, d) = 1
    <3>1. Calling(e, d) = Calling(e, d)' \cup {i}
      BY <1>1, <2>2 DEF Calling, OnlyThis, One, At
    <3> QED
      BY <1>2, <2>1, <2>2, <3>1, OneMore, SubsetsCount
  <2>3. CASE One(i, "calling", e, d) = 0
    <3>1. Calling(e, d)' = Calling(e, d)
      BY <1>1, <1>2, <2>3 DEF Calling, OnlyThis, One, At
    <3> QED
      BY <2>1, <2>3, <3>1, SubsetsCount
  <2> QED
    BY <2>2, <2>3 DEF One
<1>5. Holding \in SUBSET Invocations /\ Holding' \in SUBSET Invocations
  BY DEF Holding
<1> QED
  BY <1>1, <1>3, <1>4, <1>5, OneMore

\* The row of a DM changes its status.
LEMMA RowChanges ==
  ASSUME DispatchOK, NEW i \in Invocations, NEW status \in DispatchStatuses,
         inv[i].event \in Events, inv[i].step \in Dms, RowIs(i, status)
  PROVE  /\ DispatchOK'
         /\ \A e \in Events, d \in Dms :
              dispatch'[e][d] = IF inv[i].event = e /\ inv[i].step = d
                                THEN status ELSE dispatch[e][d]
<1>1. /\ dispatch' \in [Events -> [Dms -> DispatchStatuses]]
      /\ \A e \in Events, d \in Dms :
           dispatch'[e][d] = IF inv[i].event = e /\ inv[i].step = d
                             THEN status ELSE dispatch[e][d]
  BY DEF DispatchOK, RowIs
<1>2. ASSUME NEW p \in expired'
      PROVE  p \in Events \X Dms /\ dispatch'[p[1]][p[2]] = "reserved"
  <2>1. p \in Events \X Dms /\ dispatch[p[1]][p[2]] = "reserved"
    BY <1>2 DEF DispatchOK, RowIs
  <2>2. p # <<inv[i].event, inv[i].step>>
    BY <1>2 DEF RowIs
  <2> QED
    BY <1>1, <2>1, <2>2
<1> QED
  BY <1>1, <1>2 DEF DispatchOK

\* The walk is at a DM of its event.
LEMMA WalkAtDm ==
  ASSUME InvOK, Linked, NEW i \in Invocations, Walking(i), inv[i].step \in Dms
  PROVE  /\ inv[i] \in Records(DOMAIN sessions) /\ At(i, "walk")
         /\ inv[i].event \in Events /\ i \notin Holding
  BY RecordOf DEF Link, Walking, At, Holding

\* What a reservation finds in the count.
LEMMA CurrentType ==
  ASSUME UsageOK
  PROVE  /\ Current \in [sent : Nat, reserved : Nat]
         /\ newMonth => Current.sent = 0 /\ Current.reserved = 0
         /\ ~newMonth => Current = usage
  BY DEF UsageOK, Current

LEMMA ResetsTypes ==
  ASSUME UsageOK, HistoryOK, Resets
  PROVE  /\ newMonth' \in BOOLEAN
         /\ window' \in [given : Nat, lost : Nat, carried : Nat]
         /\ dropped' \in Nat
         /\ newMonth => /\ window'.given = 0 /\ window'.lost = 0 /\ dropped' = 0
                        /\ window'.carried = Cardinality(Holding)
         /\ ~newMonth => window' = window /\ dropped' = dropped
<1>1. Cardinality(Holding) \in Nat
  BY SubsetsCount DEF Holding
<1>2. newMonth' \in BOOLEAN
  BY DEF Resets
<1>3. CASE newMonth
  <2>1. /\ window' = [given |-> 0, lost |-> 0, carried |-> Cardinality(Holding)]
        /\ dropped' = 0
    BY <1>3 DEF Resets
  <2> QED
    BY <1>1, <1>2, <1>3, <2>1
<1>4. CASE ~newMonth
  <2>1. window' = window /\ dropped' = dropped
    BY <1>4 DEF Resets
  <2> QED
    BY <1>2, <1>4, <2>1 DEF HistoryOK
<1> QED
  BY <1>3, <1>4

LEMMA ReserveStep ==
  ASSUME IInv, NEW i \in Invocations, Reserve(i)
  PROVE  IInv'
<1> DEFINE e == inv[i].event
           d == inv[i].step
<1>1. /\ Types /\ InvOK /\ Linked /\ UsageOK /\ DispatchOK /\ HistoryOK
      /\ DmInv /\ ReplyInv
  BY DEF IInv, Types
<1>2. /\ inv[i] \in Records(DOMAIN sessions) /\ At(i, "walk")
      /\ e \in Events /\ d \in Dms /\ i \notin Holding
  BY <1>1, WalkAtDm DEF Reserve
<1>3. InvOK' /\ Linked'
  BY <1>1, <1>2, VisitFits DEF Reserve
<1>4. /\ DispatchOK'
      /\ \A f \in Events, c \in Dms :
           dispatch'[f][c] = IF e = f /\ d = c THEN "reserved" ELSE dispatch[f][c]
  BY <1>1, <1>2, RowChanges DEF Reserve, DispatchStatuses
<1>5. /\ Current \in [sent : Nat, reserved : Nat]
      /\ newMonth => Current.sent = 0 /\ Current.reserved = 0
      /\ ~newMonth => Current = usage
  BY <1>1, CurrentType
<1>6. /\ usage' \in [sent : Nat, reserved : Nat]
      /\ usage'.sent = Current.sent /\ usage'.reserved = Current.reserved + 1
  BY <1>5 DEF Reserve
<1>7. /\ newMonth' \in BOOLEAN
      /\ window' \in [given : Nat, lost : Nat, carried : Nat]
      /\ dropped' \in Nat
      /\ newMonth => /\ window'.given = 0 /\ window'.lost = 0 /\ dropped' = 0
                     /\ window'.carried = Cardinality(Holding)
      /\ ~newMonth => window' = window /\ dropped' = dropped
  BY <1>1, ResetsTypes DEF Reserve
<1>8. /\ excuses' \in [Events -> [Dms -> Nat]]
      /\ \A f \in Events, c \in Dms :
           excuses'[f][c] = IF Expired(i) /\ e = f /\ d = c
                            THEN excuses[f][c] + 1 ELSE excuses[f][c]
  <2>1. excuses \in [Events -> [Dms -> Nat]]
    BY <1>1 DEF HistoryOK
  <2> QED
    BY <1>2, <2>1 DEF Reserve
<1>9. Types'
  BY <1>1, <1>3, <1>4, <1>6, <1>7, <1>8
     DEF Reserve, Types, TablesOK, CommentOK, UsageOK, SessionsOK, Active,
         BudgetsOK, HistoryOK, budgetVars
<1>10. /\ OnlyThis(i) /\ At(i, "calling")' /\ inv'[i].event = e /\ inv'[i].step = d
  BY <1>1, <1>2 DEF Reserve, OnlyThis, At, InvOK, Records
<1>11. /\ Cardinality(Holding') = Cardinality(Holding) + 1
       /\ Accepted' = Accepted
       /\ \A f \in Events, c \in Dms :
            Cardinality(Calling(f, c)') =
              Cardinality(Calling(f, c)) + One(i, "calling", f, c)'
  BY <1>2, <1>10, ReservesCounts
<1>12. ASSUME NEW f \in Events, NEW c \in Dms PROVE Sendings(f, c)'
  <2>1. Sendings(f, c) /\ Cardinality(Calling(f, c)) \in Nat
    BY <1>1, SubsetsCount DEF DmInv, Calling
  <2>2. delivered'[f][c] = delivered[f][c]
    BY DEF Reserve
  <2>3. delivered[f][c] \in Nat /\ excuses[f][c] \in Nat
    BY <1>1 DEF HistoryOK
  <2>4. CASE e = f /\ d = c
    <3>1. One(i, "calling", f, c)' = 1
      BY <1>10, <2>4 DEF One
    <3>2. Claims(f, c)' = 0 /\ Claims(f, c) \in Nat
      BY <1>4, <2>4 DEF Claims
    <3>3. \/ Claims(f, c) = 1
          \/ excuses'[f][c] = excuses[f][c] + 1
      BY <1>8, <2>4 DEF Reserve, Reservable, Row, Claims
    <3>4. excuses'[f][c] \in {excuses[f][c], excuses[f][c] + 1}
      BY <1>8
    <3> QED
      BY <1>11, <2>1, <2>2, <2>3, <3>1, <3>2, <3>3, <3>4 DEF Sendings
  <2>5. CASE ~(e = f /\ d = c)
    <3>1. One(i, "calling", f, c)' = 0
      BY <1>10, <2>5 DEF One
    <3>2. Claims(f, c)' = Claims(f, c)
      BY <1>4, <2>5 DEF Claims
    <3>3. excuses'[f][c] = excuses[f][c]
      BY <1>8, <2>5
    <3> QED
      BY <1>11, <2>1, <2>2, <3>1, <3>2, <3>3 DEF Sendings
  <2> QED
    BY <2>4, <2>5
<1>13. Reservations' /\ Limit' /\ GivenIsKnown'
  <2>1. Reservations /\ Limit /\ GivenIsKnown
    BY <1>1 DEF DmInv
  <2>2. /\ Cardinality(Holding) \in Nat /\ Cardinality(Accepted) \in Nat
        /\ SoftLimit \in Nat /\ dropped \in Nat
        /\ window \in [given : Nat, lost : Nat, carried : Nat]
        /\ usage \in [sent : Nat, reserved : Nat]
    BY <1>1, SubsetsCount, AutomationsAssumption
       DEF Holding, Accepted, HistoryOK, UsageOK
  <2>3. Current.sent + Current.reserved < SoftLimit
    BY DEF Reserve
  <2>4. CASE newMonth
    BY <1>5, <1>6, <1>7, <1>11, <2>2, <2>3, <2>4
       DEF Reservations, Limit, GivenIsKnown, Held
  <2>5. CASE ~newMonth
    BY <1>5, <1>6, <1>7, <1>11, <2>1, <2>2, <2>3, <2>5
       DEF Reservations, Limit, GivenIsKnown, Held
  <2> QED
    BY <2>4, <2>5
<1>14. ReplyInv'
  <2>1. /\ UNCHANGED <<comment, replied, misread>>
        /\ inv'[i].at \notin {"asking", "heard"}
    BY <1>10 DEF Reserve, At
  <2> QED
    BY <1>1, <1>10, <2>1, OutsideAsking
<1> QED
  BY <1>3, <1>9, <1>12, <1>13, <1>14 DEF IInv, DmInv

LEMMA SkipStep ==
  ASSUME IInv, NEW i \in Invocations, Skip(i)
  PROVE  IInv'
<1> DEFINE e == inv[i].event
           d == inv[i].step
<1>1. /\ Types /\ InvOK /\ Linked /\ UsageOK /\ DispatchOK /\ HistoryOK
      /\ DmInv /\ ReplyInv
  BY DEF IInv, Types
<1>2. /\ inv[i] \in Records(DOMAIN sessions) /\ At(i, "walk")
      /\ e \in Events /\ d \in Dms /\ i \notin Holding
  BY <1>1, WalkAtDm DEF Skip
<1>3. InvOK' /\ Linked'
  <2>1. inv[i].visited + 1 \in Nat
    BY <1>2 DEF Records
  <2> QED
    BY <1>1, <1>2, <2>1, GoesOnFits DEF Skip, At
<1>4. /\ DispatchOK'
      /\ \A f \in Events, c \in Dms :
           dispatch'[f][c] = IF e = f /\ d = c THEN "skipped" ELSE dispatch[f][c]
  BY <1>1, <1>2, RowChanges DEF Skip, DispatchStatuses
<1>5. /\ Current \in [sent : Nat, reserved : Nat] /\ usage' = Current
      /\ newMonth => Current.sent = 0 /\ Current.reserved = 0
      /\ ~newMonth => Current = usage
  BY <1>1, CurrentType DEF Skip
<1>6. /\ newMonth' \in BOOLEAN
      /\ window' \in [given : Nat, lost : Nat, carried : Nat]
      /\ dropped' \in Nat
      /\ newMonth => /\ window'.given = 0 /\ window'.lost = 0 /\ dropped' = 0
                     /\ window'.carried = Cardinality(Holding)
      /\ ~newMonth => window' = window /\ dropped' = dropped
  BY <1>1, ResetsTypes DEF Skip
<1>7. Types'
  BY <1>1, <1>3, <1>4, <1>5, <1>6
     DEF Skip, Types, TablesOK, CommentOK, UsageOK, SessionsOK, Active,
         BudgetsOK, HistoryOK, budgetVars
<1>8. /\ OnlyThis(i) /\ i \notin Holding' /\ inv'[i].at \notin {"asking", "heard"}
  BY <1>1, <1>2 DEF Skip, GoesOn, OnlyThis, Holding, InvOK, Records
<1>9. /\ Holding' = Holding /\ Accepted' = Accepted
      /\ \A f \in Events, c \in Dms : Calling(f, c)' = Calling(f, c)
  BY <1>2, <1>8, OutsideCounts
<1>10. ASSUME NEW f \in Events, NEW c \in Dms PROVE Sendings(f, c)'
  <2>1. Sendings(f, c) /\ Cardinality(Calling(f, c)) \in Nat
    BY <1>1, SubsetsCount DEF DmInv, Calling
  <2>2. UNCHANGED <<delivered, excuses>>
    BY DEF Skip
  <2>3. delivered[f][c] \in Nat /\ excuses[f][c] \in Nat
    BY <1>1 DEF HistoryOK
  <2>4. Claims(f, c)' \in Nat /\ Claims(f, c) \in Nat /\ Claims(f, c)' <= Claims(f, c)
    BY <1>4 DEF Claims
  <2> QED
    BY <1>9, <2>1, <2>2, <2>3, <2>4 DEF Sendings
<1>11. Reservations' /\ Limit' /\ GivenIsKnown'
  <2>1. Reservations /\ Limit /\ GivenIsKnown
    BY <1>1 DEF DmInv
  <2>2. /\ Cardinality(Holding) \in Nat /\ Cardinality(Accepted) \in Nat
        /\ SoftLimit \in Nat
    BY SubsetsCount, AutomationsAssumption DEF Holding, Accepted
  <2>3. CASE newMonth
    BY <1>5, <1>6, <1>9, <2>2, <2>3 DEF Reservations, Limit, GivenIsKnown, Held
  <2>4. CASE ~newMonth
    BY <1>5, <1>6, <1>9, <2>1, <2>4 DEF Reservations, Limit, GivenIsKnown, Held
  <2> QED
    BY <2>3, <2>4
<1>12. ReplyInv'
  <2>1. UNCHANGED <<comment, replied, misread>>
    BY DEF Skip
  <2> QED
    BY <1>1, <1>8, <2>1, OutsideAsking
<1> QED
  BY <1>3, <1>7, <1>10, <1>11, <1>12 DEF IInv, DmInv

\* What the invariant says of an invocation that holds a reservation.
LEMMA HoldingKnows ==
  ASSUME IInv, NEW i \in Holding
  PROVE  /\ i \in Invocations /\ inv[i] \in Records(DOMAIN sessions)
         /\ inv[i].event \in Events /\ inv[i].step \in Dms
         /\ Cardinality(Holding) \in Nat /\ Cardinality(Accepted) \in Nat
         /\ SoftLimit \in Nat /\ dropped \in Nat
         /\ window \in [given : Nat, lost : Nat, carried : Nat]
         /\ usage \in [sent : Nat, reserved : Nat]
         /\ Reservations /\ Limit /\ GivenIsKnown
<1>1. i \in Invocations /\ inv[i].at \in {"calling", "accepted"}
  BY DEF Holding
<1>2. inv[i] \in Records(DOMAIN sessions) /\ Link(inv[i], DOMAIN sessions)
  BY <1>1, RecordOf DEF IInv, Types
<1>3. Cardinality(Holding) \in Nat /\ Cardinality(Accepted) \in Nat
  BY SubsetsCount DEF Holding, Accepted
<1> QED
  BY <1>1, <1>2, <1>3, AutomationsAssumption
     DEF Link, IInv, Types, HistoryOK, UsageOK, DmInv

LEMMA AcceptStep ==
  ASSUME IInv, NEW i \in Invocations, Accept(i)
  PROVE  IInv'
<1> DEFINE e == inv[i].event
           d == inv[i].step
<1>1. /\ Types /\ InvOK /\ Linked /\ HistoryOK /\ DmInv /\ ReplyInv
      /\ i \in Holding
  BY DEF IInv, Types, Accept, At, Holding
<1>2. /\ inv[i] \in Records(DOMAIN sessions) /\ e \in Events /\ d \in Dms
      /\ Cardinality(Holding) \in Nat /\ Cardinality(Accepted) \in Nat
      /\ dropped \in Nat
      /\ window \in [given : Nat, lost : Nat, carried : Nat]
      /\ usage \in [sent : Nat, reserved : Nat]
      /\ Reservations /\ Limit /\ GivenIsKnown
  BY <1>1, HoldingKnows
<1>3. InvOK' /\ Linked'
  BY <1>1, GoesFits DEF Accept, At, Places
<1>4. OnlyThis(i) /\ At(i, "calling") /\ At(i, "accepted")'
  BY <1>1, <1>2 DEF Accept, Goes, OnlyThis, At, InvOK, Records
<1>5. /\ delivered' \in [Events -> [Dms -> Nat]]
      /\ \A f \in Events, c \in Dms :
           delivered'[f][c] = delivered[f][c] + One(i, "calling", f, c)
  <2>1. delivered \in [Events -> [Dms -> Nat]]
    BY <1>1 DEF HistoryOK
  <2> QED
    BY <1>2, <1>4, <2>1 DEF Accept, One
<1>6. /\ window' \in [given : Nat, lost : Nat, carried : Nat]
      /\ window'.given = window.given + 1 /\ window'.lost = window.lost
      /\ window'.carried = window.carried
  BY <1>2 DEF Accept
<1>7. Types'
  <2>1. TablesOK' /\ DispatchOK' /\ CommentOK'
    BY <1>1 DEF Accept, Types, TablesOK, DispatchOK, CommentOK, tableVars
  <2>2. UsageOK' /\ SessionsOK' /\ BudgetsOK'
    BY <1>1
       DEF Accept, Types, UsageOK, SessionsOK, Active, BudgetsOK, usageVars,
           budgetVars
  <2>3. HistoryOK'
    BY <1>1, <1>5, <1>6 DEF Accept, HistoryOK
  <2> QED
    BY <1>3, <2>1, <2>2, <2>3 DEF Types
<1>8. /\ Holding' = Holding
      /\ Cardinality(Accepted') = Cardinality(Accepted) + 1
      /\ \A f \in Events, c \in Dms :
           Cardinality(Calling(f, c)) =
             Cardinality(Calling(f, c)') + One(i, "calling", f, c)
  BY <1>4, AcceptCounts
<1>9. UNCHANGED <<dispatch, usage, comment, excuses, replied, misread,
                dropped>>
  BY DEF Accept, tableVars, usageVars
<1>10. ASSUME NEW f \in Events, NEW c \in Dms PROVE Sendings(f, c)'
  <2>1. /\ Sendings(f, c) /\ Cardinality(Calling(f, c)) \in Nat
        /\ Cardinality(Calling(f, c)') \in Nat
    BY <1>1, SubsetsCount DEF DmInv, Calling
  <2>2. delivered[f][c] \in Nat /\ excuses[f][c] \in Nat
    BY <1>1 DEF HistoryOK
  <2>3. Claims(f, c)' = Claims(f, c) /\ Claims(f, c) \in Nat
    BY <1>9 DEF Claims
  <2>4. One(i, "calling", f, c) \in Nat
    BY DEF One
  <2> QED
    BY <1>5, <1>8, <1>9, <2>1, <2>2, <2>3, <2>4 DEF Sendings
<1>11. Reservations' /\ Limit' /\ GivenIsKnown'
  BY <1>2, <1>6, <1>8, <1>9 DEF Reservations, Limit, GivenIsKnown, Held
<1>12. ReplyInv'
  BY <1>1, <1>4, <1>9, OutsideAsking DEF At
<1> QED
  BY <1>3, <1>7, <1>10, <1>11, <1>12 DEF IInv, DmInv

\* A DM that counts is settled.
LEMMA CountedStep ==
  ASSUME IInv, NEW i \in Invocations, RecordSent(i) \/ RecordUnknown(i)
  PROVE  IInv'
<1> DEFINE e == inv[i].event
           d == inv[i].step
<1>1. /\ Types /\ InvOK /\ Linked /\ DispatchOK /\ BudgetsOK /\ HistoryOK
      /\ DmInv /\ ReplyInv /\ i \in Holding /\ At(i, "accepted")
  BY DEF IInv, Types, RecordSent, RecordUnknown, At, Holding
<1>2. /\ inv[i] \in Records(DOMAIN sessions) /\ e \in Events /\ d \in Dms
      /\ Cardinality(Holding) \in Nat /\ Cardinality(Accepted) \in Nat
      /\ SoftLimit \in Nat /\ dropped \in Nat
      /\ window \in [given : Nat, lost : Nat, carried : Nat]
      /\ usage \in [sent : Nat, reserved : Nat]
      /\ Reservations /\ Limit /\ GivenIsKnown
  BY <1>1, HoldingKnows
<1>3. InvOK' /\ Linked'
  <2>1. inv[i].visited \in Nat /\ inv[i].at \in {"walk", "accepted"}
    BY <1>1, <1>2 DEF Records, At
  <2>2. CASE RecordSent(i)
    BY <1>1, <1>2, <2>1, <2>2, GoesOnFits DEF RecordSent
  <2>3. CASE RecordUnknown(i)
    BY <1>1, <2>3, GoesFits DEF RecordUnknown, At, Places
  <2> QED
    BY <2>2, <2>3
<1>4. PICK status \in {"sent", "unknown"} : RowIs(i, status)
  BY DEF RecordSent, RecordUnknown
<1>5. /\ DispatchOK'
      /\ \A f \in Events, c \in Dms :
           dispatch'[f][c] = IF e = f /\ d = c THEN status ELSE dispatch[f][c]
  BY <1>1, <1>2, <1>4, RowChanges DEF DispatchStatuses
<1>6. /\ usage' \in [sent : Nat, reserved : Nat]
      /\ usage'.sent = usage.sent + 1
      /\ usage.reserved <= usage'.reserved + 1
  BY <1>2 DEF RecordSent, RecordUnknown, Counted, OneLess
<1>7. /\ UNCHANGED <<delivery, overdue, metaVars, comment, newMonth, sessions,
                      months, lapses>>
      /\ UNCHANGED <<delivered, excuses, replied, misread, window, dropped, unheard>>
      /\ faults' \in Nat
  BY <1>1 DEF RecordSent, RecordUnknown, Fault, BudgetsOK, budgetVars, histVars
<1>8. Types'
  <2>1. TablesOK' /\ CommentOK' /\ UsageOK'
    BY <1>1, <1>6, <1>7 DEF Types, TablesOK, CommentOK, UsageOK
  <2>2. SessionsOK' /\ BudgetsOK' /\ HistoryOK'
    BY <1>1, <1>7 DEF Types, SessionsOK, Active, BudgetsOK, HistoryOK
  <2> QED
    BY <1>3, <1>5, <2>1, <2>2 DEF Types
<1>9. OnlyThis(i) /\ i \notin Holding' /\ inv'[i].at \notin {"asking", "heard"}
  BY <1>1, <1>2
     DEF RecordSent, RecordUnknown, GoesOn, Goes, OnlyThis, Holding, InvOK, Records
<1>10. /\ Cardinality(Holding) = Cardinality(Holding') + 1
       /\ Cardinality(Accepted) = Cardinality(Accepted') + 1
       /\ \A f \in Events, c \in Dms :
            Cardinality(Calling(f, c)) =
              Cardinality(Calling(f, c)') + One(i, "calling", f, c)
  BY <1>1, <1>9, LeavesCounts
<1>11. ASSUME NEW f \in Events, NEW c \in Dms PROVE Sendings(f, c)'
  <2>1. /\ Sendings(f, c) /\ Cardinality(Calling(f, c)) \in Nat
        /\ Cardinality(Calling(f, c)') \in Nat
    BY <1>1, SubsetsCount DEF DmInv, Calling
  <2>2. delivered[f][c] \in Nat /\ excuses[f][c] \in Nat
    BY <1>1 DEF HistoryOK
  <2>3. Claims(f, c)' \in Nat /\ Claims(f, c) \in Nat /\ Claims(f, c)' <= Claims(f, c)
    BY <1>5 DEF Claims
  <2>4. One(i, "calling", f, c) = 0
    BY <1>1 DEF One, At
  <2> QED
    BY <1>7, <1>10, <2>1, <2>2, <2>3, <2>4 DEF Sendings
<1>12. Reservations' /\ Limit' /\ GivenIsKnown'
  <2>1. Cardinality(Holding') \in Nat /\ Cardinality(Accepted') \in Nat
    BY SubsetsCount DEF Holding, Accepted
  <2> QED
    BY <1>2, <1>6, <1>7, <1>10, <2>1 DEF Reservations, Limit, GivenIsKnown, Held
<1>13. ReplyInv'
  BY <1>1, <1>7, <1>9, OutsideAsking
<1> QED
  BY <1>3, <1>8, <1>11, <1>12, <1>13 DEF IInv, DmInv

\* A reservation is given back.
LEMMA RecordNotSentStep ==
  ASSUME IInv, NEW i \in Invocations, RecordNotSent(i)
  PROVE  IInv'
<1> DEFINE e == inv[i].event
           d == inv[i].step
<1>1. /\ Types /\ InvOK /\ Linked /\ DispatchOK /\ BudgetsOK /\ HistoryOK
      /\ DmInv /\ ReplyInv /\ i \in Holding
      /\ At(i, "calling") \/ At(i, "accepted")
  BY DEF IInv, Types, RecordNotSent, At, Holding
<1>2. /\ inv[i] \in Records(DOMAIN sessions) /\ e \in Events /\ d \in Dms
      /\ Cardinality(Holding) \in Nat /\ Cardinality(Accepted) \in Nat
      /\ SoftLimit \in Nat /\ dropped \in Nat
      /\ window \in [given : Nat, lost : Nat, carried : Nat]
      /\ usage \in [sent : Nat, reserved : Nat]
      /\ Reservations /\ Limit /\ GivenIsKnown
  BY <1>1, HoldingKnows
<1>3. InvOK' /\ Linked'
  BY <1>1, GoesFits DEF RecordNotSent, At, Places
<1>4. /\ DispatchOK'
      /\ \A f \in Events, c \in Dms :
           dispatch'[f][c] = IF e = f /\ d = c THEN "notSent" ELSE dispatch[f][c]
  BY <1>1, <1>2, RowChanges DEF RecordNotSent, DispatchStatuses
<1>5. /\ usage' \in [sent : Nat, reserved : Nat]
      /\ usage'.sent = usage.sent
      /\ usage.reserved <= usage'.reserved + 1
  BY <1>2 DEF RecordNotSent, OneLess
<1>6. /\ UNCHANGED <<delivery, overdue, metaVars, comment, newMonth, sessions,
                      months, lapses>>
      /\ UNCHANGED <<delivered, replied, misread, dropped, unheard>>
      /\ faults' \in Nat
  BY <1>1 DEF RecordNotSent, Fault, BudgetsOK
<1> DEFINE late == IF At(i, "accepted") THEN 1 ELSE 0
<1>7. /\ excuses' \in [Events -> [Dms -> Nat]]
      /\ \A f \in Events, c \in Dms :
           excuses'[f][c] = excuses[f][c] + One(i, "accepted", f, c)
  <2>1. excuses \in [Events -> [Dms -> Nat]]
    BY <1>1 DEF HistoryOK
  <2>2. CASE At(i, "accepted")
    <3>1. excuses' = [excuses EXCEPT ![e][d] = @ + 1]
      BY <2>2 DEF RecordNotSent
    <3> QED
      BY <1>2, <2>1, <2>2, <3>1 DEF One
  <2>3. CASE ~At(i, "accepted")
    <3>1. excuses' = excuses
      BY <2>3 DEF RecordNotSent
    <3> QED
      BY <2>1, <2>3, <3>1 DEF One
  <2> QED
    BY <2>2, <2>3
<1>8. /\ window' \in [given : Nat, lost : Nat, carried : Nat]
      /\ window'.given = window.given /\ window'.carried = window.carried
      /\ window'.lost = window.lost + late
  <2>1. CASE At(i, "accepted")
    <3>1. window' = [window EXCEPT !.lost = @ + 1]
      BY <2>1 DEF RecordNotSent
    <3> QED
      BY <1>2, <2>1, <3>1
  <2>2. CASE ~At(i, "accepted")
    <3>1. window' = window
      BY <2>2 DEF RecordNotSent
    <3> QED
      BY <1>2, <2>2, <3>1
  <2> QED
    BY <2>1, <2>2
<1>9. Types'
  <2>1. TablesOK' /\ CommentOK' /\ UsageOK'
    BY <1>1, <1>5, <1>6 DEF Types, TablesOK, CommentOK, UsageOK
  <2>2. SessionsOK' /\ BudgetsOK' /\ HistoryOK'
    BY <1>1, <1>6, <1>7, <1>8 DEF Types, SessionsOK, Active, BudgetsOK, HistoryOK
  <2> QED
    BY <1>3, <1>4, <2>1, <2>2 DEF Types
<1>10. OnlyThis(i) /\ i \notin Holding' /\ inv'[i].at \notin {"asking", "heard"}
  BY <1>1, <1>2 DEF RecordNotSent, Goes, OnlyThis, Holding, InvOK, Records
<1>11. /\ Cardinality(Holding) = Cardinality(Holding') + 1
       /\ Cardinality(Accepted) = Cardinality(Accepted') + late
       /\ \A f \in Events, c \in Dms :
            Cardinality(Calling(f, c)) =
              Cardinality(Calling(f, c)') + One(i, "calling", f, c)
  BY <1>1, <1>10, LeavesCounts
<1>12. ASSUME NEW f \in Events, NEW c \in Dms PROVE Sendings(f, c)'
  <2>1. /\ Sendings(f, c) /\ Cardinality(Calling(f, c)) \in Nat
        /\ Cardinality(Calling(f, c)') \in Nat
    BY <1>1, SubsetsCount DEF DmInv, Calling
  <2>2. delivered[f][c] \in Nat /\ excuses[f][c] \in Nat
    BY <1>1 DEF HistoryOK
  <2>3. CASE e = f /\ d = c
    <3>1. One(i, "calling", f, c) + One(i, "accepted", f, c) = 1
      BY <1>1, <2>3 DEF One, At
    <3>2. Claims(f, c)' = 1 /\ Claims(f, c) \in {0, 1}
      BY <1>4, <2>3 DEF Claims
    <3>3. One(i, "calling", f, c) \in Nat /\ One(i, "accepted", f, c) \in Nat
      BY DEF One
    <3> QED
      BY <1>6, <1>7, <1>11, <2>1, <2>2, <3>1, <3>2, <3>3 DEF Sendings
  <2>4. CASE ~(e = f /\ d = c)
    <3>1. One(i, "calling", f, c) = 0 /\ One(i, "accepted", f, c) = 0
      BY <2>4 DEF One
    <3>2. Claims(f, c)' = Claims(f, c)
      BY <1>4, <2>4 DEF Claims
    <3> QED
      BY <1>6, <1>7, <1>11, <2>1, <2>2, <3>1, <3>2 DEF Sendings
  <2> QED
    BY <2>3, <2>4
<1>13. Reservations' /\ Limit' /\ GivenIsKnown'
  <2>1. Cardinality(Holding') \in Nat /\ Cardinality(Accepted') \in Nat
    BY SubsetsCount DEF Holding, Accepted
  <2>2. late \in Nat
    OBVIOUS
  <2> HIDE DEF late
  <2> QED
    BY <1>2, <1>5, <1>6, <1>8, <1>11, <2>1, <2>2
       DEF Reservations, Limit, GivenIsKnown, Held
<1>14. ReplyInv'
  BY <1>1, <1>6, <1>10, OutsideAsking
<1> QED
  BY <1>3, <1>9, <1>12, <1>13, <1>14 DEF IInv, DmInv

\* An invocation ends, with its reservation if it has one.
LEMMA EndsStep ==
  ASSUME IInv, NEW i \in Invocations, NEW place \in {"fail", "idle"}, Ends(i, place)
  PROVE  IInv'
<1>1. /\ Types /\ InvOK /\ Linked /\ BudgetsOK /\ HistoryOK
      /\ DmInv /\ ReplyInv /\ inv[i] \in Records(DOMAIN sessions)
      /\ dropped \in Nat
  BY RecordOf DEF IInv, Types, HistoryOK
<1>2. \/ place = "idle" /\ inv' = [inv EXCEPT ![i] = Idle]
      \/ place = "fail" /\ Goes(i, "fail")
  BY DEF Ends, Goes
<1>3. /\ UNCHANGED <<delivery, overdue, metaVars, dispatch, expired, comment,
                      usage, newMonth, sessions, months, lapses>>
      /\ UNCHANGED <<delivered, excuses, replied, misread, window, unheard>>
      /\ faults' \in Nat
  BY <1>1 DEF Ends, Fault, BudgetsOK, tableVars, usageVars
<1>4. InvOK' /\ Linked'
  BY <1>1, <1>2, <1>3, IdleFits, GoesFits DEF Ends, Places, At
<1>5. dropped' \in Nat
  BY <1>1 DEF Ends
<1>6. Types'
  BY <1>1, <1>3, <1>4, <1>5
     DEF Types, TablesOK, DispatchOK, CommentOK, UsageOK, SessionsOK, Active,
         BudgetsOK, HistoryOK
<1>7. OnlyThis(i) /\ i \notin Holding' /\ inv'[i].at \notin {"asking", "heard"}
  BY <1>1, <1>2 DEF Goes, OnlyThis, Holding, InvOK, Records, Idle
<1>8. ReplyInv'
  BY <1>1, <1>3, <1>7, OutsideAsking
<1>9. DmInv'
  <2>1. CASE i \notin Holding
    <3>1. dropped' = dropped
      BY <2>1 DEF Ends
    <3> QED
      BY <1>1, <1>3, <1>7, <2>1, <3>1, OutsideCounts, SameCounts
  <2>2. CASE i \in Holding
    <3>1. dropped' = dropped + 1
      BY <2>2 DEF Ends
    <3> DEFINE late == IF At(i, "accepted") THEN 1 ELSE 0
    <3>2. /\ Cardinality(Holding) = Cardinality(Holding') + 1
          /\ Cardinality(Accepted) = Cardinality(Accepted') + late
          /\ \A f \in Events, c \in Dms :
               Cardinality(Calling(f, c)) =
                 Cardinality(Calling(f, c)') + One(i, "calling", f, c)
      BY <1>7, <2>2, LeavesCounts
    <3>3. ASSUME NEW f \in Events, NEW c \in Dms PROVE Sendings(f, c)'
      <4>1. /\ Sendings(f, c) /\ Cardinality(Calling(f, c)) \in Nat
            /\ Cardinality(Calling(f, c)') \in Nat
        BY <1>1, SubsetsCount DEF DmInv, Calling
      <4>2. delivered[f][c] \in Nat /\ excuses[f][c] \in Nat
        BY <1>1 DEF HistoryOK
      <4>3. Claims(f, c)' = Claims(f, c) /\ Claims(f, c) \in Nat
        BY <1>3 DEF Claims
      <4>4. One(i, "calling", f, c) \in Nat
        BY DEF One
      <4> QED
        BY <1>3, <3>2, <4>1, <4>2, <4>3, <4>4 DEF Sendings
    <3>4. Reservations' /\ Limit' /\ GivenIsKnown'
      <4>1. Cardinality(Holding') \in Nat /\ Cardinality(Accepted') \in Nat
        BY SubsetsCount DEF Holding, Accepted
      <4>2. /\ SoftLimit \in Nat
            /\ window \in [given : Nat, lost : Nat, carried : Nat]
            /\ usage \in [sent : Nat, reserved : Nat]
            /\ Reservations /\ Limit /\ GivenIsKnown
        BY <2>2, HoldingKnows
      <4>3. late \in {0, 1}
        OBVIOUS
      <4> HIDE DEF late
      <4> QED
        BY <1>1, <1>3, <3>1, <3>2, <4>1, <4>2, <4>3
           DEF Reservations, Limit, GivenIsKnown, Held
    <3> QED
      BY <3>3, <3>4 DEF DmInv
  <2> QED
    BY <2>1, <2>2
<1> QED
  BY <1>4, <1>6, <1>8, <1>9 DEF IInv

-----------------------------------------------------------------------------
(* Replies, and the passing of time.                                        *)

Replier(i) ==
  \/ ReserveReply(i) \/ AcceptReply(i) \/ RecordReply(i)
  \/ ReplyUnknown(i) \/ ReplyRefused(i)

LEMMA ReplierStep ==
  ASSUME IInv, NEW i \in Invocations, Replier(i)
  PROVE  IInv'
<1> DEFINE e == inv[i].event
<1>1. /\ Types /\ InvOK /\ Linked /\ CommentOK /\ BudgetsOK /\ HistoryOK
      /\ DmInv /\ ReplyInv /\ inv[i] \in Records(DOMAIN sessions)
      /\ Link(inv[i], DOMAIN sessions)
  BY RecordOf DEF IInv, Types
<1>2. inv[i].at \in {"reply", "asking", "heard"} /\ e \in Comments
  BY <1>1 DEF Replier, ReserveReply, AcceptReply, RecordReply, ReplyUnknown,
              ReplyRefused, At, Link
<1>3. PICK place \in {"asking", "heard", "finish", "fail"} :
        /\ Goes(i, place)
        /\ place = "asking" => At(i, "reply") /\ ReserveReply(i)
        /\ place = "heard" => At(i, "asking") /\ AcceptReply(i)
  BY DEF Replier, ReserveReply, AcceptReply, RecordReply, ReplyUnknown,
         ReplyRefused, At
<1>4. InvOK' /\ Linked'
  <2>1. sessions' = sessions
    BY DEF Replier, ReserveReply, AcceptReply, RecordReply, ReplyUnknown,
           ReplyRefused
  <2>2. place \in Places /\ ~At(i, "idle")
    BY <1>2 DEF Places, At
  <2> QED
    BY <1>1, <1>3, <2>1, <2>2, GoesFits
<1>5. /\ UNCHANGED <<delivery, overdue, metaVars, dispatch, expired, usage,
                      newMonth, sessions, months, lapses>>
      /\ UNCHANGED <<delivered, excuses, window, dropped, unheard>>
      /\ faults' \in Nat
  BY <1>1
     DEF Replier, ReserveReply, AcceptReply, RecordReply, ReplyUnknown,
         ReplyRefused, Fault, BudgetsOK, tableVars, usageVars, budgetVars, histVars
<1>6. /\ comment' \in [Comments -> CommentStatuses]
      /\ \A f \in Comments : f # e => comment'[f] = comment[f]
  BY <1>1, <1>2
     DEF Replier, ReserveReply, AcceptReply, RecordReply, ReplyUnknown,
         ReplyRefused, Replies, CommentOK, CommentStatuses, tableVars
<1>7. /\ replied' \in [Comments -> Nat] /\ misread' \in [Comments -> Nat]
      /\ \A f \in Comments :
           f # e => replied'[f] = replied[f] /\ misread'[f] = misread[f]
  <2>1. /\ replied \in [Comments -> Nat] /\ misread \in [Comments -> Nat]
    BY <1>1 DEF HistoryOK
  <2>2. \/ replied' = replied
        \/ replied' = [replied EXCEPT ![e] = @ + 1]
    BY DEF Replier, ReserveReply, AcceptReply, RecordReply, ReplyUnknown,
           ReplyRefused, histVars
  <2>3. \/ misread' = misread
        \/ misread' = [misread EXCEPT ![e] = @ + 1]
    BY DEF Replier, ReserveReply, AcceptReply, RecordReply, ReplyUnknown,
           ReplyRefused, histVars
  <2> QED
    BY <1>2, <2>1, <2>2, <2>3
<1>8. Types'
  <2>1. TablesOK' /\ DispatchOK' /\ CommentOK' /\ UsageOK'
    BY <1>1, <1>5, <1>6 DEF Types, TablesOK, DispatchOK, CommentOK, UsageOK
  <2>2. SessionsOK' /\ BudgetsOK' /\ HistoryOK'
    BY <1>1, <1>5, <1>7 DEF Types, SessionsOK, Active, BudgetsOK, HistoryOK
  <2> QED
    BY <1>4, <2>1, <2>2 DEF Types
<1>9. OnlyThis(i) /\ inv'[i].at = place /\ inv'[i].event = e
  BY <1>1, <1>3 DEF Goes, OnlyThis, InvOK, Records
<1>10. DmInv'
  <2>1. i \notin Holding /\ i \notin Holding'
    BY <1>2, <1>3, <1>9 DEF Holding
  <2> QED
    BY <1>1, <1>5, <1>9, <2>1, OutsideCounts, SameCounts
<1>11. ASSUME NEW f \in Comments PROVE Replying(f)'
  <2>1. /\ Replying(f) /\ replied[f] \in Nat /\ misread[f] \in Nat
    BY <1>1 DEF ReplyInv, HistoryOK
  <2>2. CASE f # e
    <3>1. ASSUME NEW j \in Asking(f)' PROVE j \in Asking(f) /\ inv'[j] = inv[j]
      BY <1>9, <2>2 DEF Asking, OnlyThis
    <3>2. Asking(f)' \subseteq Asking(f)
      BY <3>1
    <3> QED
      BY <1>6, <1>7, <2>1, <2>2, <3>1, <3>2 DEF Replying
  <2>3. CASE f = e
    <3>1. CASE ReserveReply(i)
      <4>1. UNCHANGED <<replied, misread>>
        BY <3>1 DEF ReserveReply, histVars
      <4>2. CASE comment[f] = "none" /\ Replies(i, "reserved") /\ Goes(i, "asking")
        <5>1. comment'[f] = "reserved"
          BY <1>1, <1>2, <2>3, <4>2 DEF Replies, CommentOK
        <5>2. Asking(f)' \subseteq {i}
          BY <1>9, <2>1, <4>2 DEF Asking, OnlyThis, Replying
        <5> QED
          BY <2>1, <4>1, <4>2, <5>1, <5>2 DEF Replying
      <4>3. CASE UNCHANGED comment /\ Goes(i, "finish")
        <5>1. inv'[i].at = "finish"
          BY <1>1, <4>3 DEF Goes, InvOK, Records
        <5> QED
          BY <1>1, <1>9, <4>1, <4>3, <5>1, OutsideAsking DEF ReplyInv
      <4> QED
        BY <2>3, <3>1, <4>2, <4>3 DEF ReserveReply
    <3>2. i \notin Asking(f) \/ Asking(f) = {i}
      BY <2>1 DEF Replying
    <3>3. CASE AcceptReply(i)
      <4>1. Asking(f) = {i} /\ inv[i].at = "asking"
        BY <2>3, <3>2, <3>3 DEF AcceptReply, Asking, At
      <4>2. Asking(f)' \subseteq {i} /\ inv'[i].at = "heard"
        <5>1. inv'[i].at = "heard"
          BY <1>1, <3>3 DEF AcceptReply, Goes, InvOK, Records
        <5> QED
          BY <1>9, <4>1, <5>1 DEF Asking, OnlyThis
      <4>3. replied[f] <= misread[f] /\ comment[f] # "none"
        BY <2>1, <4>1 DEF Replying
      <4>4. /\ UNCHANGED <<comment, misread>>
            /\ replied'[f] = replied[f] + 1
        BY <1>1, <1>2, <2>3, <3>3 DEF AcceptReply, HistoryOK, tableVars
      <4> QED
        BY <2>1, <4>2, <4>3, <4>4 DEF Replying
    <3>4. CASE RecordReply(i) \/ ReplyUnknown(i) \/ ReplyRefused(i)
      <4>1. Asking(f) = {i}
        BY <2>3, <3>2, <3>4
           DEF RecordReply, ReplyUnknown, ReplyRefused, Asking, At
      <4>2. Asking(f)' = {}
        <5>1. inv'[i].at \in {"finish", "fail"}
          BY <1>1, <3>4
             DEF RecordReply, ReplyUnknown, ReplyRefused, Goes, InvOK, Records
        <5> QED
          BY <1>9, <4>1, <5>1 DEF Asking, OnlyThis
      <4>3. replied' = replied
        BY <3>4 DEF RecordReply, ReplyUnknown, ReplyRefused, histVars
      <4>4. /\ misread[f] <= misread'[f]
            /\ comment'[f] = "none" => replied[f] <= misread'[f]
        <5>1. CASE RecordReply(i) \/ ReplyUnknown(i)
          <6>1. comment'[f] \in {"sent", "unknown"} /\ misread' = misread
            BY <1>1, <1>2, <2>3, <5>1
               DEF RecordReply, ReplyUnknown, Replies, CommentOK, histVars
          <6> QED
            BY <2>1, <6>1
        <5>2. CASE ReplyRefused(i)
          <6>1. PICK status \in {"none", "notSent"} :
                  /\ Replies(i, status)
                  /\ misread' = IF At(i, "heard") /\ status = "none"
                                THEN [misread EXCEPT ![e] = @ + 1] ELSE misread
            BY <5>2 DEF ReplyRefused
          <6>2. comment'[f] = status
            BY <1>1, <1>2, <2>3, <6>1 DEF Replies, CommentOK
          <6>3. CASE At(i, "heard") /\ status = "none"
            <7>1. misread'[f] = misread[f] + 1
              BY <1>1, <2>3, <6>1, <6>3 DEF HistoryOK
            <7> QED
              BY <2>1, <7>1 DEF Replying
          <6>4. CASE At(i, "asking")
            BY <2>1, <4>1, <6>1, <6>4 DEF Replying, At
          <6>5. CASE At(i, "heard") /\ status = "notSent"
            BY <2>1, <6>1, <6>2, <6>5
          <6> QED
            BY <5>2, <6>3, <6>4, <6>5 DEF ReplyRefused, At
        <5> QED
          BY <3>4, <5>1, <5>2
      <4>5. misread'[f] \in Nat
        BY <1>7
      <4> QED
        BY <2>1, <4>2, <4>3, <4>4, <4>5 DEF Replying
    <3> QED
      BY <3>1, <3>3, <3>4 DEF Replier
  <2> QED
    BY <2>2, <2>3
<1> QED
  BY <1>4, <1>8, <1>10, <1>11 DEF IInv, ReplyInv

\* Steps of Meta and of the clock: no invocation moves.
Outer ==
  \/ \E e \in Events : Duplicate(e) \/ DeliveryLapses(e)
  \/ \E e \in Events, d \in Dms : DispatchLapses(e, d)
  \/ MonthEnds \/ PeriodBegins

LEMMA OuterStep ==
  ASSUME IInv, Outer
  PROVE  IInv'
<1>1. /\ Types /\ InvOK /\ Linked /\ UsageOK /\ BudgetsOK /\ HistoryOK
      /\ DmInv /\ ReplyInv
  BY DEF IInv, Types
<1>2. UNCHANGED <<delivery, dispatch, comment, sessions, inv, delivered, excuses,
                  replied, misread, dropped, unheard>>
  BY DEF Outer, Duplicate, DeliveryLapses, DispatchLapses, MonthEnds,
         PeriodBegins, tableVars, histVars
<1>3. InvOK' /\ Linked' /\ SessionsOK' /\ CommentOK'
  BY <1>1, <1>2 DEF InvOK, Linked, Types, SessionsOK, Active, CommentOK
<1>4. TablesOK'
  <2>1. ASSUME NEW e \in Events, DeliveryLapses(e) PROVE TablesOK'
    BY <1>1, <2>1 DEF DeliveryLapses, Types, TablesOK
  <2>2. ASSUME NEW e \in Events, Duplicate(e) PROVE TablesOK'
    BY <1>1, <2>2 DEF Duplicate, Types, TablesOK, tableVars
  <2>3. CASE UNCHANGED <<delivery, overdue, metaVars>>
    BY <1>1, <2>3 DEF Types, TablesOK
  <2> QED
    BY <2>1, <2>2, <2>3 DEF Outer, DispatchLapses, MonthEnds, PeriodBegins, tableVars
<1>5. DispatchOK'
  <2>1. ASSUME NEW e \in Events, NEW d \in Dms, DispatchLapses(e, d)
        PROVE  DispatchOK'
    BY <1>1, <2>1 DEF DispatchLapses, Types, DispatchOK
  <2>2. CASE UNCHANGED <<dispatch, expired>>
    BY <1>1, <2>2 DEF Types, DispatchOK
  <2> QED
    BY <2>1, <2>2
       DEF Outer, Duplicate, DeliveryLapses, MonthEnds, PeriodBegins, tableVars
<1>6. BudgetsOK'
  <2>1. months \in Nat /\ lapses \in Nat /\ faults \in Nat
    BY <1>1 DEF BudgetsOK
  <2>2. /\ months' \in {months, months + 1} /\ lapses' \in {lapses, lapses + 1}
        /\ faults' = faults
    BY DEF Outer, Duplicate, DeliveryLapses, DispatchLapses, MonthEnds,
           PeriodBegins, Lapse, budgetVars
  <2> QED
    BY <2>1, <2>2 DEF BudgetsOK
<1>7. /\ UsageOK' /\ HistoryOK'
      /\ usage'.sent <= usage.sent /\ usage'.reserved = usage.reserved
      /\ window'.carried = window.carried
      /\ \/ window' = window /\ usage' = usage
         \/ window'.given = 0
  <2>1. CASE PeriodBegins
    <3>1. /\ usage' = [usage EXCEPT !.sent = 0] /\ newMonth' \in BOOLEAN
          /\ window' = [window EXCEPT !.given = 0, !.lost = 0]
      BY <2>1 DEF PeriodBegins
    <3>2. /\ usage' \in [sent : Nat, reserved : Nat] /\ usage'.sent = 0
          /\ usage'.reserved = usage.reserved
      BY <1>1, <3>1 DEF UsageOK
    <3>3. /\ window' \in [given : Nat, lost : Nat, carried : Nat]
          /\ window'.given = 0 /\ window'.carried = window.carried
      BY <1>1, <3>1 DEF HistoryOK
    <3>4. usage.sent \in Nat
      BY <1>1 DEF UsageOK
    <3> QED
      BY <1>1, <1>2, <3>1, <3>2, <3>3, <3>4 DEF UsageOK, HistoryOK
  <2>2. CASE UNCHANGED <<usage, window>> /\ newMonth' \in {newMonth, TRUE}
    <3>1. newMonth' \in BOOLEAN
      BY <1>1, <2>2 DEF UsageOK
    <3>2. usage.sent \in Nat
      BY <1>1 DEF UsageOK
    <3> QED
      BY <1>1, <1>2, <2>2, <3>1, <3>2 DEF UsageOK, HistoryOK
  <2> QED
    BY <2>1, <2>2
       DEF Outer, Duplicate, DeliveryLapses, DispatchLapses, MonthEnds,
           usageVars, histVars
<1>8. /\ Holding' = Holding /\ Accepted' = Accepted
      /\ \A e \in Events, d \in Dms : Calling(e, d)' = Calling(e, d)
      /\ \A e \in Comments : Asking(e)' = Asking(e)
  BY <1>2 DEF Holding, Accepted, Calling, Asking
<1>9. \A e \in Events, d \in Dms : Sendings(e, d)'
  BY <1>1, <1>2, <1>8 DEF DmInv, Sendings, Claims
<1>10. ReplyInv'
  BY <1>1, <1>2, <1>8 DEF ReplyInv, Replying
<1>11. Reservations' /\ Limit' /\ GivenIsKnown'
  <2>1. Reservations /\ Limit /\ GivenIsKnown
    BY <1>1 DEF DmInv
  <2>2. /\ Cardinality(Holding) \in Nat /\ Cardinality(Accepted) \in Nat
        /\ SoftLimit \in Nat /\ dropped \in Nat
        /\ window \in [given : Nat, lost : Nat, carried : Nat]
        /\ usage \in [sent : Nat, reserved : Nat]
        /\ window' \in [given : Nat, lost : Nat, carried : Nat]
        /\ usage' \in [sent : Nat, reserved : Nat]
    BY <1>1, <1>7, SubsetsCount, AutomationsAssumption
       DEF Holding, Accepted, HistoryOK, UsageOK
  <2>3. Reservations' /\ Limit'
    BY <1>2, <1>7, <1>8, <2>1, <2>2 DEF Reservations, Limit, Held
  <2>4. GivenIsKnown'
    BY <1>2, <1>7, <1>8, <2>1, <2>2 DEF GivenIsKnown
  <2> QED
    BY <2>3, <2>4
<1>12. Types'
  BY <1>3, <1>4, <1>5, <1>6, <1>7 DEF Types
<1> QED
  BY <1>3, <1>9, <1>10, <1>11, <1>12 DEF IInv, DmInv

-----------------------------------------------------------------------------
(* The invariant holds.                                                     *)

LEMMA InitIInv == Init => IInv
<1> SUFFICES ASSUME Init PROVE IInv
  OBVIOUS
<1>1. /\ Idle \in Records({}) /\ Idle.at = "idle"
  BY DEF Idle, Records, Places
<1>2. inv = [i \in Invocations |-> Idle] /\ sessions = <<>> /\ DOMAIN sessions = {}
  BY DEF Init
<1>3. InvOK /\ Linked
  BY <1>1, <1>2 DEF InvOK, Linked, Link, Sessioned
<1>4. SessionsOK
  BY <1>2 DEF SessionsOK, Active
<1>5. TablesOK /\ DispatchOK /\ CommentOK
  BY DEF Init, TablesOK, DispatchOK, CommentOK, DispatchStatuses, CommentStatuses
<1>6. UsageOK /\ BudgetsOK /\ HistoryOK
  BY DEF Init, UsageOK, BudgetsOK, HistoryOK
<1>7. /\ Holding = {} /\ Accepted = {}
      /\ \A e \in Events, d \in Dms : Calling(e, d) = {}
      /\ \A e \in Comments : Asking(e) = {}
  BY <1>1, <1>2 DEF Holding, Accepted, Calling, Asking
<1>8. ASSUME NEW e \in Events, NEW d \in Dms PROVE Sendings(e, d)
  <2>1. /\ delivered[e][d] = 0 /\ excuses[e][d] = 0 /\ Claims(e, d) = 1
    BY DEF Init, Claims
  <2> QED
    BY <1>7, <2>1, FS_EmptySet DEF Sendings
<1>9. Reservations /\ Limit /\ GivenIsKnown
  BY <1>7, FS_EmptySet, AutomationsAssumption
     DEF Init, Reservations, Limit, GivenIsKnown, Held
<1>10. ReplyInv
  BY <1>7 DEF Init, ReplyInv, Replying
<1> QED
  BY <1>3, <1>4, <1>5, <1>6, <1>8, <1>9, <1>10 DEF IInv, Types, DmInv

LEMMA NextIInv == IInv /\ [Next]_vars => IInv'
<1> SUFFICES ASSUME IInv, [Next]_vars PROVE IInv'
  OBVIOUS
<1>1. ASSUME NEW i \in Invocations, Quiet(i) PROVE IInv'
  BY <1>1, QuietStep
<1>2. ASSUME NEW i \in Invocations, Reserve(i) \/ Skip(i) PROVE IInv'
  BY <1>2, ReserveStep, SkipStep
<1>3. ASSUME NEW i \in Invocations, Accept(i) PROVE IInv'
  BY <1>3, AcceptStep
<1>4. ASSUME NEW i \in Invocations, RecordSent(i) \/ RecordUnknown(i) PROVE IInv'
  BY <1>4, CountedStep
<1>5. ASSUME NEW i \in Invocations, RecordNotSent(i) PROVE IInv'
  BY <1>5, RecordNotSentStep
<1>6. ASSUME NEW i \in Invocations, Throws(i) \/ Dies(i) PROVE IInv'
  BY <1>6, EndsStep DEF Throws, Dies
<1>7. ASSUME NEW i \in Invocations, Replier(i) PROVE IInv'
  BY <1>7, ReplierStep
<1>8. CASE Outer
  BY <1>8, OuterStep
<1>9. CASE UNCHANGED vars
  <2>1. UNCHANGED <<delivery, overdue, metaVars, dispatch, expired, comment,
                    usage, newMonth, sessions, inv, months, lapses, faults,
                    delivered, excuses, replied, misread, window, dropped, unheard>>
    BY <1>9 DEF vars, tableVars, usageVars, budgetVars, histVars
  <2>2. Types' /\ Linked'
    BY <2>1 DEF IInv, Types, TablesOK, DispatchOK, CommentOK, UsageOK, SessionsOK,
                Active, InvOK, BudgetsOK, HistoryOK, Linked
  <2>3. /\ Holding' = Holding /\ Accepted' = Accepted
        /\ \A e \in Events, d \in Dms : Calling(e, d)' = Calling(e, d)
        /\ \A e \in Comments : Asking(e)' = Asking(e)
    BY <2>1 DEF Holding, Accepted, Calling, Asking
  <2>4. DmInv'
    BY <2>1, <2>3, SameCounts DEF IInv
  <2>5. ReplyInv'
    BY <2>1, <2>3 DEF IInv, ReplyInv, Replying
  <2> QED
    BY <2>2, <2>4, <2>5 DEF IInv
<1> QED
  BY <1>1, <1>2, <1>3, <1>4, <1>5, <1>6, <1>7, <1>8, <1>9
     DEF Next, Quiet, Replier, Outer

LEMMA Invariance == Spec => []IInv
  BY InitIInv, NextIInv, PTL DEF Spec

\* The types hold for every flow, every number of events and invocations.
THEOREM TypeCorrect == Spec => []TypeOK
<1>1. IInv => TypeOK
  BY TypeParts DEF IInv
<1> QED
  BY <1>1, Invariance, PTL

\* A DM is sent again only after a claim was taken over or an answer lost: the
\* unique row of dm-dispatch is enough whatever the engine does around it.
THEOREM RepeatsExcused == Spec => []RepeatsAreExcused
<1>1. IInv => RepeatsAreExcused
  <2> SUFFICES ASSUME IInv, NEW e \in Events, NEW d \in Dms
               PROVE  delivered[e][d] <= 1 + excuses[e][d]
    BY DEF RepeatsAreExcused
  <2>1. Sendings(e, d) /\ Cardinality(Calling(e, d)) \in Nat
    BY SubsetsCount DEF IInv, DmInv, Calling
  <2>2. delivered[e][d] \in Nat /\ excuses[e][d] \in Nat /\ Claims(e, d) \in Nat
    BY DEF IInv, Types, HistoryOK, Claims
  <2> QED
    BY <2>1, <2>2 DEF Sendings
<1> QED
  BY <1>1, Invariance, PTL

\* A comment gets at most one reply and one more for each that was made and
\* taken for a refusal, however many invocations handle it and wherever each of
\* them ends.
THEOREM CommentOnce == Spec => []CommentIsAnsweredOnce
<1>1. IInv => CommentIsAnsweredOnce
  BY DEF IInv, ReplyInv, Replying, CommentIsAnsweredOnce
<1> QED
  BY <1>1, Invariance, PTL

\* The soft limit is exceeded by the DMs whose answer was lost and by those that
\* a reset found under way, and by no other, for every limit and every number
\* of invocations that reserve at once.
THEOREM SoftLimitKept == Spec => []SoftLimitHolds
<1>1. IInv => SoftLimitHolds
  <2> SUFFICES ASSUME IInv PROVE SoftLimitHolds
    OBVIOUS
  <2>1. Limit /\ GivenIsKnown
    BY DEF IInv, DmInv
  <2>2. /\ Holding \in SUBSET Invocations /\ Accepted \subseteq Holding
    BY DEF Holding, Accepted
  <2>3. /\ Cardinality(Holding) \in Nat /\ Cardinality(Accepted) \in Nat
        /\ Cardinality(Accepted) <= Cardinality(Holding)
    BY <2>2, SubsetsCount, FS_Subset
  <2>4. /\ SoftLimit \in Nat /\ dropped \in Nat
        /\ window \in [given : Nat, lost : Nat, carried : Nat]
        /\ usage \in [sent : Nat, reserved : Nat]
    BY AutomationsAssumption DEF IInv, Types, HistoryOK, UsageOK
  <2> QED
    BY <2>1, <2>3, <2>4 DEF Limit, GivenIsKnown, Held, SoftLimitHolds
<1> QED
  BY <1>1, Invariance, PTL

-----------------------------------------------------------------------------
(* Events and their claims.                                                 *)

\* A request has an event from its claim to its end.
Claimless == \A i \in Invocations : At(i, "idle") => inv[i].event = NoEvent

\* Only a claim, a repetition and the end of a request matter to an event's
\* row; every other step leaves the requests at work with their events.
KeepsEvents ==
  /\ UNCHANGED <<delivery, metaVars>>
  /\ \A i \in Invocations : /\ inv'[i].event = inv[i].event
                            /\ At(i, "idle")' => At(i, "idle")

Worker(i) ==
  \/ ResolveComment(i) \/ ResolveMessage(i) \/ Decide(i) \/ Leave(i)
  \/ Reserve(i) \/ Skip(i) \/ Refuse(i)
  \/ Accept(i) \/ RecordSent(i) \/ RecordUnknown(i) \/ RecordNotSent(i)
  \/ StartSession(i) \/ Advance(i) \/ Replier(i) \/ Throws(i)

LEMMA WorkerKeeps ==
  ASSUME InvOK, NEW i \in Invocations, Worker(i)
  PROVE  KeepsEvents
<1> DEFINE Stays == /\ OnlyThis(i) /\ inv'[i].event = inv[i].event
                    /\ inv'[i].at # "idle"
<1>1. inv[i] \in Records(DOMAIN sessions)
  BY DEF InvOK
<1>2. ASSUME ResolveComment(i) PROVE Stays
  BY <1>1, <1>2 DEF ResolveComment, OnlyThis, InvOK, Records
<1>3. ASSUME ResolveMessage(i) PROVE Stays
  BY <1>3, ResolvesTo
<1>4. ASSUME Decide(i) PROVE Stays
  BY <1>1, <1>4 DEF Decide, Walking, At, OnlyThis, InvOK, Records
<1>5. ASSUME Leave(i) PROVE Stays
  BY <1>1, <1>5 DEF Leave, Goes, OnlyThis, InvOK, Records
<1>6. ASSUME Reserve(i) PROVE Stays
  BY <1>1, <1>6 DEF Reserve, OnlyThis, InvOK, Records
<1>7. ASSUME NEW visited, GoesOn(i, visited) PROVE Stays
  BY <1>1, <1>7 DEF GoesOn, OnlyThis, InvOK, Records
<1>8. ASSUME NEW place \in Places \ {"idle"}, Goes(i, place) PROVE Stays
  BY <1>1, <1>8 DEF Goes, OnlyThis, InvOK, Records
<1>9. ASSUME Skip(i) \/ RecordSent(i) PROVE Stays
  BY <1>7, <1>9 DEF Skip, RecordSent
<1>10. ASSUME Refuse(i) PROVE Stays
  <2>1. \/ \E visited : GoesOn(i, visited)
        \/ inv' = [inv EXCEPT ![i].at = "fail", ![i].visited = @ + 1]
    BY <1>10 DEF Refuse
  <2> QED
    BY <1>1, <1>7, <2>1 DEF OnlyThis, InvOK, Records
<1>11. ASSUME Accept(i) \/ RecordUnknown(i) \/ RecordNotSent(i) PROVE Stays
  BY <1>8, <1>11 DEF Accept, RecordUnknown, RecordNotSent, Places
<1>12. ASSUME StartSession(i) PROVE Stays
  BY <1>1, <1>12 DEF StartSession, OnlyThis, InvOK, Records
<1>13. ASSUME Advance(i) PROVE Stays
  <2>1. Goes(i, "finish") \/ Goes(i, "fail")
    BY <1>13 DEF Advance
  <2> QED
    BY <1>8, <2>1 DEF Places
<1>14. ASSUME Replier(i) PROVE Stays
  <2>1. \E place \in {"asking", "finish", "heard", "fail"} : Goes(i, place)
    BY <1>14 DEF Replier, ReserveReply, AcceptReply, RecordReply, ReplyUnknown,
                 ReplyRefused
  <2> QED
    BY <1>8, <2>1 DEF Places
<1>15. ASSUME Throws(i) PROVE Stays
  BY <1>1, <1>15 DEF Throws, Ends, OnlyThis, InvOK, Records
<1>16. Stays
  BY <1>2, <1>3, <1>4, <1>5, <1>6, <1>9, <1>10, <1>11, <1>12, <1>13, <1>14,
     <1>15 DEF Worker
<1>17. UNCHANGED <<delivery, metaVars>>
  BY DEF Worker, ResolveComment, ResolveMessage, Decide, Leave, Reserve, Skip,
         Refuse, Accept, RecordSent, RecordUnknown, RecordNotSent, StartSession,
         Advance, Replier, ReserveReply, AcceptReply, RecordReply, ReplyUnknown,
         ReplyRefused, Throws, Ends, tableVars
<1> QED
  BY <1>16, <1>17 DEF KeepsEvents, OnlyThis, At

\* What is proved of an event whose claim is not taken over, and what a step
\* may not do to its row.
Handled == Claimless /\ HandledByOne
Finals == \A e \in Events \ overtaken :
            delivery[e] = "processed" => delivery'[e] = "processed"

LEMMA KeepsHandled ==
  ASSUME Handled, KeepsEvents
  PROVE  Handled' /\ Finals
<1>1. Claimless'
  BY DEF Handled, Claimless, KeepsEvents, At
<1>2. HandledByOne'
  BY DEF Handled, HandledByOne, KeepsEvents
<1> QED
  BY <1>1, <1>2 DEF Handled, Finals, KeepsEvents

\* A claim: if it takes nothing over, nobody had the event.
LEMMA ClaimHandled ==
  ASSUME IInv, Handled, NEW i \in Invocations, NEW e \in Events, Claim(i, e)
  PROVE  Handled' /\ Finals
<1>1. /\ delivery \in [Events -> {"none", "processing", "failed", "processed"}]
      /\ overdue \subseteq {f \in Events : delivery[f] = "processing"}
      /\ inv \in [Invocations -> Records(DOMAIN sessions)]
  BY DEF IInv, Types, TablesOK, InvOK
<1>2. /\ delivery' = [delivery EXCEPT ![e] = "processing"]
      /\ overtaken' = overtaken \cup ({e} \cap overdue)
      /\ answered' = answered /\ doubled' = doubled /\ e \notin answered
      /\ delivery[e] \in {"none", "failed"} \/ e \in overdue
      /\ At(i, "idle")
  BY DEF Claim, Claimable
<1>3. /\ \A j \in Invocations \ {i} : inv'[j] = inv[j]
      /\ inv'[i].event = e /\ inv'[i].at = "resolve"
  BY <1>1 DEF Claim, Idle
<1>4. Claimless'
  BY <1>3 DEF Handled, Claimless, At
<1>5. ASSUME NEW f \in Events \ overtaken'
      PROVE  /\ \A j, k \in Invocations :
                  inv'[j].event = f /\ inv'[k].event = f => j = k
             /\ \A j \in Invocations : inv'[j].event = f => delivery'[f] = "processing"
             /\ f \in answered' \ doubled' => delivery'[f] = "processed"
  <2>1. f \in Events \ overtaken
    BY <1>2
  <2>2. CASE f = e
    <3>1. delivery[e] # "processing"
      BY <1>1, <1>2, <1>5, <2>2
    <3>2. \A j \in Invocations : inv[j].event # e
      BY <2>1, <2>2, <3>1 DEF Handled, HandledByOne
    <3> QED
      BY <1>1, <1>2, <1>3, <2>2, <3>2
  <2>3. CASE f # e
    <3>1. \A j \in Invocations : inv'[j].event = f => inv[j].event = f
      BY <1>3, <2>3
    <3>2. delivery'[f] = delivery[f]
      BY <1>1, <1>2, <2>3
    <3> QED
      BY <1>2, <2>1, <3>1, <3>2 DEF Handled, HandledByOne
  <2> QED
    BY <2>2, <2>3
<1>6. Finals
  BY <1>1, <1>2 DEF Finals
<1> QED
  BY <1>4, <1>5, <1>6 DEF Handled, HandledByOne

\* The end of a request: it alone had the event, whose row was "processing".
LEMMA EndHandled ==
  ASSUME IInv, Handled, NEW i \in Invocations, Completes(i) \/ Fails(i) \/ Dies(i)
  PROVE  Handled' /\ Finals
<1> DEFINE e == inv[i].event
<1>1. /\ delivery \in [Events -> {"none", "processing", "failed", "processed"}]
      /\ inv \in [Invocations -> Records(DOMAIN sessions)]
  BY DEF IInv, Types, TablesOK, InvOK
<1>2. /\ overtaken' = overtaken /\ doubled' = doubled
      /\ inv' = [inv EXCEPT ![i] = Idle]
      /\ \/ /\ delivery' = [delivery EXCEPT ![e] = "processed"]
            /\ answered' = answered \cup {e}
         \/ /\ delivery' = [delivery EXCEPT ![e] = "failed"]
            /\ answered' = answered
         \/ delivery' = delivery /\ answered' = answered
  BY DEF Completes, Fails, Dies, Ends, tableVars
<1>3. e \in Events
  <2>1. ~At(i, "idle")
    BY DEF Completes, Fails, Dies, Ends, At
  <2> QED
    BY <2>1 DEF IInv, Linked, Link, At
<1>4. /\ \A j \in Invocations \ {i} : inv'[j] = inv[j]
      /\ inv'[i].event = NoEvent
  BY <1>1, <1>2 DEF Idle
<1>5. Claimless'
  BY <1>4 DEF Handled, Claimless, At
<1>6. NoEvent \notin Events
  BY AutomationsAssumption
<1> HIDE DEF e
<1>7. e \notin overtaken => /\ delivery[e] = "processing"
                            /\ e \notin answered \ doubled
                            /\ \A j \in Invocations \ {i} : inv[j].event # e
  <2> USE DEF e
  <2> QED
    BY <1>3 DEF Handled, HandledByOne
<1>8. ASSUME NEW f \in Events \ overtaken'
      PROVE  /\ \A j, k \in Invocations :
                  inv'[j].event = f /\ inv'[k].event = f => j = k
             /\ \A j \in Invocations : inv'[j].event = f => delivery'[f] = "processing"
             /\ f \in answered' \ doubled' => delivery'[f] = "processed"
  <2>1. f \in Events \ overtaken
    BY <1>2
  <2>2. CASE f = e
    <3>1. \A j \in Invocations : inv'[j].event # f
      BY <1>4, <1>6, <1>7, <2>1, <2>2
    <3>2. f \in answered' \ doubled' => delivery'[f] = "processed"
      BY <1>1, <1>2, <1>7, <2>1, <2>2
    <3> QED
      BY <3>1, <3>2
  <2>3. CASE f # e
    <3>1. \A j \in Invocations : inv'[j].event = f => j # i /\ inv[j].event = f
      BY <1>4, <1>6
    <3>2. delivery'[f] = delivery[f] /\ (f \in answered' => f \in answered)
      BY <1>1, <1>2, <2>3
    <3> QED
      BY <1>2, <2>1, <3>1, <3>2 DEF Handled, HandledByOne
  <2> QED
    BY <2>2, <2>3
<1>9. Finals
  BY <1>1, <1>2, <1>7 DEF Finals
<1> QED
  BY <1>5, <1>8, <1>9 DEF Handled, HandledByOne

\* A repetition of an event that cannot be claimed.
LEMMA DuplicateHandled ==
  ASSUME IInv, Handled, NEW e \in Events, Duplicate(e)
  PROVE  Handled' /\ Finals
<1>1. delivery \in [Events -> {"none", "processing", "failed", "processed"}]
  BY DEF IInv, Types, TablesOK
<1>2. /\ UNCHANGED <<delivery, overtaken, inv>>
      /\ answered' = answered \cup {e}
      /\ doubled' = IF delivery[e] = "processing" THEN doubled \cup {e}
                                                  ELSE doubled
      /\ delivery[e] \notin {"none", "failed"}
  BY DEF Duplicate, Claimable, tableVars
<1>3. Claimless'
  BY <1>2 DEF Handled, Claimless, At
<1>4. delivery[e] = "processing" \/ delivery[e] = "processed"
  BY <1>1, <1>2
<1>5. HandledByOne'
  BY <1>2, <1>4 DEF Handled, HandledByOne
<1> QED
  BY <1>2, <1>3, <1>5 DEF Handled, Finals

LEMMA NextHandled ==
  ASSUME IInv, Handled, [Next]_vars
  PROVE  Handled' /\ Finals
<1>1. ASSUME NEW i \in Invocations, Worker(i) PROVE Handled' /\ Finals
  BY <1>1, WorkerKeeps, KeepsHandled DEF IInv, Types
<1>2. ASSUME NEW i \in Invocations, NEW e \in Events, Claim(i, e)
      PROVE  Handled' /\ Finals
  BY <1>2, ClaimHandled
<1>3. ASSUME NEW i \in Invocations, Completes(i) \/ Fails(i) \/ Dies(i)
      PROVE  Handled' /\ Finals
  BY <1>3, EndHandled
<1>4. ASSUME NEW e \in Events, Duplicate(e) PROVE Handled' /\ Finals
  BY <1>4, DuplicateHandled
<1>5. ASSUME \/ \E e \in Events : DeliveryLapses(e)
             \/ \E e \in Events, d \in Dms : DispatchLapses(e, d)
             \/ MonthEnds \/ PeriodBegins \/ UNCHANGED vars
      PROVE  Handled' /\ Finals
  <2>1. UNCHANGED <<delivery, metaVars, inv>>
    BY <1>5 DEF DeliveryLapses, DispatchLapses, MonthEnds, PeriodBegins, tableVars,
                vars
  <2> QED
    BY <2>1, KeepsHandled DEF KeepsEvents, At
<1> QED
  BY <1>1, <1>2, <1>3, <1>4, <1>5 DEF Next, Worker, Replier

LEMMA InitHandled == Init => Handled
  BY AutomationsAssumption DEF Init, Handled, Claimless, HandledByOne, At, Idle

LEMMA HandledInvariance == Spec => [](IInv /\ Handled)
<1>1. Init => IInv /\ Handled
  BY InitIInv, InitHandled
<1>2. IInv /\ Handled /\ [Next]_vars => (IInv /\ Handled)'
  BY NextIInv, NextHandled
<1> QED
  BY <1>1, <1>2, PTL DEF Spec

\* An event that is never taken over is handled by one request at a time, and a
\* 200 that is not the answer to a repetition is given only when it has been
\* handled to the end: for every number of events and requests that come, fail
\* and end in any order.
THEOREM OneHandles == Spec => []HandledByOne
<1>1. Handled => HandledByOne
  BY DEF Handled
<1> QED
  BY <1>1, HandledInvariance, PTL

\* The row of such an event, once "processed", stays so: only a request whose
\* claim was taken over can write over what another one has completed.
THEOREM ProcessedStays ==
  Spec => [][\A e \in Events \ overtaken :
               delivery[e] = "processed" => delivery'[e] = "processed"]_vars
<1>1. IInv /\ Handled /\ [Next]_vars
        => [\A e \in Events \ overtaken :
              delivery[e] = "processed" => delivery'[e] = "processed"]_vars
  BY NextHandled DEF Finals
<1> QED
  BY <1>1, HandledInvariance, PTL DEF Spec
=============================================================================
