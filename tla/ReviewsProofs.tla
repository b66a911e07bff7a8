--------------------------- MODULE ReviewsProofs ---------------------------
(***************************************************************************)
(* What is published and what is reviewed, for every number of contents,   *)
(* targets, editors and overlapping requests.                              *)
(***************************************************************************)
EXTENDS Reviews, TLAPS

(***************************************************************************)
(* The inductive invariant.                                                *)
(***************************************************************************)

Places == {"idle", "submit", "withdraw", "reject", "approve"}
Texts == Contents \cup {"none"}

\* What a request has read: an approval has compared the content with the one
\* it shows, and only what was submitted is decided.
Read(c) ==
  /\ call[c].at = "submit" => call[c].content \in Contents
  /\ call[c].at = "approve" =>
       call[c].content \in Contents /\ call[c].shown = call[c].content
  /\ call[c].at \in {"withdraw", "reject", "approve"} => review.status # "none"

Calls ==
  /\ call \in [Callers -> [at : Places, content : Texts, shown : Texts,
                           by : Members]]
  /\ \A c \in Callers : Read(c)

\* The row of the review keeps to the content, whatever its status.
Matching == review.status # "none" => review.content = content \/ astray

\* Nothing is enqueued but what was granted or is excused.
Provided == jobs # {} => content \in granted \cup passed

IInv == TypeOK /\ Calls /\ Matching /\ Provided /\ UnreviewedIsExcused

-----------------------------------------------------------------------------

\* Commands that leave the requests and the review as they are.
Elsewhere ==
  \/ \E c \in Contents, timed \in SUBSET Slots : AdminWrites(c, timed)
  \/ \E s \in Slots, time \in {"given", "removed", "kept"} :
       AdminUpdatesTarget(s, time)
  \/ \E s \in Slots, m \in Members : RetryTarget(m, s)
  \/ \E s \in Slots : Executes(s)
  \/ PublishNow \/ Remove \/ SubscriptionEnds

\* A request begins.
Reads(c) ==
  \/ \E m \in Members : Submit(c, m) \/ Withdraw(c, m)
  \/ Reject(c) \/ Approve(c)

LEMMA Steps ==
  ASSUME [Next]_vars
  PROVE  \/ \E c \in Callers : \/ Reads(c) \/ Dies(c)
                               \/ Submits(c) \/ Withdraws(c)
                               \/ Rejects(c) \/ Approves(c)
         \/ \E m \in Editors, c \in Contents : EditorWrites(m, c)
         \/ \E s \in Slots : EditorUpdatesTarget(s)
         \/ Elsewhere
         \/ UNCHANGED vars
  BY DEF Next, Acts, Writes, Touches, Reads, Elsewhere

LEMMA IInit == Init => IInv
<1> SUFFICES ASSUME Init PROVE IInv
  OBVIOUS
<1>1. TypeOK
  <2>1. /\ post \in PostStatuses /\ target \in [Slots -> {"pending"}]
        /\ jobs \subseteq Slots /\ shelf = "kept"
    BY DEF Init, PostStatuses, Pending
  <2>2. /\ content \in Contents /\ creator \in Members
        /\ granted \subseteq Contents
        /\ passed = {} /\ unreviewed = {} /\ astray = FALSE
    BY DEF Init
  <2>3. review \in [status : {"none", "pending"}, content : Texts, by : Members]
    BY <2>2 DEF Init, NoReview, Reviewed, Texts, Members
  <2>4. \A c \in Callers : call[c].at = "idle" /\ call[c].by \in Members
    BY DEF Init, Idle, Members
  <2>5. QED
    BY <2>1, <2>2, <2>3, <2>4 DEF TypeOK, Texts
<1>2. Calls
  BY DEF Init, Calls, Read, Idle, Places, Texts, Members
<1>3. Matching /\ Provided /\ UnreviewedIsExcused
  BY DEF Init, Matching, Provided, UnreviewedIsExcused, NoReview, Reviewed
<1>4. QED
  BY <1>1, <1>2, <1>3 DEF IInv

\* The beginning of a request only reads.
LEMMA ReadsStep ==
  ASSUME IInv, NEW c \in Callers, Reads(c)
  PROVE  IInv'
<1>1. PICK at \in {"submit", "withdraw", "reject", "approve"}, m \in Members :
        /\ Asks(c, at, m)
        /\ at # "submit" => review.status = "pending"
        /\ at = "approve" => content = review.content
  BY DEF Reads, Submit, Withdraw, Reject, Approve, Unchanged, Members
<1>2. UNCHANGED <<postVars, review, histVars>>
  BY <1>1 DEF Asks
<1>3. call' = [call EXCEPT ![c] =
        [at |-> at, by |-> m,
         content |-> IF at \in {"submit", "approve"} THEN content ELSE "none",
         shown |-> IF at = "approve" THEN review.content ELSE "none"]]
  BY <1>1 DEF Asks
<1>4. Calls'
  BY <1>1, <1>2, <1>3
     DEF IInv, TypeOK, Calls, Read, Places, Texts, postVars
<1>5. TypeOK'
  BY <1>2, <1>4 DEF IInv, TypeOK, Calls, Places, postVars, histVars
<1>6. QED
  BY <1>2, <1>4, <1>5
     DEF IInv, Matching, Provided, UnreviewedIsExcused, postVars, histVars

\* A request that ends leaves those of the others as they were.
LEMMA AnswersCalls ==
  ASSUME Calls, NEW c \in Callers, call' = [call EXCEPT ![c] = Idle],
         review'.status # "none" \/ UNCHANGED review
  PROVE  /\ Calls'
         /\ \A d \in Callers : call'[d].at \in Places /\ call'[d].by \in Members
<1>1. Idle \in [at : Places, content : Texts, shown : Texts, by : Members]
  BY DEF Idle, Places, Texts, Members
<1>2. call' \in [Callers -> [at : Places, content : Texts, shown : Texts,
                            by : Members]]
  BY <1>1 DEF Calls
<1>3. ASSUME NEW d \in Callers PROVE Read(d)'
  <2>1. CASE d = c
    BY <2>1 DEF Calls, Read, Idle
  <2>2. CASE d # c
    BY <2>2 DEF Calls, Read
  <2>3. QED
    BY <2>1, <2>2
<1>4. QED
  BY <1>2, <1>3 DEF Calls

LEMMA DecisionStep ==
  ASSUME IInv, NEW c \in Callers,
         Dies(c) \/ Submits(c) \/ Withdraws(c) \/ Rejects(c) \/ Approves(c)
  PROVE  IInv'
<1>0. TypeOK /\ Calls /\ Read(c)
  BY DEF IInv, Calls
<1>1. CASE Dies(c)
  <2>1. UNCHANGED <<postVars, review, histVars>>
    BY <1>1 DEF Dies
  <2>2. Calls' /\ TypeOK'
    BY <1>0, <1>1, <2>1, AnswersCalls
       DEF Dies, TypeOK, Places, postVars, histVars
  <2>3. QED
    BY <2>1, <2>2
       DEF IInv, Matching, Provided, UnreviewedIsExcused, postVars, histVars
<1>2. CASE Submits(c)
  <2>1. /\ call[c].content \in Contents /\ call[c].by \in Members
        /\ review' = Reviewed("pending", call[c].content, call[c].by)
    BY <1>0, <1>2 DEF Submits, Answers, Read, TypeOK
  <2>2. review' \in [status : {"pending"}, content : Contents, by : Members]
    BY <2>1 DEF Reviewed
  <2>3. /\ Calls'
        /\ \A d \in Callers : call'[d].at \in Places /\ call'[d].by \in Members
    BY <1>0, <1>2, <2>2, AnswersCalls DEF Submits, Answers
  <2>4. astray' = (call[c].content # content) /\ UNCHANGED content
    BY <1>2 DEF Submits
  <2>5. TypeOK'
    BY <1>0, <1>2, <2>2, <2>3, <2>4
       DEF Submits, TypeOK, Places, PostStatuses
  <2>6. Matching'
    <3>1. review'.content = call[c].content
      BY <2>1 DEF Reviewed
    <3>2. CASE call[c].content = content
      BY <2>4, <3>1, <3>2 DEF Matching
    <3>3. CASE call[c].content # content
      BY <2>4, <3>3 DEF Matching
    <3>4. QED
      BY <3>2, <3>3
  <2>7. Provided' /\ UnreviewedIsExcused'
    BY <1>2 DEF IInv, Submits, Provided, UnreviewedIsExcused
  <2>8. QED
    BY <2>3, <2>5, <2>6, <2>7 DEF IInv
<1>3. CASE Withdraws(c) \/ Rejects(c)
  <2>1. /\ review.status # "none" /\ review' = Resolved("rejected")
        /\ UNCHANGED <<content, jobs, histVars>>
    BY <1>0, <1>3 DEF Withdraws, Rejects, Answers, Read
  <2>2. Calls' /\ TypeOK'
    BY <1>0, <1>3, <2>1, AnswersCalls
       DEF Withdraws, Rejects, Answers, Resolved, TypeOK, Places,
           PostStatuses, histVars
  <2>3. QED
    BY <1>0, <2>1, <2>2
       DEF IInv, TypeOK, Resolved, Matching, Provided, UnreviewedIsExcused,
           histVars
<1>4. CASE Approves(c)
  <2>1. /\ review.status # "none" /\ review' = Resolved("approved")
        /\ call[c].shown = call[c].content /\ call[c].content \in Contents
    BY <1>0, <1>4 DEF Approves, Answers, Read
  <2>2. /\ Calls'
        /\ \A d \in Callers : call'[d].at \in Places /\ call'[d].by \in Members
    <3>1. review'.status # "none"
      BY <1>0, <2>1 DEF Resolved, TypeOK
    <3>2. QED
      BY <1>0, <1>4, <3>1, AnswersCalls DEF Approves, Answers
  <2>3. Matching'
    BY <1>0, <1>4, <2>1 DEF IInv, Approves, Resolved, TypeOK, Matching
  <2>4. TypeOK'
    <3>1. review' \in [status : {"approved"}, content : Contents \cup {"none"},
                       by : Members]
      BY <1>0, <2>1 DEF Resolved, TypeOK
    <3>2. granted' \subseteq Contents /\ passed' \subseteq Contents
      BY <1>0, <1>4, <2>1 DEF Approves, TypeOK
    <3>3. QED
      BY <1>0, <1>4, <2>2, <3>1, <3>2
         DEF Approves, TypeOK, Places, PostStatuses
  <2>5. Provided' /\ UnreviewedIsExcused'
    BY <1>4, <2>1 DEF IInv, Approves, Provided, UnreviewedIsExcused
  <2>6. QED
    BY <2>2, <2>3, <2>4, <2>5 DEF IInv
<1>5. QED
  BY <1>1, <1>2, <1>3, <1>4

\* What editors do cancels the jobs, or adds none.
LEMMA EditorStep ==
  ASSUME IInv,
         \/ \E m \in Editors, c \in Contents : EditorWrites(m, c)
         \/ \E s \in Slots : EditorUpdatesTarget(s)
  PROVE  IInv'
<1>1. CASE \E m \in Editors, c \in Contents : EditorWrites(m, c)
  <2>1. PICK m \in Editors, c \in Contents : EditorWrites(m, c)
    BY <1>1
  <2>2. /\ review' = Reviewed("pending", c, m) /\ content' = c /\ jobs' = {}
        /\ UNCHANGED <<call, passed, unreviewed>>
    BY <2>1 DEF EditorWrites, Resubmitted, JobsLeft
  <2>3. TypeOK'
    <3>1. review' \in [status : {"pending"}, content : Contents, by : Members]
      BY <2>2 DEF Reviewed, Members
    <3>2. post' \in PostStatuses /\ target' \in [Slots -> {"pending"}]
      BY <2>1 DEF EditorWrites, Pending, PostStatuses
    <3>3. UNCHANGED <<shelf, creator, call, granted, passed, unreviewed>>
          /\ astray' = FALSE
      BY <2>1 DEF EditorWrites
    <3>4. QED
      BY <2>2, <3>1, <3>2, <3>3 DEF IInv, TypeOK
  <2>4. Calls'
    BY <2>2 DEF IInv, Calls, Read, Reviewed
  <2>5. QED
    BY <2>2, <2>3, <2>4
       DEF IInv, Reviewed, Matching, Provided, UnreviewedIsExcused
<1>2. CASE \E s \in Slots : EditorUpdatesTarget(s)
  <2>1. PICK s \in Slots : EditorUpdatesTarget(s)
    BY <1>2
  <2>2. /\ review' = review \/ /\ review.status # "none"
                               /\ review' = Resolved("rejected")
        /\ jobs' \subseteq jobs /\ UNCHANGED <<content, call, histVars>>
    BY <2>1 DEF EditorUpdatesTarget
  <2>3. TypeOK'
    BY <2>1, <2>2
       DEF IInv, TypeOK, EditorUpdatesTarget, Resolved, PostStatuses, histVars
  <2>4. Calls'
    BY <2>2 DEF IInv, TypeOK, Calls, Read, Resolved
  <2>5. QED
    BY <2>2, <2>3, <2>4
       DEF IInv, TypeOK, Resolved, Matching, Provided, UnreviewedIsExcused,
           histVars
<1>3. QED
  BY <1>1, <1>2

\* Whoever else puts content up has granted it, or is an editor who retries.
LEMMA ElsewhereStep ==
  ASSUME IInv, Elsewhere
  PROVE  IInv'
<1>1. UNCHANGED <<call, review>>
  BY DEF Elsewhere, AdminWrites, AdminUpdatesTarget, RetryTarget, Executes,
         PublishNow, Remove, SubscriptionEnds, histVars
<1>2. Calls'
  BY <1>1 DEF IInv, Calls, Read
<1>3. TypeOK'
  <2>1. CASE \E c \in Contents, timed \in SUBSET Slots : AdminWrites(c, timed)
    BY <2>1 DEF IInv, TypeOK, AdminWrites, PostStatuses, Pending
  <2>2. CASE \E s \in Slots, time \in {"given", "removed", "kept"} :
               AdminUpdatesTarget(s, time)
    <3>1. PICK s \in Slots, time \in {"given", "removed", "kept"} :
            AdminUpdatesTarget(s, time)
      BY <2>2
    <3>2. /\ jobs' \in {jobs, jobs \cup {s}, jobs \ {s}}
          /\ granted' \in {granted, granted \cup {content}}
      BY <3>1 DEF AdminUpdatesTarget
    <3>3. target' = [target EXCEPT ![s] = "pending"]
          /\ UNCHANGED <<post, shelf, content, creator, review, call, passed,
                         unreviewed, astray>>
      BY <3>1 DEF AdminUpdatesTarget
    <3>4. QED
      BY <3>2, <3>3 DEF IInv, TypeOK
  <2>3. CASE \E s \in Slots, m \in Members : RetryTarget(m, s)
    BY <2>3 DEF IInv, TypeOK, RetryTarget
  <2>4. CASE \E s \in Slots : Executes(s)
    BY <2>4 DEF IInv, TypeOK, Executes, Rollup, PostStatuses
  <2>5. CASE PublishNow \/ Remove \/ SubscriptionEnds
    BY <2>5 DEF IInv, TypeOK, PublishNow, Remove, SubscriptionEnds, Pending,
                PostStatuses, histVars
  <2>6. QED
    BY <2>1, <2>2, <2>3, <2>4, <2>5 DEF Elsewhere
<1>4. Matching'
  BY <1>1 DEF IInv, Matching, Elsewhere, AdminWrites, AdminUpdatesTarget,
              RetryTarget, Executes, PublishNow, Remove, SubscriptionEnds,
              histVars
<1>5. Provided' /\ UnreviewedIsExcused'
  <2>1. CASE \E s \in Slots : Executes(s)
    BY <2>1 DEF IInv, Executes, Provided, UnreviewedIsExcused
  <2>2. CASE ~ \E s \in Slots : Executes(s)
    BY <2>2 DEF IInv, Elsewhere, AdminWrites, AdminUpdatesTarget, RetryTarget,
                PublishNow, Remove, SubscriptionEnds, Provided,
                UnreviewedIsExcused, histVars
  <2>3. QED
    BY <2>1, <2>2
<1>6. QED
  BY <1>2, <1>3, <1>4, <1>5 DEF IInv

LEMMA IStep == IInv /\ [Next]_vars => IInv'
<1> SUFFICES ASSUME IInv, [Next]_vars PROVE IInv'
  OBVIOUS
<1>1. CASE UNCHANGED vars
  BY <1>1 DEF vars, postVars, histVars, IInv, TypeOK, Calls, Read, Matching,
              Provided, UnreviewedIsExcused
<1>2. QED
  BY <1>1, Steps, ReadsStep, DecisionStep, EditorStep, ElsewhereStep

-----------------------------------------------------------------------------

\* The type invariant of the review of a post, whatever is written, decided,
\* executed and cut off in whatever order.
THEOREM ReviewsTypeCorrect == Spec => []TypeOK
<1>1. IInv => TypeOK
  BY DEF IInv
<1>2. QED
  BY <1>1, IInit, IStep, PTL DEF Spec

\* An editor's content that nobody granted is published only when an approval
\* was overtaken by a write, or an editor has retried a failed target.
THEOREM UnreviewedHasAnExcuse == Spec => []UnreviewedIsExcused
<1>1. IInv => UnreviewedIsExcused
  BY DEF IInv
<1>2. QED
  BY <1>1, IInit, IStep, PTL DEF Spec

\* What waits to be published has been granted, or is one of the two exceptions:
\* also what a rejection has left waiting is nothing that an editor has written
\* since.
THEOREM WaitingWasPutUp == Spec => [](jobs # {} => content \in granted \cup passed)
<1>1. IInv => (jobs # {} => content \in granted \cup passed)
  BY DEF IInv, Provided
<1>2. QED
  BY <1>1, IInit, IStep, PTL DEF Spec

\* A review that can still be decided speaks of the post's content, unless the
\* content was written over by a member who needs no review, or while it was
\* being submitted.
THEOREM ReviewKeepsToContent == Spec => []ReviewMatchesContent
<1>1. IInv => ReviewMatchesContent
  BY DEF IInv, Matching, ReviewMatchesContent
<1>2. QED
  BY <1>1, IInit, IStep, PTL DEF Spec
=============================================================================
