------------------------------ MODULE Reviews ------------------------------
(***************************************************************************)
(* The review of one post: ReviewService.act (services/src/reviews.ts)     *)
(* beside the commands of PostService that touch a review, a job or the    *)
(* content (services/src/posts.ts) and the execution of its jobs.          *)
(*                                                                         *)
(* act reads the post and the review without a lock, decides, and writes   *)
(* by id in a transaction of its own, so that every decision is two steps. *)
(* The commands of PostService lock what they read and are one step each;  *)
(* so is the execution of a job, whose own steps are those of Publishing.  *)
(* Times are left out: a job may run as soon as it is enqueued.            *)
(***************************************************************************)
EXTENDS FiniteSets

CONSTANTS
  Contents,  \* contents of the post, which the fingerprint tells apart
  Slots,     \* its targets; each write replaces all of them
  Editors,   \* members whose role is "editor"
  Admin,     \* a member who may approve and publish directly
  Callers    \* requests to act that run at a time

ASSUME AdminAssumption == Admin \notin Editors

Members == Editors \cup {Admin}

VARIABLES
  post,      \* posts.status
  shelf,     \* "kept", or "deleted" once deleted_at is set
  content,   \* posts.content
  creator,   \* posts.created_by_member_id
  target,    \* the status of each target
  jobs,      \* targets whose job waits
  review,    \* the row of post_reviews
  call,      \* what each request has read and is about to write; the content
             \* shown to the reviewer is the submitted one
  \* History.
  granted,   \* contents that Admin wrote, approved or put up himself
  passed,    \* others that were put up by an approval which had read another
             \* content, or by an editor's retry
  unreviewed,\* those that were published before they were granted
  astray     \* the content was replaced without its review, or was replaced
             \* while it was being submitted

postVars == <<post, shelf, content, creator, target, jobs>>
histVars == <<granted, passed, unreviewed, astray>>
vars == <<postVars, review, call, histVars>>

Idle == [at |-> "idle", content |-> "none", shown |-> "none", by |-> Admin]
NoReview == [status |-> "none", content |-> "none", by |-> Admin]
Reviewed(status, c, m) == [status |-> status, content |-> c, by |-> m]

Pending == [s \in Slots |-> "pending"]

\* What a created post can look like.  An editor's waits for review whatever
\* its intent is.
Init ==
  /\ content \in Contents /\ creator \in Members
  /\ shelf = "kept" /\ target = Pending
  /\ jobs \in SUBSET Slots
  /\ IF creator = Admin
     THEN /\ post \in IF jobs = {} THEN {"draft"}
                               ELSE {"scheduled", "publishing"}
          /\ post = "publishing" => jobs = Slots
          /\ review = NoReview /\ granted = {content}
     ELSE /\ post = "pending_review" /\ jobs = {}
          /\ review = Reviewed("pending", content, creator) /\ granted = {}
  /\ call = [c \in Callers |-> Idle]
  /\ passed = {} /\ unreviewed = {} /\ astray = FALSE

Resolved(status) == [review EXCEPT !.status = status]

\* rollupPostStatus, which the worker calls without the status of the review.
Rollup(statuses) ==
  CASE statuses = {"published"} -> "published"
    [] {"published", "failed"} \subseteq statuses -> "partially_failed"
    [] statuses = {"failed"} -> "failed"
    [] OTHER -> "scheduled"

-----------------------------------------------------------------------------
(* ReviewService.act.                                                      *)

Asks(c, at, m) ==
  /\ call[c].at = "idle" /\ shelf = "kept"
  /\ call' = [call EXCEPT
       ![c] = [at |-> at, by |-> m,
               content |-> IF at \in {"submit", "approve"} THEN content
                                                           ELSE "none",
               shown |-> IF at = "approve" THEN review.content ELSE "none"]]
  /\ UNCHANGED <<postVars, review, histVars>>

Submit(c, m) == m \in Editors /\ m = creator /\ Asks(c, "submit", m)

Withdraw(c, m) ==
  /\ review.status = "pending"
  /\ m \in {review.by, Admin}
  /\ Asks(c, "withdraw", m)

Reject(c) == review.status = "pending" /\ Asks(c, "reject", Admin)

\* Fault: the fingerprints are not compared.
UnchangedAlways == TRUE

\* The fingerprint of what was read is that of the submission.
Unchanged == content = review.content

Approve(c) ==
  /\ review.status = "pending" /\ Unchanged
  /\ Asks(c, "approve", Admin)

\* The transactions that follow look at nothing again.
Answers(c, at) == call[c].at = at /\ call' = [call EXCEPT ![c] = Idle]

Submits(c) ==
  /\ Answers(c, "submit")
  /\ review' = Reviewed("pending", call[c].content, call[c].by)
  /\ post' = "pending_review"
  /\ astray' = (call[c].content # content)
  /\ UNCHANGED <<shelf, content, creator, target, jobs, granted, passed,
                 unreviewed>>

Withdraws(c) ==
  /\ Answers(c, "withdraw")
  /\ review' = Resolved("rejected") /\ post' = "draft"
  /\ UNCHANGED <<shelf, content, creator, target, jobs, histVars>>

Rejects(c) ==
  /\ Answers(c, "reject")
  /\ review' = Resolved("rejected") /\ post' = "changes_requested"
  /\ UNCHANGED <<shelf, content, creator, target, jobs, histVars>>

\* Every target of the post gets its job, whichever they are by now.
Approves(c) ==
  /\ Answers(c, "approve")
  /\ review' = Resolved("approved") /\ post' = "scheduled"
  /\ jobs' = Slots
  /\ granted' = granted \cup {call[c].shown}
  /\ passed' = passed \cup ({content} \ (granted' \cup {call[c].content}))
  /\ UNCHANGED <<shelf, content, creator, target, unreviewed, astray>>

\* The request ends before its transaction commits.
Dies(c) ==
  /\ call[c].at # "idle" /\ call' = [call EXCEPT ![c] = Idle]
  /\ UNCHANGED <<postVars, review, histVars>>

-----------------------------------------------------------------------------
(* PostService.                                                            *)

\* Fault: the upsert keeps the fingerprint of the review before.
ResubmittedAsBefore(c, m) ==
  [review EXCEPT !.status = "pending", !.by = m,
                 !.content = IF @ = "none" THEN c ELSE @]

\* The review that an editor's write leaves, which its upsert replaces.
Resubmitted(c, m) == Reviewed("pending", c, m)

\* All jobs are cancelled, and an editor's write enqueues none.
JobsLeft == {}

\* update, by an editor.
EditorWrites(m, c) ==
  /\ m \in Editors /\ shelf = "kept"
  /\ content' = c /\ target' = Pending /\ jobs' = JobsLeft
  /\ post' = "pending_review"
  /\ review' = Resubmitted(c, m) /\ astray' = FALSE
  /\ UNCHANGED <<shelf, creator, call, granted, passed, unreviewed>>

\* update, by Admin, who gives a time to some targets; the review stays as it
\* is.
AdminWrites(c, timed) ==
  /\ shelf = "kept"
  /\ content' = c /\ target' = Pending /\ jobs' = timed
  /\ post' = IF timed = {} THEN "draft" ELSE "scheduled"
  /\ granted' = granted \cup {c}
  /\ astray' = (c # review.content)
  /\ UNCHANGED <<shelf, creator, review, call, passed, unreviewed>>

\* updateTarget.  An editor's cancels the job of this target only.
EditorUpdatesTarget(s) ==
  /\ Editors # {} /\ shelf = "kept" /\ target[s] # "published"
  /\ target' = [target EXCEPT ![s] = "pending"]
  /\ jobs' = jobs \ {s}
  /\ post' = "draft"
  /\ review' = IF review.status \in {"pending", "approved"}
               THEN Resolved("rejected") ELSE review
  /\ UNCHANGED <<shelf, content, creator, call, histVars>>

AdminUpdatesTarget(s, time) ==
  /\ shelf = "kept" /\ target[s] # "published"
  /\ target' = [target EXCEPT ![s] = "pending"]
  /\ CASE time = "given" ->
            jobs' = jobs \cup {s} /\ granted' = granted \cup {content}
       [] time = "removed" -> jobs' = jobs \ {s} /\ UNCHANGED granted
       [] time = "kept" -> UNCHANGED <<jobs, granted>>
  /\ UNCHANGED <<post, shelf, content, creator, review, call, passed,
                 unreviewed, astray>>

PublishNow ==
  /\ shelf = "kept" /\ post \notin {"publishing", "published"}
  /\ post' = "publishing" /\ target' = Pending /\ jobs' = Slots
  /\ granted' = granted \cup {content}
  /\ UNCHANGED <<shelf, content, creator, review, call, passed, unreviewed,
                 astray>>

\* retryTarget, whose caller's role is not looked at.
RetryTarget(m, s) ==
  /\ target[s] = "failed"
  /\ target' = [target EXCEPT ![s] = "pending"] /\ jobs' = jobs \cup {s}
  /\ IF m = Admin
     THEN granted' = granted \cup {content} /\ UNCHANGED passed
     ELSE passed' = passed \cup ({content} \ granted) /\ UNCHANGED granted
  /\ UNCHANGED <<post, shelf, content, creator, review, call, unreviewed,
                 astray>>

Remove ==
  /\ shelf = "kept" /\ shelf' = "deleted" /\ jobs' = {}
  /\ UNCHANGED <<post, content, creator, target, review, call, histVars>>

-----------------------------------------------------------------------------
(* The worker and the billing webhook.                                     *)

\* A job executes.  It looks at the post's deletion and at the target's status,
\* and at neither the post's status nor the review.
Executes(s) ==
  /\ s \in jobs /\ jobs' = jobs \ {s}
  /\ IF shelf = "deleted" \/ target[s] # "pending"
     THEN UNCHANGED <<post, target, unreviewed>>
     ELSE \E outcome \in {"published", "failed"} :
            /\ target' = [target EXCEPT ![s] = outcome]
            /\ post' = Rollup({target'[u] : u \in Slots})
            /\ unreviewed' = IF outcome = "published"
                             THEN unreviewed \cup ({content} \ granted)
                             ELSE unreviewed
  /\ UNCHANGED <<shelf, content, creator, review, call, granted, passed,
                 astray>>

\* stopBilledWorkspaceWork.  The payer subscribes again in time.
SubscriptionEnds ==
  /\ \/ post \in {"scheduled", "publishing"}
     \/ \E s \in Slots : target[s] = "pending"
  /\ post' = IF post \in {"scheduled", "publishing"} THEN "failed" ELSE post
  /\ target' = [s \in Slots |->
                  IF target[s] = "pending" THEN "failed" ELSE target[s]]
  /\ UNCHANGED <<shelf, content, creator, jobs, review, call, histVars>>

Acts(c) ==
  \/ \E m \in Members : Submit(c, m) \/ Withdraw(c, m)
  \/ Reject(c) \/ Approve(c)
  \/ Submits(c) \/ Withdraws(c) \/ Rejects(c) \/ Approves(c) \/ Dies(c)

Writes ==
  \E c \in Contents :
    \/ \E m \in Editors : EditorWrites(m, c)
    \/ \E timed \in SUBSET Slots : AdminWrites(c, timed)

Touches(s) ==
  \/ EditorUpdatesTarget(s)
  \/ \E time \in {"given", "removed", "kept"} : AdminUpdatesTarget(s, time)
  \/ \E m \in Members : RetryTarget(m, s)

Next ==
  \/ \E c \in Callers : Acts(c)
  \/ Writes \/ PublishNow \/ Remove \/ SubscriptionEnds
  \/ \E s \in Slots : Touches(s) \/ Executes(s)

Spec == Init /\ [][Next]_vars

-----------------------------------------------------------------------------
(* Properties.                                                             *)

PostStatuses == {"draft", "pending_review", "changes_requested", "scheduled",
                 "publishing", "published", "partially_failed", "failed"}

\* Every variable stays within its row's domain, and a request holds what act
\* has read.
TypeOK ==
  /\ post \in PostStatuses /\ shelf \in {"kept", "deleted"}
  /\ content \in Contents /\ creator \in Members
  /\ target \in [Slots -> {"pending", "published", "failed"}]
  /\ jobs \subseteq Slots
  /\ review \in [status : {"none", "pending", "approved", "rejected"},
                 content : Contents \cup {"none"}, by : Members]
  /\ \A c \in Callers :
       /\ call[c].at \in {"idle", "submit", "withdraw", "reject", "approve"}
       /\ call[c].by \in Members
  /\ granted \subseteq Contents /\ passed \subseteq Contents
  /\ unreviewed \subseteq Contents
  /\ astray \in BOOLEAN

\* What an editor has written is not published before a member who may publish
\* has approved, rewritten or put up that very content.  It fails, although
\* "approval revalidates ... post content": the approval of one content puts up
\* another that was written after act read the post.
UnreviewedIsNotPublished == unreviewed = {}

\* Those two are the only ways: an approval that was overtaken by a write, and
\* a retry of a target that the end of the subscription has called failed.
UnreviewedIsExcused == unreviewed \subseteq passed

\* A review that is pending or approved speaks of the content the post has,
\* unless Admin has written since or the submission was overtaken by a write:
\* a pending one can be approved.
ReviewMatchesContent ==
  review.status \in {"pending", "approved"} =>
    review.content = content \/ astray

\* A rejected post has no job waiting.  It fails: neither a submission nor a
\* rejection cancels the jobs of an earlier approval, updateTarget cancels one
\* of them, and of two decisions the later one overwrites the review only.
RejectedIsNotScheduled ==
  post = "changes_requested" => jobs = {}

\* What is published stays so.  It fails when a review that publishNow left
\* pending is approved afterwards: the post becomes "scheduled", and its jobs
\* find nothing to do.
PublishedStays == [][post = "published" => post' = "published"]_vars

=============================================================================
