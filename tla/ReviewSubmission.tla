-------------------------- MODULE ReviewSubmission --------------------------
(***************************************************************************)
(* Formal reviews of a pull request (tools/pr_review_writes.py) and their  *)
(* preflight (tools/pr_review_eligibility.py), for two principals: the     *)
(* ordinary credential comments, a reviewer of its own approves and asks   *)
(* for changes (reviewer_auth.py), through a client and a governor built   *)
(* for that one review.                                                    *)
(*                                                                         *)
(* The precondition of a review is a chain of requests: the pull request,  *)
(* who the reviewer should be, a token, who the token really is, and the   *)
(* pull request again.  Heads are pushed, the reviewer's installation is   *)
(* suspended and reviews are dismissed in between.  An action is one       *)
(* request with what follows it; an App's requests about its installation, *)
(* which come one after the other, are one.                                *)
(***************************************************************************)
EXTENDS GhAttempt, Sequences, FiniteSets

CONSTANTS
  Submissions, Preflights,  \* calls of the three review tools, and of the preflight
  Action,         \* Action[c]: which of the three
  ExpectedHead,   \* of both kinds of calls
  ExpectedLogin,  \* of submissions, None for a comment
  Heads, FirstHead, Logins,
  Deployments,    \* deployments, with the calls made in each
  MaxIssues, MaxPushes  \* bounds: times a caller asks for one review, pushes

(***************************************************************************)
(* author: of the pull request.  ordinary: whom the ordinary credential    *)
(* belongs to.  allowed: require_write_enabled lets reviews through.       *)
(* kind, configured: of the reviewer principal, None when there is none.   *)
(* viewer: whom its credential really authenticates.  calls: those that    *)
(* are made.                                                               *)
(***************************************************************************)
Calls == Submissions \cup Preflights

Deployment ==
  [calls : SUBSET Calls, author : Logins, ordinary : Logins, allowed : BOOLEAN,
   kind : {"github_app", "static_token", None},
   configured : Logins \cup {None}, viewer : Logins \cup {None}]

\* Why a review is refused before it is sent.
Reasons == {"policy", "head", "configuration", "login", "author", "failed"}

ASSUME ReviewAssumption ==
  /\ Submissions \cap Preflights = {}
  /\ None \notin Calls /\ None \notin Logins \cup Reasons
  /\ Action \in [Submissions -> {"approve", "request_changes", "comment"}]
  /\ ExpectedHead \in [Calls -> Heads]
  /\ ExpectedLogin \in [Submissions -> Logins \cup {None}]
  /\ \A c \in Submissions : ExpectedLogin[c] = None <=> Action[c] = "comment"
  /\ FirstHead \in Heads
  /\ Deployments \subseteq Deployment
  /\ \A d \in Deployments : d.viewer = None <=> d.kind = None
  /\ MaxIssues \in Nat /\ MaxPushes \in Nat

VARIABLES
  pc,          \* pc[c]: the request a call makes next, or how it ended
  completed,   \* completed[c]: write_completed as established so far
  reviewId,    \* reviewId[c]: of the review GitHub said it created, or None
  outcome,     \* outcome[c]: WriteOutcomeMetadata, or None
  refused,     \* refused[c]: why it stopped with nothing sent, or None
  known,       \* known[p]: the reviewer's login as a preflight resolved it
  answer,      \* answer[p]: what a preflight returned, or None
  deployment,
  usable,      \* GitHub: the reviewer's credential works
  head,        \* GitHub: head of the pull request
  reviews,     \* GitHub: reviews in the order of their ids
  live,        \* GitHub: submissions whose review was sent and is not decided
  since,       \* history: heads since the call knew who acts, to its last look
  garbled,     \* history: calls told by an unreadable reply that theirs was applied
  stale,       \* history: calls since whose last look a head was pushed
  issues, pushes

localVars == <<completed, reviewId, refused, known, answer>>
remoteVars == <<usable, head, reviews, live>>
historyVars == <<since, garbled, stale, issues, pushes>>
vars == <<pc, localVars, outcome, deployment, remoteVars, historyVars>>

Before == {"identity", "ordinary", "advisory", "mint", "prove", "reviewer", "verify"}
Goto(c, step) == pc' = [pc EXCEPT ![c] = step]

State(action) ==
  CASE action = "approve" -> "APPROVED"
    [] action = "request_changes" -> "CHANGES_REQUESTED"
    [] action = "comment" -> "COMMENTED"

\* The login a call takes itself to act as, and the one GitHub sees.
Actor(c) == IF Action[c] = "comment" THEN deployment.ordinary ELSE ExpectedLogin[c]
Credential(c) == IF Action[c] = "comment" THEN deployment.ordinary ELSE deployment.viewer

Init ==
  /\ pc = [c \in Calls |-> "identity"]
  /\ completed = [c \in Submissions |-> "unknown"]
  /\ reviewId = [c \in Submissions |-> None]
  /\ outcome = [c \in Submissions |-> None]
  /\ refused = [c \in Submissions |-> None]
  /\ known = [p \in Preflights |-> None]
  /\ answer = [p \in Preflights |-> None]
  /\ deployment \in Deployments
  /\ usable = TRUE
  /\ head = FirstHead
  /\ reviews = <<>>
  /\ live = {}
  /\ since = [c \in Calls |-> {}]
  /\ garbled = {} /\ stale = {}
  /\ issues = [c \in Submissions |-> 1]
  /\ pushes = 0

-----------------------------------------------------------------------------
(* The reviewer principal. *)

\* resolve_identity_read_only, None if it raises: an App whose installation works
\* is who the settings say; a static token is asked, and the settings may object.
AdvisoryLogin ==
  CASE ~usable -> None
    [] usable /\ deployment.kind = "github_app" -> deployment.configured
    [] usable /\ deployment.kind = "static_token" ->
         IF deployment.configured \in {None, deployment.viewer} THEN deployment.viewer ELSE None

-----------------------------------------------------------------------------
(* The precondition of a review. *)

\* On to the next request; nothing else changes.
Continue(c, step) ==
  /\ Goto(c, step)
  /\ UNCHANGED <<localVars, outcome, deployment, remoteVars, historyVars>>

\* An exception: no review was attempted.
Refuse(c, reason) ==
  /\ Goto(c, "stopped")
  /\ refused' = [refused EXCEPT ![c] = reason]
  /\ UNCHANGED <<completed, reviewId, known, answer, outcome, deployment, remoteVars,
                 historyVars>>

\* Who acts is known; the head is looked at once more.
Proven(c) ==
  /\ Goto(c, "verify")
  /\ since' = [since EXCEPT ![c] = {head}]
  /\ UNCHANGED <<localVars, outcome, deployment, remoteVars, garbled, stale, issues, pushes>>

ReadIdentity(c) ==
  /\ pc[c] = "identity"
  /\ CASE ~deployment.allowed -> Refuse(c, "policy")
       [] deployment.allowed /\ head # ExpectedHead[c] -> Refuse(c, "head")
       [] OTHER ->
            CASE Action[c] = "comment" -> Continue(c, "ordinary")
              [] Action[c] # "comment" /\ deployment.kind = None -> Refuse(c, "configuration")
              [] OTHER -> Continue(c, "advisory")

ReadOrdinary(c) == pc[c] = "ordinary" /\ Proven(c)

ResolveAdvisory(c) ==
  /\ pc[c] = "advisory"
  /\ CASE AdvisoryLogin = None -> Refuse(c, "configuration")
       [] AdvisoryLogin \notin {None, ExpectedLogin[c]} -> Refuse(c, "login")
       [] AdvisoryLogin = ExpectedLogin[c] ->
            IF Action[c] = "approve" /\ deployment.author = AdvisoryLogin
            THEN Refuse(c, "author")
            ELSE Continue(c, IF deployment.kind = "github_app" THEN "mint" ELSE "prove")

\* client_for_review: the installation is looked at again and gives a token.
MintToken(c) ==
  /\ pc[c] = "mint"
  /\ IF usable THEN Continue(c, "prove") ELSE Refuse(c, "configuration")

\* A token is taken to be whom the settings say.
ProveActorMutant(c) == pc[c] = "prove" /\ usable /\ Proven(c)

\* _viewer_login: the token is asked whose it is.
ProveActor(c) ==
  /\ pc[c] = "prove"
  /\ usable
  /\ IF deployment.viewer = ExpectedLogin[c] THEN Proven(c) ELSE Refuse(c, "login")

\* The head of the first look is good enough.
VerifyHeadMutant(c) ==
  /\ pc[c] = "verify"
  /\ Goto(c, "ready")
  /\ UNCHANGED <<localVars, outcome, deployment, remoteVars, historyVars>>

VerifyHead(c) ==
  /\ pc[c] = "verify"
  /\ IF head = ExpectedHead[c]
     THEN /\ Goto(c, "ready")
          /\ stale' = stale \ {c}
          /\ UNCHANGED <<localVars, outcome, deployment, remoteVars, since, garbled,
                         issues, pushes>>
     ELSE Refuse(c, "head")

\* A request fails.
FailCheck(c) == pc[c] \in Before /\ Refuse(c, "failed")

-----------------------------------------------------------------------------
(* The review. *)

SendReview(c) ==
  /\ pc[c] = "ready"
  /\ Goto(c, "writing")
  /\ live' = live \cup {c}
  /\ UNCHANGED <<localVars, outcome, deployment, usable, head, reviews, historyVars>>

\* The governor of the credential is in a cooldown: the shared one, or the reviewer's
\* own after an identity request that used up its last allowance.
RefuseReview(c) ==
  /\ pc[c] = "ready"
  /\ Goto(c, "reading")
  /\ completed' = [completed EXCEPT ![c] = "no"]
  /\ UNCHANGED <<reviewId, refused, known, answer, outcome, deployment, remoteVars, historyVars>>

\* GitHub creates the review, before or after gh gives up on it.
CreateReview(c) ==
  /\ c \in live
  /\ Action[c] # "comment" => usable /\ Credential(c) # deployment.author
  /\ live' = live \ {c}
  /\ reviews' = Append(reviews, [call |-> c, actor |-> Credential(c), commit |-> ExpectedHead[c],
                                 event |-> State(Action[c]), dismissed |-> FALSE])
  /\ UNCHANGED <<pc, localVars, outcome, deployment, usable, head, historyVars>>

OwnReviews(c) == {i \in DOMAIN reviews : reviews[i].call = c}

\* The gh process ends and write() returns or raises; the reply may lack the id.
FinishReview(c) ==
  /\ pc[c] = "writing"
  /\ \E end \in ApiWriteEnds :
       /\ end.fate = "applied" <=> c \notin live
       /\ live' = IF end.fate = "rejected" THEN live \ {c} ELSE live
       /\ completed' = [completed EXCEPT ![c] = WriteCompleted(end.verdict)]
       /\ garbled' = IF end.confirmed /\ end.verdict.failed THEN garbled \cup {c} ELSE garbled
       /\ \/ UNCHANGED reviewId
          \/ /\ ~end.verdict.failed
             /\ \E id \in OwnReviews(c) :
                  /\ \A other \in OwnReviews(c) : other <= id
                  /\ reviewId' = [reviewId EXCEPT ![c] = id]
  /\ Goto(c, "reading")
  /\ UNCHANGED <<refused, known, answer, outcome, deployment, usable, head, reviews,
                 since, stale, issues, pushes>>

Report(c, read, matches) ==
  /\ outcome' = [outcome EXCEPT ![c] =
       [write_completed |-> completed[c],
        readback_completed |-> read,
        state_matches_requested |-> matches]]
  /\ Goto(c, "answered")
  /\ UNCHANGED <<localVars, deployment, remoteVars, historyVars>>

\* A readback that failed counts as one that did not match.
FailReadbackMutant(c) == pc[c] = "reading" /\ Report(c, FALSE, "no")

\* The request fails, or there is no id to read.
FailReadback(c) == pc[c] = "reading" /\ Report(c, FALSE, "unknown")

Matches(c, review) ==
  /\ review.event = State(Action[c]) /\ ~review.dismissed
  /\ review.commit = ExpectedHead[c]
  /\ review.actor = Actor(c)

\* Without the id of its review a call looks for one that matches.
ReadbackMutant(c) ==
  /\ pc[c] = "reading"
  /\ LET found == \E i \in DOMAIN reviews : Matches(c, reviews[i])
     IN Report(c, TRUE, IF found THEN "yes" ELSE "no")

\* The ordinary credential reads the review by its id.
Readback(c) ==
  /\ pc[c] = "reading"
  /\ reviewId[c] # None
  /\ Report(c, TRUE, IF Matches(c, reviews[reviewId[c]]) THEN "yes" ELSE "no")

\* The call is cancelled, or something that is no RuntimeError ends it.
Abandon(c) ==
  /\ pc[c] \in {"ready", "writing", "reading"}
  /\ Goto(c, "stopped")
  /\ UNCHANGED <<localVars, outcome, deployment, remoteVars, historyVars>>

\* The caller asks again, as far as the outcome and its warning leave it free to.
AskAgain(c) ==
  /\ pc[c] = "answered"
  /\ outcome[c].write_completed = "no" /\ outcome[c].state_matches_requested # "yes"
  /\ issues[c] < MaxIssues
  /\ Goto(c, "identity")
  /\ issues' = [issues EXCEPT ![c] = @ + 1]
  /\ outcome' = [outcome EXCEPT ![c] = None]
  /\ UNCHANGED <<localVars, deployment, remoteVars, since, garbled, stale, pushes>>

-----------------------------------------------------------------------------
(* The preflight, gh_get_pr_review_eligibility. *)

Answer(p, reason) ==
  /\ Goto(p, "answered")
  /\ answer' = [answer EXCEPT ![p] =
       [reason |-> reason,
        approval |-> reason = "eligible",
        comment |-> reason \in {"reviewer_not_configured", "reviewer_identity_unavailable",
                                "reviewer_is_pr_author", "eligible"},
        reviewer |-> known[p]]]
  /\ UNCHANGED <<completed, reviewId, refused, known, outcome, deployment, remoteVars,
                 historyVars>>

PreflightIdentity(p) ==
  /\ pc[p] = "identity"
  /\ IF head # ExpectedHead[p] THEN Answer(p, "head_mismatch") ELSE Continue(p, "ordinary")

PreflightOrdinary(p) ==
  /\ pc[p] = "ordinary"
  /\ \/ IF deployment.kind = None THEN Proven(p) ELSE Continue(p, "reviewer")
     \/ Answer(p, "ordinary_identity_unavailable")

\* The reviewer resolves, or it does not and the preflight goes on.
PreflightReviewer(p) ==
  /\ pc[p] = "reviewer"
  /\ Goto(p, "verify")
  /\ \E login \in {AdvisoryLogin, None} : known' = [known EXCEPT ![p] = login]
  /\ since' = [since EXCEPT ![p] = {head}]
  /\ UNCHANGED <<completed, reviewId, refused, answer, outcome, deployment, remoteVars,
                 garbled, stale, issues, pushes>>

Reason(p) ==
  CASE ~deployment.allowed -> "write_policy_denied"
    [] deployment.allowed /\ deployment.kind = None -> "reviewer_not_configured"
    [] deployment.allowed /\ deployment.kind # None ->
         CASE known[p] = None -> "reviewer_identity_unavailable"
           [] known[p] = deployment.author -> "reviewer_is_pr_author"
           [] OTHER -> "eligible"

\* Mutant: the preflight does not look again.
PreflightVerifyMutant(p) == pc[p] = "verify" /\ Answer(p, Reason(p))

PreflightVerify(p) ==
  /\ pc[p] = "verify"
  /\ Answer(p, IF head # ExpectedHead[p] THEN "head_mismatch" ELSE Reason(p))

\* A look at the pull request fails, or the call is cancelled.
PreflightRaises(p) == pc[p] \in Before /\ Continue(p, "stopped")

-----------------------------------------------------------------------------
(* GitHub and its other users. *)

Push ==
  /\ pushes < MaxPushes
  /\ pushes' = pushes + 1
  /\ head' \in Heads \ {head}
  /\ since' = [c \in Calls |-> IF pc[c] = "verify" THEN since[c] \cup {head'} ELSE since[c]]
  /\ stale' = Submissions
  /\ UNCHANGED <<pc, localVars, outcome, deployment, usable, reviews, live, garbled, issues>>

Suspend ==
  /\ usable
  /\ usable' = FALSE
  /\ UNCHANGED <<pc, localVars, outcome, deployment, head, reviews, live, historyVars>>

\* The same review from another program that holds the credential.
ReviewElsewhere ==
  /\ \A i \in DOMAIN reviews : reviews[i].call # None
  /\ \E c \in Submissions \cap deployment.calls :
       /\ Credential(c) # None
       /\ reviews' = Append(reviews, [call |-> None, actor |-> Credential(c), commit |-> head,
                                      event |-> State(Action[c]), dismissed |-> FALSE])
  /\ UNCHANGED <<pc, localVars, outcome, deployment, usable, head, live, historyVars>>

Dismiss ==
  \E i \in DOMAIN reviews :
    /\ reviews[i].event # "COMMENTED" /\ ~reviews[i].dismissed
    /\ reviews' = [reviews EXCEPT ![i].dismissed = TRUE]
    /\ UNCHANGED <<pc, localVars, outcome, deployment, usable, head, live, historyVars>>

Next ==
  \/ \E c \in Submissions \cap deployment.calls :
       \/ ReadIdentity(c) \/ ReadOrdinary(c) \/ ResolveAdvisory(c) \/ MintToken(c)
       \/ ProveActor(c) \/ VerifyHead(c) \/ FailCheck(c)
       \/ SendReview(c) \/ RefuseReview(c) \/ CreateReview(c) \/ FinishReview(c)
       \/ FailReadback(c) \/ Readback(c) \/ Abandon(c) \/ AskAgain(c)
  \/ \E p \in Preflights \cap deployment.calls :
       \/ PreflightIdentity(p) \/ PreflightOrdinary(p) \/ PreflightReviewer(p)
       \/ PreflightVerify(p) \/ PreflightRaises(p)
  \/ Push \/ Suspend \/ ReviewElsewhere \/ Dismiss

Spec == Init /\ [][Next]_vars

-----------------------------------------------------------------------------
(* Properties *)

Review ==
  [call : Submissions \cup {None}, actor : Logins, commit : Heads,
   event : {"APPROVED", "CHANGES_REQUESTED", "COMMENTED"}, dismissed : BOOLEAN]
PreflightAnswer ==
  [reason : {"head_mismatch", "ordinary_identity_unavailable", "write_policy_denied",
             "reviewer_not_configured", "reviewer_identity_unavailable",
             "reviewer_is_pr_author", "eligible"},
   approval : BOOLEAN, comment : BOOLEAN, reviewer : Logins \cup {None}]
\* Every variable has the type the code gives it; an outcome never claims a
\* readback it has not made, and a review id is that of an existing review.
TypeOK ==
  /\ pc \in [Calls -> Before \cup {"ready", "writing", "reading", "answered", "stopped"}]
  /\ completed \in [Submissions -> Tri]
  /\ reviewId \in [Submissions -> DOMAIN reviews \cup {None}]
  /\ outcome \in [Submissions -> Outcomes \cup {None}]
  /\ refused \in [Submissions -> Reasons \cup {None}]
  /\ known \in [Preflights -> Logins \cup {None}]
  /\ answer \in [Preflights -> PreflightAnswer \cup {None}]
  /\ deployment \in Deployments
  /\ usable \in BOOLEAN
  /\ head \in Heads
  /\ reviews \in Seq(Review)
  /\ live \subseteq Submissions
  /\ since \in [Calls -> SUBSET Heads]
  /\ garbled \subseteq Submissions /\ stale \subseteq Submissions
  /\ issues \in [Submissions -> Nat] /\ pushes \in Nat

\* Each submission is a guarded create of the write contract whose precondition,
\* however many requests it takes, is its last look at the head.  The lock of the
\* governor is one for each principal: two reviews may be in flight at once.
Contract(c) ==
  INSTANCE WriteContract WITH
    Calls <- {c}, Guarded <- {c}, Creates <- {c}, Texts <- {},
    Values <- Heads, Initial <- FirstHead, MaxEdits <- MaxPushes,
    Expected <- [d \in {c} |-> ExpectedHead[d]],
    Requested <- [d \in {c} |-> ExpectedHead[d]],
    pc <- [d \in {c} |-> IF pc[d] \in Before THEN "checking" ELSE pc[d]],
    inFlight <- IF pc[c] = "writing" THEN c ELSE None,
    completed <- [d \in {c} |-> completed[d]],
    identified <- {d \in {c} : reviewId[d] # None},
    outcome <- [d \in {c} |-> outcome[d]],
    value <- head,
    live <- live \cap {c},
    applied <- [d \in {c} |-> Cardinality(OwnReviews(d))],
    garbled <- garbled \cap {c},
    stale <- stale \cap {c},
    issues <- [d \in {c} |-> issues[d]],
    edits <- pushes

\* The review tools implement the write contract: whatever is proved of its
\* outcomes, retries and precondition holds of reviews.
ImplementsContract ==
  /\ \A c \in Submissions : Contract(c)!Init
  /\ [][\A c \in Submissions : [Contract(c)!Next]_(Contract(c)!vars)]_vars

\* A review is sent only where policy lets it, with a credential that belongs to
\* the expected reviewer, never an approval by the author, and only if its commit
\* was the head after the credential had been proven: not just before a token was
\* minted, and not because the settings name the reviewer.
SentByProvenActor ==
  [][\A c \in Submissions :
       (pc[c] # "writing" /\ pc'[c] = "writing") =>
         /\ deployment.allowed
         /\ Action[c] # "comment" => Credential(c) = ExpectedLogin[c]
         /\ Action[c] = "approve" => Credential(c) # deployment.author
         /\ ExpectedHead[c] \in since[c]]_vars

\* A call verifies its own review, of its own actor, commit and event: not an
\* equal one that somebody else submitted beside it, when its own was lost.
VerifiedReviewIsOwn ==
  \A c \in Submissions :
    (outcome[c] # None /\ outcome[c].state_matches_requested = "yes") =>
      \E i \in OwnReviews(c) :
        /\ reviews[i].actor = Actor(c) /\ reviews[i].commit = ExpectedHead[c]
        /\ reviews[i].event = State(Action[c])

\* A preflight holds out an approval or a comment only if the commit was the head
\* after the identities had been resolved: a head that moved meanwhile discards
\* what was found.
PreflightHeld ==
  \A p \in Preflights :
    (answer[p] # None /\ (answer[p].approval \/ answer[p].comment)) => ExpectedHead[p] \in since[p]

\* The preflight and the review tools, which decide separately, agree: an approval
\* held out is not refused for policy or authorship, nor for its login unless the
\* settings name somebody else than the credential; and what the preflight calls
\* out of the question is never sent.
Sent(c) == pc[c] \in {"writing", "reading", "answered"} \/ OwnReviews(c) # {}
PreflightAgrees ==
  \A p \in Preflights, c \in Submissions :
    (answer[p] # None /\ Action[c] = "approve") =>
      /\ (answer[p].approval /\ answer[p].reviewer = ExpectedLogin[c]) =>
            /\ refused[c] \notin {"policy", "author"}
            /\ refused[c] = "login" => deployment.viewer # deployment.configured
      /\ answer[p].reason \in {"write_policy_denied", "reviewer_not_configured",
                               "reviewer_is_pr_author"} => ~Sent(c)

\* What a preflight holds out was so when it looked, and so the tools will see it
\* (pr_review_eligibility.py against pr_review_writes.py and reviewer_auth.py).
PreflightIsHonest == PreflightHeld /\ PreflightAgrees
=============================================================================
