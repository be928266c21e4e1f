----------------------- MODULE ReviewSubmissionProofs -----------------------
(***************************************************************************)
(* Proofs, for any reviews, preflights, deployments and pushes, that a     *)
(* review is sent by the actor it was meant for, that what is verified is  *)
(* the call's own review, that preflight and tools agree, and that a       *)
(* review is a guarded create of the write contract.  The invariant says   *)
(* what a call has established when it stands before its next request:     *)
(* the deployment does not change, so what was found of it stays true,     *)
(* while of the head only the last look counts.                            *)
(***************************************************************************)
EXTENDS ReviewSubmission, FiniteSetTheorems, SequenceTheorems, TLAPS

\* Who the reviewer principal is taken to be while it works.
Resolved ==
  IF deployment.kind = "github_app" THEN deployment.configured ELSE deployment.viewer

NotByAuthor(c) == Action[c] = "approve" => deployment.author # ExpectedLogin[c]

\* What the chain of requests establishes before a review may be sent.
Proper(c) ==
  /\ deployment.allowed
  /\ Action[c] # "comment" =>
       /\ deployment.kind # None /\ Resolved = ExpectedLogin[c]
       /\ deployment.viewer = ExpectedLogin[c]
  /\ NotByAuthor(c)

\* What a call knows when it stands before a request of that chain.
Knows(c, step) ==
  /\ step \in {"ordinary", "advisory", "mint", "prove"} => deployment.allowed
  /\ step = "ordinary" => Action[c] = "comment"
  /\ step \in {"advisory", "mint", "prove"} => Action[c] # "comment" /\ deployment.kind # None
  /\ step \in {"mint", "prove"} => Resolved = ExpectedLogin[c] /\ NotByAuthor(c)
  /\ step \in {"verify", "ready", "writing", "reading", "answered"} => Proper(c)

\* A refusal for what the deployment is was right.
RefusedRight(c, reason) ==
  /\ reason = "policy" => ~deployment.allowed
  /\ reason = "author" => Resolved = deployment.author /\ Resolved = ExpectedLogin[c]
  /\ reason = "login" => Resolved # ExpectedLogin[c] \/ deployment.viewer # ExpectedLogin[c]

KnowledgeInv ==
  \A c \in Submissions :
    /\ Knows(c, pc[c]) /\ RefusedRight(c, refused[c])
    /\ c \in live \/ OwnReviews(c) # {} => Proper(c)

\* The head of the last look is among the heads since the actor was known.
HeadInv ==
  /\ \A c \in Calls : pc[c] = "verify" => head \in since[c]
  /\ \A c \in Submissions : pc[c] = "ready" => ExpectedHead[c] \in since[c]

\* The reviews of a call are what it asked for, and the one it holds is one of them.
OwnInv ==
  \A c \in Submissions :
    /\ \A i \in OwnReviews(c) :
         /\ reviews[i].actor = Credential(c) /\ reviews[i].commit = ExpectedHead[c]
         /\ reviews[i].event = State(Action[c])
    /\ reviewId[c] # None => reviewId[c] \in OwnReviews(c)

\* What a preflight has found, and what it has answered, is so.
Found(p) ==
  /\ pc[p] = "reviewer" => deployment.kind # None
  /\ known[p] # None => deployment.kind # None /\ known[p] = Resolved
  /\ answer[p] # None =>
       /\ pc[p] = "answered"
       /\ answer[p].approval \/ answer[p].comment => ExpectedHead[p] \in since[p]
       /\ answer[p].approval =>
            deployment.allowed /\ answer[p].reviewer = Resolved
              /\ Resolved # None /\ Resolved # deployment.author
       /\ answer[p].reason = "write_policy_denied" => ~deployment.allowed
       /\ answer[p].reason = "reviewer_not_configured" => deployment.kind = None
       /\ answer[p].reason = "reviewer_is_pr_author" =>
            deployment.kind # None /\ Resolved = deployment.author

FoundInv == \A p \in Preflights : Found(p)

\* What a request of the chain comes to: a refusal, the next request, or its end.
Checks(c) ==
  \/ \E reason \in Reasons : Refuse(c, reason) /\ RefusedRight(c, reason)
  \/ \E step \in {"ordinary", "advisory", "mint", "prove"} : Continue(c, step) /\ Knows(c, step)
  \/ Proven(c) /\ Proper(c)
  \/ /\ pc[c] = "verify" /\ head = ExpectedHead[c]
     /\ Goto(c, "ready") /\ stale' = stale \ {c}
     /\ UNCHANGED <<localVars, outcome, deployment, remoteVars, since, garbled, issues, pushes>>

\* The reasons a preflight may give for its answer, and when they are right.
PreflightReasons ==
  {"head_mismatch", "ordinary_identity_unavailable", "write_policy_denied",
   "reviewer_not_configured", "reviewer_identity_unavailable", "reviewer_is_pr_author", "eligible"}

AnswersRight(p, reason) ==
  /\ reason \in PreflightReasons
  /\ reason \notin {"head_mismatch", "ordinary_identity_unavailable", "write_policy_denied"} =>
       ExpectedHead[p] \in since[p]
  /\ reason = "eligible" =>
       deployment.allowed /\ known[p] # None /\ known[p] # deployment.author
  /\ reason = "write_policy_denied" => ~deployment.allowed
  /\ reason = "reviewer_not_configured" => deployment.kind = None
  /\ reason = "reviewer_is_pr_author" => known[p] # None /\ known[p] = deployment.author

\* What a request of a preflight comes to.
Looks(p) ==
  \/ \E step \in {"ordinary", "reviewer", "stopped"} :
       Continue(p, step) /\ (step = "reviewer" => deployment.kind # None)
  \/ Proven(p)
  \/ PreflightReviewer(p)
  \/ \E reason \in PreflightReasons : Answer(p, reason) /\ AnswersRight(p, reason)

IInv ==
  /\ TypeOK /\ KnowledgeInv /\ HeadInv /\ OwnInv /\ FoundInv /\ VerifiedReviewIsOwn

-----------------------------------------------------------------------------
\* The tri-state outcome says no more than the verdict allows.
LEMMA CompletedType ==
  ASSUME NEW verdict
  PROVE  /\ WriteCompleted(verdict) \in Tri
         /\ WriteCompleted(verdict) = "yes" => ~verdict.failed
         /\ WriteCompleted(verdict) = "no" => verdict.failed /\ ~verdict.ambiguous
BY DEF WriteCompleted, Tri

\* What the deployment says of the two principals.
LEMMA DeploymentFacts ==
  ASSUME TypeOK
  PROVE  /\ deployment \in Deployment
         /\ deployment.viewer = None <=> deployment.kind = None
         /\ \A c \in Submissions :
              /\ Action[c] \in {"approve", "request_changes", "comment"}
              /\ Action[c] # "comment" => ExpectedLogin[c] \in Logins
              /\ ExpectedHead[c] \in Heads
              /\ State(Action[c]) \in {"APPROVED", "CHANGES_REQUESTED", "COMMENTED"}
              /\ Proper(c) => Credential(c) = Actor(c) /\ Credential(c) \in Logins
<1>1. deployment \in Deployments /\ Deployments \subseteq Deployment
  BY ReviewAssumption DEF TypeOK
<1>2. deployment.viewer = None <=> deployment.kind = None
  BY <1>1, ReviewAssumption
<1>3. ASSUME NEW c \in Submissions
      PROVE  /\ Action[c] \in {"approve", "request_changes", "comment"}
             /\ Action[c] # "comment" => ExpectedLogin[c] \in Logins
             /\ ExpectedHead[c] \in Heads
  BY ReviewAssumption DEF Calls
<1>4. ASSUME NEW c \in Submissions
      PROVE  State(Action[c]) \in {"APPROVED", "CHANGES_REQUESTED", "COMMENTED"}
  BY <1>3 DEF State
<1>5. ASSUME NEW c \in Submissions, Proper(c)
      PROVE  Credential(c) = Actor(c) /\ Credential(c) \in Logins
  BY <1>1, <1>3, <1>5 DEF Proper, Credential, Actor, Deployment
<1>6. QED BY <1>1, <1>2, <1>3, <1>4, <1>5

\* The reviewer resolves to nobody or to whom it is taken to be.
LEMMA AdvisoryResolves ==
  ASSUME TypeOK, deployment.kind # None
  PROVE  AdvisoryLogin \in {None, Resolved} /\ AdvisoryLogin \in Logins \cup {None}
<1>1. deployment \in Deployment /\ usable \in BOOLEAN
  BY DeploymentFacts DEF TypeOK
<1>2. deployment.kind \in {"github_app", "static_token"}
      /\ deployment.configured \in Logins \cup {None} /\ deployment.viewer \in Logins \cup {None}
  BY <1>1 DEF Deployment
<1>3. CASE ~usable
  <2>1. AdvisoryLogin = None
    BY <1>2, <1>3 DEF AdvisoryLogin
  <2>2. QED BY <2>1
<1>4. CASE usable /\ deployment.kind = "github_app"
  <2>1. AdvisoryLogin = deployment.configured
    BY <1>4 DEF AdvisoryLogin
  <2>2. QED BY <1>2, <1>4, <2>1 DEF Resolved
<1>5. CASE usable /\ deployment.kind = "static_token"
  <2>1. AdvisoryLogin = IF deployment.configured \in {None, deployment.viewer}
                        THEN deployment.viewer ELSE None
    BY <1>5 DEF AdvisoryLogin
  <2>2. QED BY <1>2, <1>5, <2>1 DEF Resolved
<1>6. QED BY <1>1, <1>2, <1>3, <1>4, <1>5

\* The chain of requests before a review goes on, ends, or is through.
LEMMA CheckSteps ==
  ASSUME TypeOK, KnowledgeInv, NEW c \in Submissions,
         \/ ReadIdentity(c) \/ ReadOrdinary(c) \/ ResolveAdvisory(c) \/ MintToken(c)
         \/ ProveActor(c) \/ VerifyHead(c) \/ FailCheck(c)
  PROVE  pc[c] \in Before /\ Checks(c)
<1>0. /\ Knows(c, pc[c])
      /\ deployment.allowed \in BOOLEAN /\ deployment.kind \in {"github_app", "static_token", None}
      /\ Action[c] \in {"approve", "request_changes", "comment"}
  BY DeploymentFacts DEF KnowledgeInv, Deployment
<1>r. ASSUME NEW reason \in {"head", "configuration", "failed"}, Refuse(c, reason)
      PROVE  \E r \in Reasons : Refuse(c, r) /\ RefusedRight(c, r)
  <2>1. reason \in Reasons /\ RefusedRight(c, reason)
    BY DEF Reasons, RefusedRight
  <2>2. QED BY <1>r, <2>1
<1>s. ASSUME NEW reason \in Reasons, Refuse(c, reason), RefusedRight(c, reason), pc[c] \in Before
      PROVE  pc[c] \in Before /\ Checks(c)
  BY <1>s DEF Checks
<1>t. ASSUME NEW step \in {"ordinary", "advisory", "mint", "prove"}, Continue(c, step),
             Knows(c, step), pc[c] \in Before
      PROVE  pc[c] \in Before /\ Checks(c)
  BY <1>t DEF Checks
<1>v. ASSUME NEW reason \in {"head", "configuration", "failed"}, Refuse(c, reason),
             pc[c] \in Before
      PROVE  pc[c] \in Before /\ Checks(c)
  BY <1>r, <1>v DEF Checks
<1>1. CASE ReadIdentity(c)
  <2>0. pc[c] = "identity" /\ pc[c] \in Before
    BY <1>1 DEF ReadIdentity, Before
  <2>1. \/ Refuse(c, "policy") /\ ~deployment.allowed
        \/ Refuse(c, "head")
        \/ Refuse(c, "configuration")
        \/ Continue(c, "ordinary") /\ deployment.allowed /\ Action[c] = "comment"
        \/ /\ Continue(c, "advisory") /\ deployment.allowed
           /\ Action[c] # "comment" /\ deployment.kind # None
    BY <1>0, <1>1, Zenon DEF ReadIdentity
  <2>2. CASE Refuse(c, "policy") /\ ~deployment.allowed
    <3>1. "policy" \in Reasons /\ RefusedRight(c, "policy")
      BY <2>2 DEF Reasons, RefusedRight
    <3>2. QED BY <1>s, <2>0, <2>2, <3>1
  <2>3. CASE Refuse(c, "head") \/ Refuse(c, "configuration")
    BY <1>v, <2>0, <2>3
  <2>4. CASE Continue(c, "ordinary") /\ deployment.allowed /\ Action[c] = "comment"
    <3>1. Knows(c, "ordinary")
      BY <2>4 DEF Knows
    <3>2. QED BY <1>t, <2>0, <2>4, <3>1
  <2>5. CASE /\ Continue(c, "advisory") /\ deployment.allowed
             /\ Action[c] # "comment" /\ deployment.kind # None
    <3>1. Knows(c, "advisory")
      BY <2>5 DEF Knows
    <3>2. QED BY <1>t, <2>0, <2>5, <3>1
  <2>6. QED BY <2>1, <2>2, <2>3, <2>4, <2>5
<1>2. CASE ReadOrdinary(c)
  <2>1. pc[c] = "ordinary" /\ Proven(c)
    BY <1>2 DEF ReadOrdinary
  <2>2. Proper(c)
    BY <1>0, <2>1 DEF Knows, Proper, NotByAuthor
  <2>3. QED BY <2>1, <2>2 DEF Before, Checks
<1>3. CASE ResolveAdvisory(c)
  <2>0. pc[c] = "advisory" /\ pc[c] \in Before
    BY <1>3 DEF ResolveAdvisory, Before
  <2>1. deployment.allowed /\ Action[c] # "comment" /\ deployment.kind # None
    BY <1>0, <2>0 DEF Knows
  <2>2. AdvisoryLogin \in {None, Resolved} /\ None # ExpectedLogin[c]
    BY <2>1, AdvisoryResolves, DeploymentFacts, ReviewAssumption
  <2>3. \/ Refuse(c, "configuration")
        \/ Refuse(c, "login") /\ AdvisoryLogin # None /\ AdvisoryLogin # ExpectedLogin[c]
        \/ /\ AdvisoryLogin = ExpectedLogin[c]
           /\ \/ Refuse(c, "author") /\ deployment.author = AdvisoryLogin
              \/ /\ ~(Action[c] = "approve" /\ deployment.author = AdvisoryLogin)
                 /\ Continue(c, "mint") \/ Continue(c, "prove")
    BY <1>3, <2>2, Zenon DEF ResolveAdvisory
  <2>4. CASE Refuse(c, "configuration")
    BY <1>v, <2>0, <2>4
  <2>5. CASE Refuse(c, "login") /\ AdvisoryLogin # None /\ AdvisoryLogin # ExpectedLogin[c]
    <3>1. "login" \in Reasons /\ RefusedRight(c, "login")
      BY <2>2, <2>5 DEF Reasons, RefusedRight
    <3>2. QED BY <1>s, <2>0, <2>5, <3>1
  <2>6. CASE /\ AdvisoryLogin = ExpectedLogin[c]
             /\ Refuse(c, "author") /\ deployment.author = AdvisoryLogin
    <3>1. "author" \in Reasons /\ RefusedRight(c, "author")
      BY <2>2, <2>6 DEF Reasons, RefusedRight
    <3>2. QED BY <1>s, <2>0, <2>6, <3>1
  <2>7. CASE /\ AdvisoryLogin = ExpectedLogin[c]
             /\ ~(Action[c] = "approve" /\ deployment.author = AdvisoryLogin)
             /\ Continue(c, "mint") \/ Continue(c, "prove")
    <3>1. Resolved = ExpectedLogin[c] /\ NotByAuthor(c)
      BY <2>2, <2>7 DEF NotByAuthor
    <3>2. Knows(c, "mint") /\ Knows(c, "prove")
      BY <2>1, <3>1 DEF Knows
    <3>3. QED BY <1>t, <2>0, <2>7, <3>2
  <2>8. QED BY <2>3, <2>4, <2>5, <2>6, <2>7
<1>4. CASE MintToken(c)
  <2>1. /\ pc[c] = "mint" /\ pc[c] \in Before
        /\ Continue(c, "prove") \/ Refuse(c, "configuration")
    BY <1>4 DEF MintToken, Before
  <2>2. Knows(c, "prove")
    BY <1>0, <2>1 DEF Knows
  <2>3. QED BY <1>t, <1>v, <2>1, <2>2
<1>5. CASE ProveActor(c)
  <2>1. /\ pc[c] = "prove" /\ pc[c] \in Before
        /\ \/ deployment.viewer = ExpectedLogin[c] /\ Proven(c)
           \/ deployment.viewer # ExpectedLogin[c] /\ Refuse(c, "login")
    BY <1>5 DEF ProveActor, Before
  <2>2. CASE deployment.viewer = ExpectedLogin[c] /\ Proven(c)
    <3>1. Proper(c)
      BY <1>0, <2>1, <2>2 DEF Knows, Proper
    <3>2. QED BY <2>1, <2>2, <3>1 DEF Checks
  <2>3. CASE deployment.viewer # ExpectedLogin[c] /\ Refuse(c, "login")
    <3>1. "login" \in Reasons /\ RefusedRight(c, "login")
      BY <2>3 DEF Reasons, RefusedRight
    <3>2. QED BY <1>s, <2>1, <2>3, <3>1
  <2>4. QED BY <2>1, <2>2, <2>3
<1>6. CASE VerifyHead(c)
  <2>1. /\ pc[c] = "verify" /\ pc[c] \in Before
        /\ \/ Refuse(c, "head")
           \/ /\ head = ExpectedHead[c] /\ Goto(c, "ready") /\ stale' = stale \ {c}
              /\ UNCHANGED <<localVars, outcome, deployment, remoteVars, since, garbled,
                             issues, pushes>>
    BY <1>6 DEF VerifyHead, Before
  <2>2. QED BY <1>v, <2>1 DEF Checks
<1>7. CASE FailCheck(c)
  <2>1. pc[c] \in Before /\ Refuse(c, "failed")
    BY <1>7 DEF FailCheck
  <2>2. QED BY <1>v, <2>1
<1>8. QED BY <1>1, <1>2, <1>3, <1>4, <1>5, <1>6, <1>7

\* A preflight resolves, looks again and answers what it has found.
LEMMA LookSteps ==
  ASSUME TypeOK, HeadInv, FoundInv, NEW p \in Preflights,
         \/ PreflightIdentity(p) \/ PreflightOrdinary(p) \/ PreflightReviewer(p)
         \/ PreflightVerify(p) \/ PreflightRaises(p)
  PROVE  pc[p] \in Before /\ Looks(p)
<1>0. deployment.allowed \in BOOLEAN
  BY DeploymentFacts DEF Deployment
<1>a. ASSUME NEW reason \in {"head_mismatch", "ordinary_identity_unavailable"}, Answer(p, reason)
      PROVE  Looks(p)
  <2>1. reason \in PreflightReasons /\ AnswersRight(p, reason)
    BY DEF PreflightReasons, AnswersRight
  <2>2. QED BY <1>a, <2>1 DEF Looks
<1>c. ASSUME NEW step \in {"ordinary", "stopped"}, Continue(p, step)
      PROVE  Looks(p)
  BY <1>c DEF Looks
<1>1. CASE PreflightIdentity(p)
  <2>1. pc[p] \in Before /\ (Answer(p, "head_mismatch") \/ Continue(p, "ordinary"))
    BY <1>1 DEF PreflightIdentity, Before
  <2>2. QED BY <1>a, <1>c, <2>1
<1>2. CASE PreflightOrdinary(p)
  <2>1. /\ pc[p] \in Before
        /\ \/ Proven(p)
           \/ Continue(p, "reviewer") /\ deployment.kind # None
           \/ Answer(p, "ordinary_identity_unavailable")
    BY <1>2 DEF PreflightOrdinary, Before
  <2>2. QED BY <1>a, <2>1 DEF Looks
<1>3. CASE PreflightReviewer(p)
  BY <1>3 DEF PreflightReviewer, Before, Looks
<1>4. CASE PreflightVerify(p)
  <2>1. pc[p] = "verify" /\ pc[p] \in Before
    BY <1>4 DEF PreflightVerify, Before
  <2>2. CASE head # ExpectedHead[p]
    BY <1>4, <1>a, <2>1, <2>2 DEF PreflightVerify
  <2>3. CASE head = ExpectedHead[p]
    <3>1. Answer(p, Reason(p))
      BY <1>4, <2>3 DEF PreflightVerify
    <3>2. ExpectedHead[p] \in since[p]
      BY <2>1, <2>3 DEF HeadInv, Calls
    <3>3. \/ ~deployment.allowed /\ Reason(p) = "write_policy_denied"
          \/ deployment.kind = None /\ Reason(p) = "reviewer_not_configured"
          \/ known[p] = None /\ Reason(p) = "reviewer_identity_unavailable"
          \/ known[p] # None /\ known[p] = deployment.author /\ Reason(p) = "reviewer_is_pr_author"
          \/ /\ deployment.allowed /\ known[p] # None /\ known[p] # deployment.author
             /\ Reason(p) = "eligible"
      <4>1. CASE ~deployment.allowed
        <5>1. Reason(p) = "write_policy_denied"
          BY <4>1 DEF Reason
        <5>2. QED BY <4>1, <5>1
      <4>2. CASE deployment.allowed /\ deployment.kind = None
        <5>1. Reason(p) = "reviewer_not_configured"
          BY <4>2 DEF Reason
        <5>2. QED BY <4>2, <5>1
      <4>3. CASE deployment.allowed /\ deployment.kind # None
        <5>1. Reason(p) = CASE known[p] = None -> "reviewer_identity_unavailable"
                            [] known[p] = deployment.author -> "reviewer_is_pr_author"
                            [] OTHER -> "eligible"
          BY <4>3 DEF Reason
        <5>2. (known[p] = None /\ deployment.author # None) \/ known[p] # None
          BY DeploymentFacts, ReviewAssumption DEF Deployment
        <5>3. QED BY <4>3, <5>1, <5>2
      <4>4. QED BY <1>0, <4>1, <4>2, <4>3
    <3>4. Reason(p) \in PreflightReasons /\ AnswersRight(p, Reason(p))
      BY <3>2, <3>3 DEF PreflightReasons, AnswersRight
    <3>5. QED BY <2>1, <3>1, <3>4 DEF Looks
  <2>4. QED BY <2>2, <2>3
<1>5. CASE PreflightRaises(p)
  BY <1>5, <1>c DEF PreflightRaises
<1>6. QED BY <1>1, <1>2, <1>3, <1>4, <1>5

\* What the end of a gh process says of a review, and what it leaves.
LEMMA FinishSays ==
  ASSUME NEW c \in Submissions, FinishReview(c)
  PROVE  /\ pc[c] = "writing" /\ Goto(c, "reading")
         /\ live' \subseteq live /\ garbled' \subseteq garbled \cup {c}
         /\ \E answer0 \in Tri : completed' = [completed EXCEPT ![c] = answer0]
         /\ \/ reviewId' = reviewId
            \/ \E id \in OwnReviews(c) : reviewId' = [reviewId EXCEPT ![c] = id]
         /\ UNCHANGED <<refused, known, answer, outcome, deployment, usable, head, reviews,
                        since, stale, issues, pushes>>
<1>1. PICK end \in ApiWriteEnds :
        /\ live' = IF end.fate = "rejected" THEN live \ {c} ELSE live
        /\ completed' = [completed EXCEPT ![c] = WriteCompleted(end.verdict)]
        /\ garbled' = IF end.confirmed /\ end.verdict.failed THEN garbled \cup {c} ELSE garbled
        /\ \/ UNCHANGED reviewId
           \/ \E id \in OwnReviews(c) : reviewId' = [reviewId EXCEPT ![c] = id]
  BY Zenon DEF FinishReview
<1>2. /\ pc[c] = "writing" /\ Goto(c, "reading")
      /\ UNCHANGED <<refused, known, answer, outcome, deployment, usable, head, reviews,
                     since, stale, issues, pushes>>
  BY Zenon DEF FinishReview
<1>3. WriteCompleted(end.verdict) \in Tri
  BY CompletedType
<1>4. QED BY <1>1, <1>2, <1>3

\* The ends of a readback report something well formed, and a match only of the
\* review whose id the call holds.
LEMMA ReadbackSays ==
  ASSUME NEW c \in Submissions, FailReadback(c) \/ Readback(c)
  PROVE  /\ pc[c] = "reading"
         /\ \E read \in BOOLEAN, matches \in Tri :
              /\ read <=> matches # "unknown"
              /\ matches = "yes" => reviewId[c] # None /\ Matches(c, reviews[reviewId[c]])
              /\ Report(c, read, matches)
<1> USE DEF Tri
<1>1. CASE FailReadback(c)
  BY <1>1 DEF FailReadback
<1>2. CASE Readback(c)
  <2>1. /\ pc[c] = "reading" /\ reviewId[c] # None
        /\ Report(c, TRUE, IF Matches(c, reviews[reviewId[c]]) THEN "yes" ELSE "no")
    BY <1>2 DEF Readback
  <2>2. CASE Matches(c, reviews[reviewId[c]])
    BY <2>1, <2>2
  <2>3. CASE ~Matches(c, reviews[reviewId[c]])
    BY <2>1, <2>3
  <2>4. QED BY <2>2, <2>3
<1>3. QED BY <1>1, <1>2

\* A step is one of these.
LEMMA StepCases ==
  ASSUME TypeOK, KnowledgeInv, HeadInv, FoundInv, [Next]_vars
  PROVE  \/ \E c \in Submissions :
              \/ pc[c] \in Before /\ Checks(c)
              \/ SendReview(c) \/ RefuseReview(c) \/ CreateReview(c) \/ FinishReview(c)
              \/ FailReadback(c) \/ Readback(c)
              \/ Abandon(c) \/ AskAgain(c)
         \/ \E p \in Preflights : pc[p] \in Before /\ Looks(p)
         \/ Push \/ Suspend \/ ReviewElsewhere \/ Dismiss
         \/ UNCHANGED vars
<1>1. ASSUME NEW c \in Submissions,
             \/ ReadIdentity(c) \/ ReadOrdinary(c) \/ ResolveAdvisory(c) \/ MintToken(c)
             \/ ProveActor(c) \/ VerifyHead(c) \/ FailCheck(c)
      PROVE  pc[c] \in Before /\ Checks(c)
  BY <1>1, CheckSteps
<1>2. ASSUME NEW p \in Preflights,
             \/ PreflightIdentity(p) \/ PreflightOrdinary(p) \/ PreflightReviewer(p)
             \/ PreflightVerify(p) \/ PreflightRaises(p)
      PROVE  pc[p] \in Before /\ Looks(p)
  BY <1>2, LookSteps
<1>3. CASE Next
  <2>1. CASE \E c \in Submissions \cap deployment.calls :
               \/ ReadIdentity(c) \/ ReadOrdinary(c) \/ ResolveAdvisory(c) \/ MintToken(c)
               \/ ProveActor(c) \/ VerifyHead(c) \/ FailCheck(c)
               \/ SendReview(c) \/ RefuseReview(c) \/ CreateReview(c) \/ FinishReview(c)
               \/ FailReadback(c) \/ Readback(c) \/ Abandon(c) \/ AskAgain(c)
    BY <1>1, <2>1
  <2>2. CASE \E p \in Preflights \cap deployment.calls :
               \/ PreflightIdentity(p) \/ PreflightOrdinary(p) \/ PreflightReviewer(p)
               \/ PreflightVerify(p) \/ PreflightRaises(p)
    BY <1>2, <2>2
  <2>3. QED BY <1>3, <2>1, <2>2, Zenon DEF Next
<1>4. QED BY <1>3

\* The deployment stays what it is.
LEMMA DeploymentStays ==
  ASSUME TypeOK, KnowledgeInv, HeadInv, FoundInv, [Next]_vars
  PROVE  deployment' = deployment
<1>1. ASSUME NEW c \in Submissions, Checks(c) PROVE deployment' = deployment
  BY <1>1 DEF Checks, Continue, Refuse, Proven
<1>2. ASSUME NEW p \in Preflights, Looks(p) PROVE deployment' = deployment
  BY <1>2 DEF Looks, Continue, Proven, PreflightReviewer, Answer
<1>3. ASSUME NEW c \in Submissions,
             \/ SendReview(c) \/ RefuseReview(c) \/ CreateReview(c) \/ FinishReview(c)
             \/ FailReadback(c) \/ Readback(c) \/ Abandon(c) \/ AskAgain(c)
      PROVE  deployment' = deployment
  BY <1>3, FinishSays, ReadbackSays
     DEF SendReview, RefuseReview, CreateReview, Report, Abandon, AskAgain
<1>4. CASE Push \/ Suspend \/ ReviewElsewhere \/ Dismiss \/ UNCHANGED vars
  BY <1>4 DEF Push, Suspend, ReviewElsewhere, Dismiss, vars
<1>5. QED BY <1>1, <1>2, <1>3, <1>4, StepCases

\* What is done to the reviews: one is added, or one is dismissed.
LEMMA ReviewsStep ==
  ASSUME TypeOK, KnowledgeInv, HeadInv, FoundInv, [Next]_vars
  PROVE  /\ reviews' \in Seq(Review)
         /\ DOMAIN reviews \subseteq DOMAIN reviews'
         /\ \A i \in DOMAIN reviews :
              /\ reviews'[i].call = reviews[i].call /\ reviews'[i].actor = reviews[i].actor
              /\ reviews'[i].commit = reviews[i].commit /\ reviews'[i].event = reviews[i].event
         /\ \A c \in Submissions :
              \/ OwnReviews(c)' = OwnReviews(c)
              \/ /\ CreateReview(c)
                 /\ OwnReviews(c)' = OwnReviews(c) \cup {Len(reviews) + 1}
                 /\ Len(reviews) + 1 \notin OwnReviews(c)
                 /\ reviews'[Len(reviews) + 1] =
                      [call |-> c, actor |-> Credential(c), commit |-> ExpectedHead[c],
                       event |-> State(Action[c]), dismissed |-> FALSE]
<1>0. reviews \in Seq(Review) /\ Len(reviews) \in Nat /\ DOMAIN reviews = 1..Len(reviews)
  BY DEF TypeOK
<1> DEFINE n == Len(reviews) + 1
<1>a. n \notin 1..Len(reviews)
  BY <1>0
<1>1. CASE UNCHANGED reviews
  BY <1>0, <1>1 DEF OwnReviews
<1>2. ASSUME NEW new \in Review, reviews' = Append(reviews, new)
      PROVE  /\ reviews' \in Seq(Review)
             /\ DOMAIN reviews' = 1..n /\ DOMAIN reviews \subseteq DOMAIN reviews'
             /\ \A i \in DOMAIN reviews : reviews'[i] = reviews[i]
             /\ reviews'[n] = new
             /\ \A c \in Submissions :
                  OwnReviews(c)' = IF new.call = c THEN OwnReviews(c) \cup {n} ELSE OwnReviews(c)
  <2>1. /\ reviews' \in Seq(Review) /\ Len(reviews') = n
        /\ \A i \in 1..Len(reviews) : reviews'[i] = reviews[i]
        /\ reviews'[n] = new
    BY <1>0, <1>2, AppendProperties
  <2>2. DOMAIN reviews' = 1..n /\ 1..n = 1..Len(reviews) \cup {n}
    BY <1>0, <2>1
  <2> HIDE DEF n
  <2>3. ASSUME NEW c \in Submissions
        PROVE  OwnReviews(c)' = IF new.call = c THEN OwnReviews(c) \cup {n} ELSE OwnReviews(c)
    BY <1>0, <1>a, <2>1, <2>2 DEF OwnReviews
  <2>4. QED BY <1>0, <2>1, <2>2, <2>3
<1>3. ASSUME NEW c \in Submissions, CreateReview(c)
      PROVE  [call |-> c, actor |-> Credential(c), commit |-> ExpectedHead[c],
              event |-> State(Action[c]), dismissed |-> FALSE] \in Review
  <2>1. c \in live /\ Proper(c)
    BY <1>3 DEF CreateReview, KnowledgeInv
  <2>2. QED BY <2>1, DeploymentFacts DEF Review
<1>4. ASSUME NEW c \in Submissions, CreateReview(c)
      PROVE  \A d \in Submissions :
               \/ OwnReviews(d)' = OwnReviews(d)
               \/ /\ CreateReview(d)
                  /\ OwnReviews(d)' = OwnReviews(d) \cup {n}
                  /\ n \notin OwnReviews(d)
                  /\ reviews'[n] =
                       [call |-> d, actor |-> Credential(d), commit |-> ExpectedHead[d],
                        event |-> State(Action[d]), dismissed |-> FALSE]
  <2> DEFINE new == [call |-> c, actor |-> Credential(c), commit |-> ExpectedHead[c],
                     event |-> State(Action[c]), dismissed |-> FALSE]
  <2>1. new \in Review /\ reviews' = Append(reviews, new) /\ new.call = c
    BY <1>3, <1>4 DEF CreateReview
  <2>2. \A d \in Submissions : n \notin OwnReviews(d)
    BY <1>0, <1>a DEF OwnReviews
  <2> HIDE DEF n, new
  <2>3. /\ reviews'[n] = new
        /\ \A d \in Submissions :
             OwnReviews(d)' = IF c = d THEN OwnReviews(d) \cup {n} ELSE OwnReviews(d)
    BY <1>2, <2>1
  <2>4. QED BY <1>4, <2>2, <2>3 DEF new
<1>5. CASE \E c \in Submissions : CreateReview(c)
  <2>1. PICK c \in Submissions : CreateReview(c)
    BY <1>5
  <2>2. reviews' = Append(reviews, [call |-> c, actor |-> Credential(c), commit |-> ExpectedHead[c],
                                    event |-> State(Action[c]), dismissed |-> FALSE])
    BY <2>1 DEF CreateReview
  <2> HIDE DEF n
  <2>3. QED BY <1>2, <1>3, <1>4, <2>1, <2>2 DEF n
<1>6. CASE ReviewElsewhere
  <2>1. PICK c \in Submissions :
          /\ Credential(c) # None
          /\ reviews' = Append(reviews, [call |-> None, actor |-> Credential(c), commit |-> head,
                                         event |-> State(Action[c]), dismissed |-> FALSE])
    BY <1>6 DEF ReviewElsewhere
  <2> DEFINE new == [call |-> None, actor |-> Credential(c), commit |-> head,
                     event |-> State(Action[c]), dismissed |-> FALSE]
  <2>2. Credential(c) \in Logins
    BY <2>1, DeploymentFacts DEF Credential, Deployment
  <2>3. new \in Review
    BY <2>2, DeploymentFacts DEF Review, TypeOK
  <2>4. new.call = None /\ None \notin Submissions
    BY ReviewAssumption DEF Calls
  <2>5. reviews' = Append(reviews, new)
    BY <2>1
  <2> HIDE DEF new, n
  <2>6. QED BY <1>2, <2>3, <2>4, <2>5
<1>7. CASE Dismiss
  <2>1. PICK i \in DOMAIN reviews : reviews' = [reviews EXCEPT ![i].dismissed = TRUE]
    BY <1>7 DEF Dismiss
  <2>2. reviews[i] \in Review
    BY <1>0, ElementOfSeq
  <2> DEFINE new == [reviews[i] EXCEPT !.dismissed = TRUE]
  <2>3. /\ new \in Review
        /\ new.call = reviews[i].call /\ new.actor = reviews[i].actor
        /\ new.commit = reviews[i].commit /\ new.event = reviews[i].event
    BY <2>2 DEF Review
  <2>4. reviews' = [reviews EXCEPT ![i] = new]
    BY <2>1
  <2> HIDE DEF new
  <2>5. /\ reviews' \in Seq(Review) /\ Len(reviews') = Len(reviews)
        /\ \A j \in 1..Len(reviews) : reviews'[j] = IF j = i THEN new ELSE reviews[j]
    BY <1>0, <2>3, <2>4, ExceptSeq
  <2>6. DOMAIN reviews' = DOMAIN reviews
    BY <1>0, <2>5
  <2>7. \A c \in Submissions : OwnReviews(c)' = OwnReviews(c)
    BY <1>0, <2>3, <2>5, <2>6 DEF OwnReviews
  <2>8. QED BY <1>0, <2>3, <2>5, <2>6, <2>7
<1>8. UNCHANGED reviews \/ (\E c \in Submissions : CreateReview(c)) \/ ReviewElsewhere \/ Dismiss
  <2>1. ASSUME NEW c \in Submissions, Checks(c) PROVE UNCHANGED reviews
    BY <2>1 DEF Checks, Continue, Refuse, Proven, remoteVars
  <2>2. ASSUME NEW p \in Preflights, Looks(p) PROVE UNCHANGED reviews
    BY <2>2 DEF Looks, Continue, Proven, PreflightReviewer, Answer, remoteVars
  <2>3. ASSUME NEW c \in Submissions,
               \/ SendReview(c) \/ RefuseReview(c) \/ FinishReview(c)
               \/ FailReadback(c) \/ Readback(c) \/ Abandon(c) \/ AskAgain(c)
        PROVE  UNCHANGED reviews
    BY <2>3, FinishSays, ReadbackSays
       DEF SendReview, RefuseReview, Report, Abandon, AskAgain, remoteVars
  <2>4. CASE Push \/ Suspend \/ UNCHANGED vars
    BY <2>4 DEF Push, Suspend, vars, remoteVars
  <2>5. QED BY <2>1, <2>2, <2>3, <2>4, StepCases
<1>9. QED BY <1>1, <1>5, <1>6, <1>7, <1>8

\* A call holds the review it held, or takes hold of one of its own.
LEMMA HoldsStep ==
  ASSUME TypeOK, KnowledgeInv, HeadInv, FoundInv, [Next]_vars
  PROVE  \/ reviewId' = reviewId
         \/ \E c \in Submissions : \E id \in OwnReviews(c) : reviewId' = [reviewId EXCEPT ![c] = id]
<1>1. ASSUME NEW c \in Submissions, Checks(c) PROVE reviewId' = reviewId
  BY <1>1 DEF Checks, Continue, Refuse, Proven, localVars
<1>2. ASSUME NEW p \in Preflights, Looks(p) PROVE reviewId' = reviewId
  BY <1>2 DEF Looks, Continue, Proven, PreflightReviewer, Answer, localVars
<1>3. ASSUME NEW c \in Submissions,
             \/ SendReview(c) \/ RefuseReview(c) \/ CreateReview(c)
             \/ FailReadback(c) \/ Readback(c) \/ Abandon(c) \/ AskAgain(c)
      PROVE  reviewId' = reviewId
  BY <1>3, ReadbackSays
     DEF SendReview, RefuseReview, CreateReview, Report, Abandon, AskAgain, localVars
<1>4. CASE Push \/ Suspend \/ ReviewElsewhere \/ Dismiss \/ UNCHANGED vars
  BY <1>4 DEF Push, Suspend, ReviewElsewhere, Dismiss, vars, localVars
<1>5. QED BY <1>1, <1>2, <1>3, <1>4, FinishSays, StepCases

-----------------------------------------------------------------------------
\* Every step keeps the types.
LEMMA TypeStep ==
  TypeOK /\ KnowledgeInv /\ HeadInv /\ OwnInv /\ FoundInv /\ [Next]_vars => TypeOK'
<1> SUFFICES ASSUME TypeOK, KnowledgeInv, HeadInv, OwnInv, FoundInv, [Next]_vars PROVE TypeOK'
  OBVIOUS
<1> DEFINE Steps == Before \cup {"ready", "writing", "reading", "answered", "stopped"}
           OtherTypes ==
             /\ pc' \in [Calls -> Steps]
             /\ completed' \in [Submissions -> Tri]
             /\ outcome' \in [Submissions -> Outcomes \cup {None}]
             /\ refused' \in [Submissions -> Reasons \cup {None}]
             /\ known' \in [Preflights -> Logins \cup {None}]
             /\ answer' \in [Preflights -> PreflightAnswer \cup {None}]
             /\ usable' \in BOOLEAN
             /\ head' \in Heads
             /\ live' \subseteq Submissions
             /\ since' \in [Calls -> SUBSET Heads]
             /\ garbled' \subseteq Submissions /\ stale' \subseteq Submissions
             /\ issues' \in [Submissions -> Nat] /\ pushes' \in Nat
<1>0. deployment' \in Deployments /\ reviews' \in Seq(Review) /\ DOMAIN reviews \subseteq DOMAIN reviews'
  BY DeploymentStays, ReviewsStep DEF TypeOK
<1>p. Submissions \subseteq Calls /\ Preflights \subseteq Calls
  BY DEF Calls
<1>i. reviewId' \in [Submissions -> DOMAIN reviews' \cup {None}]
  <2>1. reviewId \in [Submissions -> DOMAIN reviews \cup {None}]
    BY DEF TypeOK
  <2>2. CASE reviewId' = reviewId
    BY <1>0, <2>1, <2>2
  <2>3. ASSUME NEW c \in Submissions, NEW id \in OwnReviews(c), reviewId' = [reviewId EXCEPT ![c] = id]
        PROVE  reviewId' \in [Submissions -> DOMAIN reviews' \cup {None}]
    BY <1>0, <2>1, <2>3 DEF OwnReviews
  <2>4. \/ reviewId' = reviewId
        \/ \E c \in Submissions : \E id \in OwnReviews(c) : reviewId' = [reviewId EXCEPT ![c] = id]
    BY HoldsStep
  <2>5. QED BY <2>2, <2>3, <2>4
<1> USE DEF localVars, remoteVars, historyVars, Goto
<1> SUFFICES OtherTypes
  BY <1>0, <1>i DEF TypeOK
<1>1. ASSUME NEW c \in Calls, NEW step \in Steps, Continue(c, step) PROVE OtherTypes
  BY <1>1 DEF TypeOK, Continue
<1>2. ASSUME NEW c \in Calls, Proven(c) PROVE OtherTypes
  <2>1. "verify" \in Steps
    BY DEF Before
  <2>2. QED BY <1>2, <2>1 DEF TypeOK, Proven
<1>3. ASSUME NEW c \in Submissions, Checks(c) PROVE OtherTypes
  <2>1. CASE \E reason \in Reasons : Refuse(c, reason)
    BY <1>p, <2>1 DEF TypeOK, Refuse
  <2>2. CASE \E step \in {"ordinary", "advisory", "mint", "prove"} : Continue(c, step)
    <3>1. {"ordinary", "advisory", "mint", "prove"} \subseteq Steps
      BY DEF Before
    <3>2. QED BY <1>1, <1>p, <2>2, <3>1
  <2>3. CASE Proven(c)
    BY <1>2, <1>p, <2>3
  <2>4. CASE /\ Goto(c, "ready") /\ stale' = stale \ {c}
             /\ UNCHANGED <<localVars, outcome, deployment, remoteVars, since, garbled, issues,
                            pushes>>
    BY <1>p, <2>4 DEF TypeOK
  <2>5. QED BY <1>3, <2>1, <2>2, <2>3, <2>4 DEF Checks
<1>4. ASSUME NEW c \in Submissions, SendReview(c) \/ RefuseReview(c) PROVE OtherTypes
  <2>1. "no" \in Tri
    BY DEF Tri
  <2>2. CASE SendReview(c)
    BY <1>p, <2>2 DEF TypeOK, SendReview
  <2>3. CASE RefuseReview(c)
    <3>1. completed' \in [Submissions -> Tri]
      BY <2>1, <2>3 DEF TypeOK, RefuseReview
    <3>2. QED BY <1>p, <2>3, <3>1 DEF TypeOK, RefuseReview
  <2>4. QED BY <1>4, <2>2, <2>3
<1>5. ASSUME NEW c \in Submissions, CreateReview(c) \/ Abandon(c) PROVE OtherTypes
  BY <1>5, <1>p DEF TypeOK, CreateReview, Abandon
<1>6. ASSUME NEW c \in Submissions, FinishReview(c) PROVE OtherTypes
  <2>1. PICK tri \in Tri : completed' = [completed EXCEPT ![c] = tri]
    BY <1>6, FinishSays
  <2>2. completed' \in [Submissions -> Tri]
    BY <2>1 DEF TypeOK
  <2>3. pc' \in [Calls -> Steps]
    BY <1>6, <1>p, FinishSays DEF TypeOK
  <2>4. live' \subseteq Submissions /\ garbled' \subseteq Submissions
    BY <1>6, FinishSays DEF TypeOK
  <2>5. UNCHANGED <<refused, known, answer, outcome, usable, head, since, stale, issues, pushes>>
    BY <1>6, FinishSays
  <2>6. QED BY <2>2, <2>3, <2>4, <2>5 DEF TypeOK
<1>7. ASSUME NEW c \in Submissions, FailReadback(c) \/ Readback(c) PROVE OtherTypes
  <2>1. PICK read \in BOOLEAN, matches \in Tri :
          (read <=> matches # "unknown") /\ Report(c, read, matches)
    BY <1>7, ReadbackSays
  <2> DEFINE result == [write_completed |-> completed[c], readback_completed |-> read,
                        state_matches_requested |-> matches]
  <2>2. result \in Outcomes
    BY <2>1 DEF Outcomes, TypeOK
  <2>3. outcome' = [outcome EXCEPT ![c] = result]
    BY <2>1 DEF Report
  <2> HIDE DEF result
  <2>4. outcome' \in [Submissions -> Outcomes \cup {None}]
    BY <2>2, <2>3 DEF TypeOK
  <2>5. QED BY <1>p, <2>1, <2>4 DEF TypeOK, Report
<1>8. ASSUME NEW c \in Submissions, AskAgain(c) PROVE OtherTypes
  <2>1. "identity" \in Steps
    BY DEF Before
  <2>2. issues' \in [Submissions -> Nat]
    BY <1>8 DEF TypeOK, AskAgain
  <2>3. QED BY <1>8, <1>p, <2>1, <2>2 DEF TypeOK, AskAgain
<1>9. ASSUME NEW p \in Preflights, Looks(p) PROVE OtherTypes
  <2>1. CASE \E step \in {"ordinary", "reviewer", "stopped"} : Continue(p, step)
    <3>1. {"ordinary", "reviewer", "stopped"} \subseteq Steps
      BY DEF Before
    <3>2. QED BY <1>1, <1>p, <2>1, <3>1
  <2>2. CASE Proven(p)
    BY <1>2, <1>p, <2>2
  <2>3. CASE \E reason \in PreflightReasons : Answer(p, reason)
    <3>1. PICK reason \in PreflightReasons : Answer(p, reason)
      BY <2>3
    <3> DEFINE found ==
          [reason |-> reason,
           approval |-> reason = "eligible",
           comment |-> reason \in {"reviewer_not_configured", "reviewer_identity_unavailable",
                                   "reviewer_is_pr_author", "eligible"},
           reviewer |-> known[p]]
    <3>2. found \in PreflightAnswer
      BY DEF PreflightAnswer, PreflightReasons, TypeOK
    <3>3. answer' = [answer EXCEPT ![p] = found]
      BY <3>1 DEF Answer
    <3> HIDE DEF found
    <3>4. answer' \in [Preflights -> PreflightAnswer \cup {None}]
      BY <3>2, <3>3 DEF TypeOK
    <3>5. QED BY <1>p, <3>1, <3>4 DEF TypeOK, Answer
  <2>4. CASE PreflightReviewer(p) /\ deployment.kind # None
    <3>1. PICK login \in {AdvisoryLogin, None} : known' = [known EXCEPT ![p] = login]
      BY <2>4 DEF PreflightReviewer
    <3>2. login \in Logins \cup {None}
      BY <2>4, <3>1, AdvisoryResolves
    <3>3. known' \in [Preflights -> Logins \cup {None}]
      BY <3>1, <3>2 DEF TypeOK
    <3>4. "verify" \in Steps
      BY DEF Before
    <3>5. QED BY <1>p, <2>4, <3>3, <3>4 DEF TypeOK, PreflightReviewer
  <2>5. PreflightReviewer(p) => deployment.kind # None
    BY DEF PreflightReviewer, FoundInv, Found
  <2>6. QED BY <1>9, <2>1, <2>2, <2>3, <2>4, <2>5 DEF Looks
<1>10. CASE Push
  <2>1. pushes' \in Nat /\ head' \in Heads /\ stale' \subseteq Submissions
    BY <1>10 DEF Push, TypeOK
  <2>2. since' \in [Calls -> SUBSET Heads]
    BY <1>10, <2>1 DEF Push, TypeOK
  <2>3. QED BY <1>10, <2>1, <2>2 DEF Push, TypeOK
<1>11. CASE Suspend \/ ReviewElsewhere \/ Dismiss
  BY <1>11 DEF Suspend, ReviewElsewhere, Dismiss, TypeOK
<1>12. CASE UNCHANGED vars
  BY <1>12 DEF vars, TypeOK
<1>13. QED
  BY <1>3, <1>4, <1>5, <1>6, <1>7, <1>8, <1>9, <1>10, <1>11, <1>12, StepCases

-----------------------------------------------------------------------------
\* How a submission moves, and what it then stands for.
Moved(c) ==
  /\ Knows(c, pc'[c])
  /\ RefusedRight(c, refused'[c])
  /\ c \in live' => c \in live \/ Proper(c)
  /\ pc'[c] # pc[c] /\ pc'[c] = "ready" =>
       pc[c] = "verify" /\ head = ExpectedHead[c] /\ since' = since
  /\ pc'[c] # pc[c] /\ pc'[c] = "verify" => since'[c] = {head} /\ head' = head
  /\ pc'[c] # pc[c] /\ pc'[c] = "writing" => pc[c] = "ready"
  /\ pc[c] = "answered" /\ pc'[c] # "answered" => outcome'[c] = None

\* Every step moves a submission that way, or leaves it alone.
LEMMA SubmissionMoves ==
  ASSUME TypeOK, KnowledgeInv, HeadInv, FoundInv, [Next]_vars, NEW c \in Submissions
  PROVE  Moved(c)
<1>0. /\ pc \in [Calls -> Before \cup {"ready", "writing", "reading", "answered", "stopped"}]
      /\ refused \in [Submissions -> Reasons \cup {None}] /\ since \in [Calls -> SUBSET Heads]
      /\ outcome \in [Submissions -> Outcomes \cup {None}]
      /\ Submissions \subseteq Calls /\ Preflights \subseteq Calls
      /\ Submissions \cap Preflights = {}
      /\ Knows(c, pc[c]) /\ RefusedRight(c, refused[c])
  BY ReviewAssumption DEF TypeOK, KnowledgeInv, Calls
\* A step that leaves the call where it is.
<1>1. ASSUME pc'[c] = pc[c], refused' = refused, live' \subseteq live PROVE Moved(c)
  BY <1>0, <1>1 DEF Moved
<1>2. ASSUME NEW d \in Calls, d # c, NEW step, Goto(d, step),
             refused'[c] = refused[c], c \in live' => c \in live
      PROVE  Moved(c)
  BY <1>0, <1>2 DEF Goto, Moved
<1>3. ASSUME NEW d \in Submissions, pc[d] \in Before, Checks(d) PROVE Moved(c)
  <2>1. CASE d # c
    <3>1. /\ \E step : Goto(d, step)
          /\ refused' = refused \/ \E reason : refused' = [refused EXCEPT ![d] = reason]
          /\ live' = live
      BY <1>3 DEF Checks, Refuse, Continue, Proven, localVars, remoteVars
    <3>2. refused'[c] = refused[c]
      BY <1>0, <2>1, <3>1
    <3>3. QED BY <1>0, <1>2, <2>1, <3>1, <3>2
  <2>2. CASE d = c
    <3>0. pc[c] \in Before /\ pc[c] # "answered" /\ pc[c] # "writing"
      BY <1>3, <2>2 DEF Before
    <3>1. ASSUME NEW reason \in Reasons, Refuse(c, reason), RefusedRight(c, reason) PROVE Moved(c)
      <4>1. pc'[c] = "stopped" /\ refused'[c] = reason /\ live' = live
        BY <1>0, <3>1 DEF Refuse, Goto, remoteVars
      <4>2. Knows(c, "stopped")
        BY DEF Knows
      <4>3. QED BY <3>0, <3>1, <4>1, <4>2 DEF Moved
    <3>2. ASSUME NEW step \in {"ordinary", "advisory", "mint", "prove"}, Continue(c, step),
                 Knows(c, step)
          PROVE  Moved(c)
      <4>1. pc'[c] = step /\ refused' = refused /\ live' = live
        BY <1>0, <3>2 DEF Continue, Goto, localVars, remoteVars
      <4>2. QED BY <1>0, <3>0, <3>2, <4>1 DEF Moved
    <3>3. CASE Proven(c) /\ Proper(c)
      <4>1. /\ pc'[c] = "verify" /\ refused' = refused /\ live' = live
            /\ since'[c] = {head} /\ head' = head
        BY <1>0, <3>3 DEF Proven, Goto, localVars, remoteVars
      <4>2. Knows(c, "verify")
        BY <3>3 DEF Knows, Proper
      <4>3. QED BY <1>0, <3>0, <4>1, <4>2 DEF Moved
    <3>4. CASE /\ pc[c] = "verify" /\ head = ExpectedHead[c] /\ Goto(c, "ready")
               /\ UNCHANGED <<localVars, outcome, deployment, remoteVars, since, garbled, issues,
                              pushes>>
      <4>1. pc'[c] = "ready" /\ refused' = refused /\ live' = live
        BY <1>0, <3>4 DEF Goto, localVars, remoteVars
      <4>2. Knows(c, "ready")
        BY <1>0, <3>4 DEF Knows
      <4>3. QED BY <1>0, <3>0, <3>4, <4>1, <4>2 DEF Moved
    <3>5. QED BY <1>3, <2>2, <3>1, <3>2, <3>3, <3>4 DEF Checks
  <2>3. QED BY <2>1, <2>2
<1>4. ASSUME NEW d \in Submissions,
             \/ SendReview(d) \/ RefuseReview(d) \/ FinishReview(d)
             \/ FailReadback(d) \/ Readback(d) \/ Abandon(d) \/ AskAgain(d)
      PROVE  Moved(c)
  <2>1. /\ refused' = refused /\ (c \in live' => c \in live \/ (d = c /\ pc[c] = "ready"))
        /\ \/ pc[d] = "ready" /\ Goto(d, "writing")
           \/ pc[d] \in {"ready", "writing"} /\ Goto(d, "reading")
           \/ pc[d] = "reading" /\ Goto(d, "answered")
           \/ pc[d] \in {"ready", "writing", "reading"} /\ Goto(d, "stopped")
           \/ pc[d] = "answered" /\ Goto(d, "identity") /\ outcome' = [outcome EXCEPT ![d] = None]
    BY <1>4, FinishSays, ReadbackSays
       DEF SendReview, RefuseReview, Report, Abandon, AskAgain, localVars, remoteVars
  <2>2. CASE d # c
    BY <1>0, <1>2, <2>1, <2>2
  <2>3. CASE d = c
    <3>1. \/ pc[c] = "ready" /\ pc'[c] = "writing"
          \/ pc[c] \in {"ready", "writing"} /\ pc'[c] = "reading"
          \/ pc[c] = "reading" /\ pc'[c] = "answered"
          \/ pc[c] \in {"ready", "writing", "reading"} /\ pc'[c] = "stopped"
          \/ pc[c] = "answered" /\ pc'[c] = "identity" /\ outcome'[c] = None
      BY <1>0, <2>1, <2>3 DEF Goto
    <3>2. pc[c] \in {"ready", "writing", "reading"} => Proper(c)
      BY <1>0 DEF Knows
    <3>3. Knows(c, pc'[c])
      BY <3>1, <3>2 DEF Knows, Proper
    <3>4. QED BY <1>0, <2>1, <2>3, <3>1, <3>2, <3>3 DEF Moved
  <2>4. QED BY <2>2, <2>3
<1>5. ASSUME NEW p \in Preflights, Looks(p) PROVE Moved(c)
  <2>1. (\E step : Goto(p, step)) /\ refused' = refused /\ live' = live
    BY <1>5 DEF Looks, Continue, Proven, PreflightReviewer, Answer, localVars, remoteVars
  <2>2. p # c
    BY <1>0
  <2>3. QED BY <1>0, <1>2, <2>1, <2>2
<1>6. CASE \/ \E d \in Submissions : CreateReview(d)
           \/ Push \/ Suspend \/ ReviewElsewhere \/ Dismiss \/ UNCHANGED vars
  <2>1. pc' = pc /\ refused' = refused /\ live' \subseteq live
    BY <1>6 DEF CreateReview, Push, Suspend, ReviewElsewhere, Dismiss, vars, localVars, remoteVars
  <2>2. QED BY <1>1, <2>1
<1>7. QED
  <2>1. CASE \E d \in Submissions :
               \/ pc[d] \in Before /\ Checks(d)
               \/ SendReview(d) \/ RefuseReview(d) \/ CreateReview(d) \/ FinishReview(d)
               \/ FailReadback(d) \/ Readback(d)
               \/ Abandon(d) \/ AskAgain(d)
    BY <1>3, <1>4, <1>6, <2>1
  <2>2. CASE \E p \in Preflights : pc[p] \in Before /\ Looks(p)
    BY <1>5, <2>2
  <2>3. QED BY <1>6, <2>1, <2>2, StepCases

\* What is known of the deployment stays known, and what is refused stays refused.
LEMMA KnowledgeStep ==
  TypeOK /\ KnowledgeInv /\ HeadInv /\ FoundInv /\ [Next]_vars => KnowledgeInv'
<1> SUFFICES ASSUME TypeOK, KnowledgeInv, HeadInv, FoundInv, [Next]_vars, NEW c \in Submissions
             PROVE  /\ Knows(c, pc[c])' /\ RefusedRight(c, refused[c])'
                    /\ c \in live' \/ OwnReviews(c)' # {} => Proper(c)'
  BY DEF KnowledgeInv
<1>1. deployment' = deployment
  BY DeploymentStays
<1>2. Proper(c)' <=> Proper(c)
  BY <1>1 DEF Proper, Resolved, NotByAuthor
<1>3. Knows(c, pc[c])' /\ RefusedRight(c, refused[c])'
  <2>1. Knows(c, pc'[c]) /\ RefusedRight(c, refused'[c])
    BY SubmissionMoves DEF Moved
  <2>2. QED BY <1>1, <1>2, <2>1 DEF Knows, RefusedRight, Resolved, NotByAuthor
<1>4. OwnReviews(c)' # {} => OwnReviews(c) # {} \/ c \in live
  BY ReviewsStep DEF CreateReview
<1>5. QED BY <1>2, <1>3, <1>4, SubmissionMoves DEF KnowledgeInv, Moved

-----------------------------------------------------------------------------
\* What a step but a push does to the heads a call has seen since it knew who acts.
Seen(c) ==
  \/ pc'[c] = pc[c] /\ since'[c] = since[c] /\ head' = head
  \/ pc'[c] # "verify" /\ since' = since
  \/ pc'[c] = "verify" /\ since'[c] = {head} /\ head' = head

\* A push adds its head to them while a call is about to look again.
LEMMA SinceStep ==
  ASSUME TypeOK, KnowledgeInv, HeadInv, FoundInv, [Next]_vars, NEW c \in Calls
  PROVE  \/ Seen(c)
         \/ /\ pc' = pc
            /\ since'[c] = IF pc[c] = "verify" THEN since[c] \cup {head'} ELSE since[c]
<1>0. /\ pc \in [Calls -> Before \cup {"ready", "writing", "reading", "answered", "stopped"}]
      /\ since \in [Calls -> SUBSET Heads] /\ Submissions \subseteq Calls /\ Preflights \subseteq Calls
  BY DEF TypeOK, Calls
<1>1. ASSUME NEW d \in Calls, NEW step, step # "verify", Goto(d, step),
             since' = since, head' = head
      PROVE  Seen(c)
  BY <1>0, <1>1 DEF Goto, Seen
<1>2. ASSUME NEW d \in Calls, Goto(d, "verify"), since' = [since EXCEPT ![d] = {head}], head' = head
      PROVE  Seen(c)
  BY <1>0, <1>2 DEF Goto, Seen
<1>3. ASSUME NEW d \in Submissions, Checks(d) PROVE Seen(c)
  <2>1. CASE \E reason \in Reasons : Refuse(d, reason)
    BY <1>0, <1>1, <2>1 DEF Refuse, remoteVars, historyVars
  <2>2. CASE \E step \in {"ordinary", "advisory", "mint", "prove"} : Continue(d, step)
    BY <1>0, <1>1, <2>2 DEF Continue, remoteVars, historyVars
  <2>3. CASE Proven(d)
    BY <1>0, <1>2, <2>3 DEF Proven, remoteVars
  <2>4. CASE Goto(d, "ready") /\ since' = since /\ head' = head
    BY <1>0, <1>1, <2>4
  <2>5. QED BY <1>3, <2>1, <2>2, <2>3, <2>4 DEF Checks, remoteVars
<1>4. ASSUME NEW d \in Submissions,
             \/ SendReview(d) \/ RefuseReview(d) \/ FinishReview(d)
             \/ FailReadback(d) \/ Readback(d) \/ Abandon(d) \/ AskAgain(d)
      PROVE  Seen(c)
  <2>1. /\ \E step \in {"writing", "reading", "answered", "stopped", "identity"} : Goto(d, step)
        /\ since' = since /\ head' = head
    BY <1>4, FinishSays, ReadbackSays
       DEF SendReview, RefuseReview, Report, Abandon, AskAgain, remoteVars, historyVars
  <2>2. QED BY <1>0, <1>1, <2>1
<1>5. ASSUME NEW p \in Preflights, Looks(p) PROVE Seen(c)
  <2>1. CASE \E step \in {"ordinary", "reviewer", "stopped"} : Continue(p, step)
    BY <1>0, <1>1, <2>1 DEF Continue, remoteVars, historyVars
  <2>2. CASE Proven(p) \/ PreflightReviewer(p)
    BY <1>0, <1>2, <2>2 DEF Proven, PreflightReviewer, remoteVars
  <2>3. CASE \E reason \in PreflightReasons : Answer(p, reason)
    BY <1>0, <1>1, <2>3 DEF Answer, remoteVars, historyVars
  <2>4. QED BY <1>5, <2>1, <2>2, <2>3 DEF Looks
<1>6. CASE \/ \E d \in Submissions : CreateReview(d)
           \/ Suspend \/ ReviewElsewhere \/ Dismiss \/ UNCHANGED vars
  BY <1>6 DEF CreateReview, Suspend, ReviewElsewhere, Dismiss, vars, remoteVars, historyVars, Seen
<1>7. CASE Push
  BY <1>7 DEF Push
<1>8. CASE \E d \in Submissions :
             \/ pc[d] \in Before /\ Checks(d)
             \/ SendReview(d) \/ RefuseReview(d) \/ CreateReview(d) \/ FinishReview(d)
             \/ FailReadback(d) \/ Readback(d)
             \/ Abandon(d) \/ AskAgain(d)
  BY <1>3, <1>4, <1>6, <1>8
<1>9. CASE \E p \in Preflights : pc[p] \in Before /\ Looks(p)
  BY <1>5, <1>9
<1>10. QED BY <1>6, <1>7, <1>8, <1>9, StepCases

\* The head of the last look stays among those heads.
LEMMA HeadStep ==
  TypeOK /\ KnowledgeInv /\ HeadInv /\ FoundInv /\ [Next]_vars => HeadInv'
<1> SUFFICES ASSUME TypeOK, KnowledgeInv, HeadInv, FoundInv, [Next]_vars PROVE HeadInv'
  OBVIOUS
<1>1. ASSUME NEW c \in Calls, pc'[c] = "verify" PROVE head' \in since'[c]
  <2>1. pc[c] = "verify" => head \in since[c]
    BY DEF HeadInv
  <2>2. QED BY <1>1, <2>1, SinceStep DEF Seen
<1>2. ASSUME NEW c \in Submissions, pc'[c] = "ready" PROVE ExpectedHead[c] \in since'[c]
  <2>0. c \in Calls
    BY DEF Calls
  <2>1. CASE pc'[c] = pc[c]
    <3>1. since'[c] = since[c]
      BY <1>2, <2>0, <2>1, SinceStep DEF Seen
    <3>2. QED BY <1>2, <2>1, <3>1 DEF HeadInv
  <2>2. CASE pc'[c] # pc[c]
    <3>1. pc[c] = "verify" /\ head = ExpectedHead[c] /\ since' = since
      BY <1>2, <2>2, SubmissionMoves DEF Moved
    <3>2. QED BY <2>0, <3>1 DEF HeadInv
  <2>3. QED BY <2>1, <2>2
<1>3. QED BY <1>1, <1>2 DEF HeadInv

\* The reviews of a call stay what it asked for.
LEMMA OwnStep ==
  TypeOK /\ KnowledgeInv /\ HeadInv /\ OwnInv /\ FoundInv /\ [Next]_vars => OwnInv'
<1> SUFFICES ASSUME TypeOK, KnowledgeInv, HeadInv, OwnInv, FoundInv, [Next]_vars,
                    NEW c \in Submissions
             PROVE  /\ \A i \in OwnReviews(c)' :
                         /\ reviews'[i].actor = Credential(c)' /\ reviews'[i].commit = ExpectedHead[c]
                         /\ reviews'[i].event = State(Action[c])
                    /\ reviewId'[c] # None => reviewId'[c] \in OwnReviews(c)'
  BY DEF OwnInv
<1>1. Credential(c)' = Credential(c)
  BY DeploymentStays DEF Credential
<1>2. \A i \in OwnReviews(c) :
        /\ i \in DOMAIN reviews
        /\ reviews'[i].actor = Credential(c) /\ reviews'[i].commit = ExpectedHead[c]
        /\ reviews'[i].event = State(Action[c])
  <2>1. ASSUME NEW i \in OwnReviews(c)
        PROVE  /\ i \in DOMAIN reviews
               /\ reviews[i].actor = Credential(c) /\ reviews[i].commit = ExpectedHead[c]
               /\ reviews[i].event = State(Action[c])
    BY DEF OwnReviews, OwnInv
  <2>2. QED BY <2>1, ReviewsStep
<1>3. \A i \in OwnReviews(c)' :
        /\ reviews'[i].actor = Credential(c) /\ reviews'[i].commit = ExpectedHead[c]
        /\ reviews'[i].event = State(Action[c])
  <2>1. CASE OwnReviews(c)' = OwnReviews(c)
    BY <1>2, <2>1
  <2>2. CASE /\ OwnReviews(c)' = OwnReviews(c) \cup {Len(reviews) + 1}
             /\ reviews'[Len(reviews) + 1] =
                  [call |-> c, actor |-> Credential(c), commit |-> ExpectedHead[c],
                   event |-> State(Action[c]), dismissed |-> FALSE]
    BY <1>2, <2>2
  <2>3. QED BY <2>1, <2>2, ReviewsStep
<1>4. OwnReviews(c) \subseteq OwnReviews(c)'
  BY ReviewsStep
<1>5. reviewId \in [Submissions -> DOMAIN reviews \cup {None}]
  BY DEF TypeOK
<1>6. reviewId'[c] = reviewId[c] \/ reviewId'[c] \in OwnReviews(c)
  BY <1>5, HoldsStep
<1>7. reviewId[c] # None => reviewId[c] \in OwnReviews(c)
  BY DEF OwnInv
<1>8. QED BY <1>1, <1>3, <1>4, <1>6, <1>7

\* What is reported verified is a review of the call's own, and stays one.
LEMMA VerifiedStep ==
  ASSUME TypeOK, KnowledgeInv, HeadInv, OwnInv, FoundInv, VerifiedReviewIsOwn, [Next]_vars
  PROVE  VerifiedReviewIsOwn'
<1> DEFINE Verified(c) == outcome[c] # None /\ outcome[c].state_matches_requested = "yes"
           IsOwn(c, i) == /\ reviews[i].actor = Actor(c) /\ reviews[i].commit = ExpectedHead[c]
                          /\ reviews[i].event = State(Action[c])
<1>0. outcome \in [Submissions -> Outcomes \cup {None}] /\ deployment' = deployment
  BY DeploymentStays DEF TypeOK
<1>1. ASSUME NEW c \in Submissions, \E i \in OwnReviews(c) : IsOwn(c, i)
      PROVE  \E i \in OwnReviews(c)' : IsOwn(c, i)'
  <2>1. PICK i \in OwnReviews(c) : IsOwn(c, i)
    BY <1>1
  <2>2. i \in DOMAIN reviews /\ i \in OwnReviews(c)'
    BY ReviewsStep DEF OwnReviews
  <2>3. IsOwn(c, i)'
    BY <1>0, <2>1, <2>2, ReviewsStep DEF Actor
  <2>4. QED BY <2>2, <2>3
<1>2. ASSUME NEW c \in Submissions, Readback(c) \/ FailReadback(c), Verified(c)'
      PROVE  \E i \in OwnReviews(c) : IsOwn(c, i)
  <2>1. PICK read \in BOOLEAN, matches \in Tri :
          /\ matches = "yes" => reviewId[c] # None /\ Matches(c, reviews[reviewId[c]])
          /\ Report(c, read, matches)
    BY <1>2, ReadbackSays
  <2>2. outcome'[c].state_matches_requested = matches
    BY <1>0, <2>1 DEF Report
  <2>3. reviewId[c] \in OwnReviews(c) /\ Matches(c, reviews[reviewId[c]])
    BY <1>2, <2>1, <2>2 DEF OwnInv
  <2>4. QED BY <2>3 DEF Matches
<1>3. ASSUME NEW c \in Submissions, Verified(c)'
      PROVE  Verified(c) \/ Readback(c) \/ FailReadback(c)
  <2>1. ASSUME NEW d \in Submissions,
               \/ Checks(d) \/ SendReview(d) \/ RefuseReview(d) \/ CreateReview(d)
               \/ FinishReview(d) \/ Abandon(d)
        PROVE  outcome' = outcome
    BY <2>1, FinishSays
       DEF Checks, Refuse, Continue, Proven, SendReview, RefuseReview, CreateReview, Abandon
  <2>2. ASSUME NEW d \in Submissions, AskAgain(d) PROVE Verified(c)
    <3>1. outcome' = [outcome EXCEPT ![d] = None]
      BY <2>2 DEF AskAgain
    <3>2. QED BY <1>0, <1>3, <3>1
  <2>3. ASSUME NEW d \in Submissions, Readback(d) \/ FailReadback(d), d # c PROVE Verified(c)
    <3>1. \E result : outcome' = [outcome EXCEPT ![d] = result]
      BY <2>3, ReadbackSays DEF Report
    <3>2. QED BY <1>0, <1>3, <2>3, <3>1
  <2>4. ASSUME NEW p \in Preflights, Looks(p) PROVE outcome' = outcome
    BY <2>4 DEF Looks, Continue, Proven, PreflightReviewer, Answer
  <2>5. CASE Push \/ Suspend \/ ReviewElsewhere \/ Dismiss \/ UNCHANGED vars
    BY <1>3, <2>5 DEF Push, Suspend, ReviewElsewhere, Dismiss, vars
  <2>6. CASE outcome' = outcome
    BY <1>3, <2>6
  <2> HIDE DEF Verified
  <2>7. CASE \E d \in Submissions :
               \/ pc[d] \in Before /\ Checks(d)
               \/ SendReview(d) \/ RefuseReview(d) \/ CreateReview(d) \/ FinishReview(d)
               \/ FailReadback(d) \/ Readback(d)
               \/ Abandon(d) \/ AskAgain(d)
    BY <2>1, <2>2, <2>3, <2>6, <2>7
  <2>8. CASE \E p \in Preflights : pc[p] \in Before /\ Looks(p)
    BY <2>4, <2>6, <2>8
  <2>9. QED BY <2>5, <2>7, <2>8, StepCases
<1>4. ASSUME NEW c \in Submissions, Verified(c)' PROVE \E i \in OwnReviews(c)' : IsOwn(c, i)'
  <2>1. Verified(c) => \E i \in OwnReviews(c) : IsOwn(c, i)
    BY DEF VerifiedReviewIsOwn
  <2> HIDE DEF Verified, IsOwn
  <2>2. QED BY <1>1, <1>2, <1>3, <1>4, <2>1
<1>5. QED BY <1>4 DEF VerifiedReviewIsOwn

\* What a preflight finds and answers is so, and stays so.
LEMMA FoundStep ==
  ASSUME TypeOK, KnowledgeInv, HeadInv, FoundInv, [Next]_vars, NEW p \in Preflights
  PROVE  Found(p)'
<1>0. /\ deployment' = deployment /\ Resolved' = Resolved
      /\ pc \in [Calls -> Before \cup {"ready", "writing", "reading", "answered", "stopped"}]
      /\ known \in [Preflights -> Logins \cup {None}] /\ since \in [Calls -> SUBSET Heads]
      /\ answer \in [Preflights -> PreflightAnswer \cup {None}]
      /\ Submissions \subseteq Calls /\ Preflights \subseteq Calls
      /\ Submissions \cap Preflights = {} /\ Found(p)
  BY DeploymentStays, ReviewAssumption DEF TypeOK, Calls, FoundInv, Resolved
\* Another's step.
<1>1. ASSUME pc'[p] = pc[p], known'[p] = known[p], answer'[p] = answer[p],
             pc[p] = "answered" => since[p] \subseteq since'[p]
      PROVE  Found(p)'
  BY <1>0, <1>1 DEF Found
<1>2. ASSUME NEW d \in Calls, d # p, NEW step, Goto(d, step),
             known' = known \/ \E login : known' = [known EXCEPT ![d] = login],
             answer' = answer \/ \E found : answer' = [answer EXCEPT ![d] = found],
             since' = since \/ since' = [since EXCEPT ![d] = {head}]
      PROVE  Found(p)'
  <2>1. pc'[p] = pc[p] /\ known'[p] = known[p] /\ answer'[p] = answer[p] /\ since'[p] = since[p]
    BY <1>0, <1>2 DEF Goto
  <2>2. QED BY <1>1, <2>1
<1>3. ASSUME NEW d \in Submissions,
             \/ Checks(d) \/ SendReview(d) \/ RefuseReview(d) \/ FinishReview(d)
             \/ FailReadback(d) \/ Readback(d) \/ Abandon(d) \/ AskAgain(d)
      PROVE  Found(p)'
  <2>1. /\ \E step : Goto(d, step)
        /\ known' = known /\ answer' = answer
        /\ since' = since \/ since' = [since EXCEPT ![d] = {head}]
    <3>1. CASE Checks(d)
      BY <3>1 DEF Checks, Refuse, Continue, Proven, localVars, historyVars
    <3>2. CASE FinishReview(d) \/ FailReadback(d) \/ Readback(d)
      BY <3>2, FinishSays, ReadbackSays DEF Report, localVars, historyVars
    <3>3. CASE SendReview(d) \/ RefuseReview(d) \/ Abandon(d) \/ AskAgain(d)
      BY <3>3 DEF SendReview, RefuseReview, Abandon, AskAgain, localVars, historyVars
    <3>4. QED BY <1>3, <3>1, <3>2, <3>3
  <2>2. d \in Calls /\ d # p
    BY <1>0
  <2>3. QED BY <1>2, <2>1, <2>2
<1>4. ASSUME NEW q \in Preflights, q # p, Looks(q) PROVE Found(p)'
  <2>1. /\ \E step : Goto(q, step)
        /\ known' = known \/ \E login : known' = [known EXCEPT ![q] = login]
        /\ answer' = answer \/ \E found : answer' = [answer EXCEPT ![q] = found]
        /\ since' = since \/ since' = [since EXCEPT ![q] = {head}]
    BY <1>4 DEF Looks, Continue, Proven, PreflightReviewer, Answer, localVars, historyVars
  <2>2. QED BY <1>0, <1>2, <1>4, <2>1
\* Its own.
<1>5. ASSUME pc[p] \in Before, Looks(p) PROVE Found(p)'
  <2>0. answer[p] = None /\ (known[p] # None => deployment.kind # None /\ known[p] = Resolved)
    BY <1>0, <1>5 DEF Found, Before
  <2>1. ASSUME NEW step \in {"ordinary", "reviewer", "stopped"}, Continue(p, step),
               step = "reviewer" => deployment.kind # None
        PROVE  Found(p)'
    <3>1. pc'[p] = step /\ known' = known /\ answer' = answer
      BY <1>0, <2>1 DEF Continue, Goto, localVars
    <3>2. QED BY <1>0, <2>0, <2>1, <3>1 DEF Found
  <2>2. CASE Proven(p)
    <3>1. pc'[p] = "verify" /\ known' = known /\ answer' = answer
      BY <1>0, <2>2 DEF Proven, Goto, localVars
    <3>2. QED BY <1>0, <2>0, <3>1 DEF Found
  <2>3. CASE PreflightReviewer(p)
    <3>1. pc'[p] = "verify" /\ answer' = answer /\ known'[p] \in {AdvisoryLogin, None}
      BY <1>0, <2>3 DEF PreflightReviewer, Goto
    <3>2. deployment.kind # None
      BY <1>0, <2>3 DEF PreflightReviewer, Found
    <3>3. AdvisoryLogin \in {None, Resolved}
      BY <3>2, AdvisoryResolves
    <3>4. QED BY <1>0, <2>0, <3>1, <3>2, <3>3 DEF Found
  <2>4. ASSUME NEW reason \in PreflightReasons, Answer(p, reason), AnswersRight(p, reason)
        PROVE  Found(p)'
    <3> DEFINE found ==
          [reason |-> reason,
           approval |-> reason = "eligible",
           comment |-> reason \in {"reviewer_not_configured", "reviewer_identity_unavailable",
                                   "reviewer_is_pr_author", "eligible"},
           reviewer |-> known[p]]
    <3>1. /\ pc'[p] = "answered" /\ known' = known /\ since' = since
          /\ answer'[p] = found
      BY <1>0, <2>4 DEF Answer, Goto, historyVars
    <3>2. /\ found.approval \/ found.comment => ExpectedHead[p] \in since[p]
          /\ found.approval =>
               deployment.allowed /\ found.reviewer = Resolved
                 /\ Resolved # None /\ Resolved # deployment.author
          /\ found.reason = "write_policy_denied" => ~deployment.allowed
          /\ found.reason = "reviewer_not_configured" => deployment.kind = None
          /\ found.reason = "reviewer_is_pr_author" =>
               deployment.kind # None /\ Resolved = deployment.author
      BY <2>0, <2>4 DEF AnswersRight
    <3> HIDE DEF found
    <3>3. QED BY <1>0, <2>0, <3>1, <3>2 DEF Found
  <2>5. QED BY <1>5, <2>1, <2>2, <2>3, <2>4 DEF Looks
<1>6. CASE \/ \E d \in Submissions : CreateReview(d)
           \/ Push \/ Suspend \/ ReviewElsewhere \/ Dismiss \/ UNCHANGED vars
  <2>1. pc' = pc /\ known' = known /\ answer' = answer
    BY <1>6 DEF CreateReview, Push, Suspend, ReviewElsewhere, Dismiss, vars, localVars
  <2>2. since' = since \/ since' = [c \in Calls |-> IF pc[c] = "verify" THEN since[c] \cup {head'} ELSE since[c]]
    BY <1>6 DEF CreateReview, Push, Suspend, ReviewElsewhere, Dismiss, vars, historyVars
  <2>3. since[p] \subseteq since'[p]
    BY <1>0, <2>2
  <2>4. QED BY <1>1, <2>1, <2>3
<1>7. CASE \E d \in Submissions :
             \/ pc[d] \in Before /\ Checks(d)
             \/ SendReview(d) \/ RefuseReview(d) \/ CreateReview(d) \/ FinishReview(d)
             \/ FailReadback(d) \/ Readback(d)
             \/ Abandon(d) \/ AskAgain(d)
  BY <1>3, <1>6, <1>7
<1>8. CASE \E q \in Preflights : pc[q] \in Before /\ Looks(q)
  BY <1>4, <1>5, <1>8
<1>9. QED BY <1>6, <1>7, <1>8, StepCases

-----------------------------------------------------------------------------
LEMMA InitInv == Init => IInv
<1> SUFFICES ASSUME Init PROVE IInv
  OBVIOUS
<1>1. TypeOK
  <2>1. "unknown" \in Tri /\ "identity" \in Before
    BY DEF Tri, Before
  <2>2. <<>> \in Seq(Review)
    OBVIOUS
  <2>3. FirstHead \in Heads
    BY ReviewAssumption
  <2>4. QED BY <2>1, <2>2, <2>3 DEF Init, TypeOK
<1>2. \A c \in Submissions : OwnReviews(c) = {} /\ c \notin live /\ refused[c] = None
  BY DEF Init, OwnReviews
<1>3. KnowledgeInv
  <2>1. ASSUME NEW c \in Submissions PROVE Knows(c, pc[c]) /\ RefusedRight(c, refused[c])
    <3>1. pc[c] = "identity"
      BY DEF Init, Calls
    <3>2. None \notin {"policy", "author", "login"}
      BY ReviewAssumption DEF Reasons
    <3>3. QED BY <1>2, <3>1, <3>2 DEF Knows, RefusedRight
  <2>2. QED BY <1>2, <2>1 DEF KnowledgeInv
<1>4. HeadInv
  BY DEF Init, HeadInv, Calls
<1>5. OwnInv /\ VerifiedReviewIsOwn
  BY <1>2 DEF Init, OwnInv, VerifiedReviewIsOwn
<1>6. FoundInv
  BY DEF Init, FoundInv, Found, Calls
<1>7. QED BY <1>1, <1>3, <1>4, <1>5, <1>6 DEF IInv

LEMMA StepInv == IInv /\ [Next]_vars => IInv'
<1> SUFFICES ASSUME IInv, [Next]_vars PROVE IInv'
  OBVIOUS
<1>1. TypeOK /\ KnowledgeInv /\ HeadInv /\ OwnInv /\ FoundInv /\ VerifiedReviewIsOwn
  BY DEF IInv
<1>2. FoundInv'
  BY <1>1, FoundStep DEF FoundInv
<1>3. QED BY <1>1, <1>2, TypeStep, KnowledgeStep, HeadStep, OwnStep, VerifiedStep DEF IInv

\* The inductive invariant: what a call knows of the deployment when it stands
\* before its next request, and of the head since it knew who acts.
THEOREM Invariance == Spec => []IInv
<1>1. Init => IInv
  BY InitInv
<1>2. IInv /\ [Next]_vars => IInv'
  BY StepInv
<1>3. QED BY <1>1, <1>2, PTL DEF Spec

\* Every variable has its type: the id a call holds is that of an existing review,
\* and no outcome claims a readback that was not made.
THEOREM TypeCorrect == Spec => []TypeOK
<1>1. IInv => TypeOK
  BY DEF IInv
<1>2. QED BY <1>1, Invariance, PTL

\* _verified_review: what is reported as verified is a review this call created,
\* of its own actor, commit and event, whoever else reviews beside it.
THEOREM VerifiesOwn == Spec => []VerifiedReviewIsOwn
<1>1. IInv => VerifiedReviewIsOwn
  BY DEF IInv
<1>2. QED BY <1>1, Invariance, PTL

\* The preflight and the tools, which decide apart from one another, agree, and a
\* preflight holds out nothing for a head that has moved.
THEOREM PreflightHonest == Spec => []PreflightIsHonest
<1>1. ASSUME IInv, NEW p \in Preflights, answer[p] # None
      PROVE  answer[p].approval \/ answer[p].comment => ExpectedHead[p] \in since[p]
  BY <1>1 DEF IInv, FoundInv, Found
<1>2. ASSUME IInv, NEW p \in Preflights, NEW c \in Submissions, answer[p] # None,
             Action[c] = "approve"
      PROVE  /\ (answer[p].approval /\ answer[p].reviewer = ExpectedLogin[c]) =>
                   /\ refused[c] \notin {"policy", "author"}
                   /\ refused[c] = "login" => deployment.viewer # deployment.configured
             /\ answer[p].reason \in {"write_policy_denied", "reviewer_not_configured",
                                      "reviewer_is_pr_author"} => ~Sent(c)
  <2>1. /\ answer[p].approval =>
             deployment.allowed /\ answer[p].reviewer = Resolved
               /\ Resolved # None /\ Resolved # deployment.author
        /\ answer[p].reason = "write_policy_denied" => ~deployment.allowed
        /\ answer[p].reason = "reviewer_not_configured" => deployment.kind = None
        /\ answer[p].reason = "reviewer_is_pr_author" =>
             deployment.kind # None /\ Resolved = deployment.author
    BY <1>2 DEF IInv, FoundInv, Found
  <2>2. /\ RefusedRight(c, refused[c]) /\ Knows(c, pc[c])
        /\ OwnReviews(c) # {} => Proper(c)
    BY <1>2 DEF IInv, KnowledgeInv
  <2>3. (answer[p].approval /\ answer[p].reviewer = ExpectedLogin[c]) =>
           /\ refused[c] \notin {"policy", "author"}
           /\ refused[c] = "login" => deployment.viewer # deployment.configured
    BY <2>1, <2>2 DEF RefusedRight, Resolved
  <2>4. Sent(c) => Proper(c)
    BY <2>2 DEF Sent, Knows
  <2>5. Proper(c) => answer[p].reason \notin {"write_policy_denied", "reviewer_not_configured",
                                              "reviewer_is_pr_author"}
    BY <1>2, <2>1 DEF Proper, NotByAuthor
  <2>6. QED BY <2>3, <2>4, <2>5
<1>3. IInv => PreflightIsHonest
  BY <1>1, <1>2, Zenon DEF PreflightIsHonest, PreflightHeld, PreflightAgrees
<1>4. QED BY <1>3, Invariance, PTL

\* A review leaves the server only where policy lets it, by a credential that was
\* proven to be the expected reviewer's and is not the author's for an approval,
\* and for a commit that was the head after that proof.
THEOREM SentByActor == Spec => SentByProvenActor
<1>1. ASSUME IInv, [Next]_vars, NEW c \in Submissions, pc[c] # "writing", pc'[c] = "writing"
      PROVE  /\ deployment.allowed
             /\ Action[c] # "comment" => Credential(c) = ExpectedLogin[c]
             /\ Action[c] = "approve" => Credential(c) # deployment.author
             /\ ExpectedHead[c] \in since[c]
  <2>1. pc[c] = "ready"
    BY <1>1, SubmissionMoves DEF IInv, Moved
  <2>2. Proper(c)
    BY <1>1, <2>1 DEF IInv, KnowledgeInv, Knows
  <2>3. ExpectedHead[c] \in since[c]
    BY <1>1, <2>1 DEF IInv, HeadInv
  <2>4. QED BY <2>2, <2>3 DEF Proper, NotByAuthor, Credential
<1>2. IInv /\ [Next]_vars =>
        [\A c \in Submissions :
           (pc[c] # "writing" /\ pc'[c] = "writing") =>
             /\ deployment.allowed
             /\ Action[c] # "comment" => Credential(c) = ExpectedLogin[c]
             /\ Action[c] = "approve" => Credential(c) # deployment.author
             /\ ExpectedHead[c] \in since[c]]_vars
  BY <1>1
<1>3. QED BY <1>2, Invariance, PTL DEF Spec, SentByProvenActor

-----------------------------------------------------------------------------
(* The refinement of the write contract. *)

\* Where a call stands, as the contract sees it: its requests are one check.
Phase(c) == IF pc[c] \in Before THEN "checking" ELSE pc[c]

\* A step that changes nothing of a call that its contract can tell.
SameFor(c) ==
  /\ Phase(c)' = Phase(c)
  /\ completed'[c] = completed[c] /\ reviewId'[c] = reviewId[c] /\ outcome'[c] = outcome[c]
  /\ c \in live' <=> c \in live
  /\ c \in garbled' <=> c \in garbled
  /\ c \in stale' <=> c \in stale
  /\ issues'[c] = issues[c]
  /\ head' = head /\ OwnReviews(c)' = OwnReviews(c) /\ pushes' = pushes

LEMMA Stutters ==
  ASSUME NEW c \in Submissions, SameFor(c)
  PROVE  UNCHANGED Contract(c)!vars
<1>1. Phase(c)' = "writing" <=> Phase(c) = "writing"
  BY DEF SameFor
<1>2. (pc'[c] = "writing") <=> (pc[c] = "writing")
  BY <1>1 DEF Phase, Before
<1>3. UNCHANGED Contract(c)!requestVars
  BY <1>2 DEF SameFor, Contract!requestVars
<1>4. UNCHANGED Contract(c)!remoteVars
  BY DEF SameFor, Contract!remoteVars
<1>5. [d \in {c} |-> IF pc[d] \in Before THEN "checking" ELSE pc[d]]' =
      [d \in {c} |-> IF pc[d] \in Before THEN "checking" ELSE pc[d]]
  BY DEF SameFor, Phase
<1>6. QED BY <1>3, <1>4, <1>5 DEF SameFor, Contract!vars

\* The write ends of the contract are those of the review.
LEMMA SameEnds ==
  ASSUME NEW c
  PROVE  /\ Contract(c)!WriteEnds(c) = ApiWriteEnds
         /\ \A verdict : Contract(c)!WriteCompleted(verdict) = WriteCompleted(verdict)
<1>1. \A verdict : Contract(c)!WriteCompleted(verdict) = WriteCompleted(verdict)
  BY DEF WriteCompleted, Contract!WriteCompleted
<1>2. Contract(c)!WriteReplies = WriteReplies
  BY DEF WriteReplies, Contract!WriteReplies, Reply, Contract!Reply, Statuses, Contract!Statuses,
         Transient, Contract!Transient
<1>3. ASSUME NEW r PROVE /\ Contract(c)!RateLimited(r) = RateLimited(r)
                         /\ Contract(c)!Retryable(r) = Retryable(r)
  BY DEF RateLimited, Contract!RateLimited, Retryable, Contract!Retryable, Transient,
         Contract!Transient
<1>4. ASSUME NEW q, NEW r PROVE Contract(c)!Ambiguous(q, r) = Ambiguous(q, r)
  BY <1>3 DEF Ambiguous, Contract!Ambiguous
<1>5. ASSUME NEW q, NEW r PROVE Contract(c)!Verdict(q, r) = Verdict(q, r)
  BY <1>3, <1>4 DEF Verdict, Contract!Verdict, Failure, Contract!Failure, Success, Contract!Success
<1>6. ASSUME NEW r PROVE Contract(c)!Fates(r) = Fates(r)
  BY <1>3 DEF Fates, Contract!Fates
<1>7. ASSUME NEW json, NEW r, NEW fate
      PROVE  Contract(c)!WriteEnd(json, r, fate) = WriteEnd(json, r, fate)
  BY <1>5 DEF WriteEnd, Contract!WriteEnd
<1>8. Contract(c)!ApiWriteEnds = ApiWriteEnds
  <2>1. ASSUME NEW r
        PROVE  {Contract(c)!WriteEnd(TRUE, r, f) : f \in Contract(c)!Fates(r)} =
               {WriteEnd(TRUE, r, f) : f \in Fates(r)}
    BY <1>6, <1>7
  <2> DEFINE Theirs == {{Contract(c)!WriteEnd(TRUE, r, f) : f \in Contract(c)!Fates(r)} :
                          r \in Contract(c)!WriteReplies}
             Ours == {{WriteEnd(TRUE, r, f) : f \in Fates(r)} : r \in WriteReplies}
  <2>2. ASSUME NEW ends \in Theirs PROVE ends \in Ours
    <3>1. PICK r \in Contract(c)!WriteReplies :
            ends = {Contract(c)!WriteEnd(TRUE, r, f) : f \in Contract(c)!Fates(r)}
      BY <2>2
    <3>2. r \in WriteReplies /\ ends = {WriteEnd(TRUE, r, f) : f \in Fates(r)}
      BY <1>2, <2>1, <3>1
    <3>3. QED BY <3>2
  <2>3. ASSUME NEW ends \in Ours PROVE ends \in Theirs
    <3>1. PICK r \in WriteReplies : ends = {WriteEnd(TRUE, r, f) : f \in Fates(r)}
      BY <2>3
    <3>2. /\ r \in Contract(c)!WriteReplies
          /\ ends = {Contract(c)!WriteEnd(TRUE, r, f) : f \in Contract(c)!Fates(r)}
      BY <1>2, <2>1, <3>1
    <3>3. QED BY <3>2
  <2> HIDE DEF Theirs, Ours
  <2>4. Theirs = Ours
    BY <2>2, <2>3, SetExtensionality
  <2> USE DEF Theirs, Ours
  <2>5. Contract(c)!ApiWriteEnds = UNION Theirs /\ ApiWriteEnds = UNION Ours
    BY DEF ApiWriteEnds, Contract!ApiWriteEnds
  <2> HIDE DEF Theirs, Ours
  <2>6. QED BY <2>4, <2>5
<1>9. Contract(c)!WriteEnds(c) = ApiWriteEnds
  BY <1>8 DEF Contract!WriteEnds
<1>10. QED BY <1>1, <1>9

\* A request of the chain is lost in the check, or ends it.
LEMMA CheckRefines ==
  ASSUME TypeOK, NEW c \in Submissions, pc[c] \in Before, Checks(c), OwnReviews(c)' = OwnReviews(c)
  PROVE  SameFor(c) \/ Contract(c)!Next
<1>0. /\ pc \in [Calls -> Before \cup {"ready", "writing", "reading", "answered", "stopped"}]
      /\ c \in Calls /\ pc[c] # "writing"
  BY DEF TypeOK, Calls, Before
<1> USE DEF localVars, remoteVars, historyVars
<1>1. CASE \E reason \in Reasons : Refuse(c, reason)
  <2>1. pc' = [pc EXCEPT ![c] = "stopped"]
    BY <1>1 DEF Refuse, Goto
  <2>2. /\ UNCHANGED <<completed, reviewId, outcome, live, head, garbled, stale, issues, pushes>>
    BY <1>1 DEF Refuse
  <2>3. Contract(c)!Goto(c, "stopped")
    BY <1>0, <2>1 DEF Contract!Goto, Before
  <2>4. /\ UNCHANGED Contract(c)!requestVars
    BY <1>0, <2>1, <2>2 DEF Contract!requestVars
  <2>5. Contract(c)!CheckPrecondition(c)
    BY <1>0, <2>2, <2>3, <2>4 DEF Contract!CheckPrecondition
  <2>6. QED BY <2>5 DEF Contract!Next
<1>2. CASE (\E step \in {"ordinary", "advisory", "mint", "prove"} : Continue(c, step)) \/ Proven(c)
  <2>1. pc'[c] \in Before
    BY <1>0, <1>2 DEF Continue, Proven, Goto, Before
  <2>2. UNCHANGED <<completed, reviewId, outcome, live, head, garbled, stale, issues, pushes>>
    BY <1>2 DEF Continue, Proven
  <2>3. QED BY <2>1, <2>2 DEF SameFor, Phase
<1>3. CASE /\ head = ExpectedHead[c] /\ Goto(c, "ready") /\ stale' = stale \ {c}
           /\ UNCHANGED <<localVars, outcome, deployment, remoteVars, since, garbled, issues, pushes>>
  <2>1. pc' = [pc EXCEPT ![c] = "ready"]
    BY <1>3 DEF Goto
  <2>2. Contract(c)!Goto(c, "ready")
    BY <1>0, <2>1 DEF Contract!Goto, Before
  <2>3. UNCHANGED Contract(c)!requestVars
    BY <1>0, <1>3, <2>1 DEF Contract!requestVars
  <2>4. stale' \cap {c} = (stale \cap {c}) \ {c}
    BY <1>3
  <2>5. Contract(c)!CheckPrecondition(c)
    BY <1>0, <1>3, <2>2, <2>3, <2>4 DEF Contract!CheckPrecondition
  <2>6. QED BY <2>5 DEF Contract!Next
<1>4. QED BY <1>1, <1>2, <1>3 DEF Checks

\* Sending a review, or being refused by the governor, is the contract's own step.
LEMMA SendRefines ==
  ASSUME TypeOK, NEW c \in Submissions, SendReview(c) \/ RefuseReview(c),
         OwnReviews(c)' = OwnReviews(c)
  PROVE  Contract(c)!Next
<1>0. /\ pc \in [Calls -> Before \cup {"ready", "writing", "reading", "answered", "stopped"}]
      /\ completed \in [Submissions -> Tri] /\ c \in Calls
  BY DEF TypeOK, Calls
<1> USE DEF localVars, remoteVars, historyVars
<1>1. CASE SendReview(c)
  <2>1. pc[c] = "ready" /\ pc' = [pc EXCEPT ![c] = "writing"]
    BY <1>1 DEF SendReview, Goto
  <2>2. Contract(c)!Goto(c, "writing")
    BY <1>0, <2>1 DEF Contract!Goto, Before
  <2>3. Contract(c)!SendWrite(c)
    BY <1>0, <1>1, <2>1, <2>2 DEF SendReview, Contract!SendWrite, Before
  <2>4. QED BY <2>3 DEF Contract!Next
<1>2. CASE RefuseReview(c)
  <2>1. pc[c] = "ready" /\ pc' = [pc EXCEPT ![c] = "reading"]
    BY <1>2 DEF RefuseReview, Goto
  <2>2. Contract(c)!Goto(c, "reading")
    BY <1>0, <2>1 DEF Contract!Goto, Before
  <2>3. UNCHANGED Contract(c)!remoteVars
    BY <1>2 DEF RefuseReview, Contract!remoteVars
  <2>4. Contract(c)!RefuseWrite(c)
    BY <1>0, <1>2, <2>1, <2>2, <2>3 DEF RefuseReview, Contract!RefuseWrite, Before
  <2>5. QED BY <2>4 DEF Contract!Next
<1>3. QED BY <1>1, <1>2

\* GitHub's creation of the review is the contract's one application of it.
LEMMA CreateRefines ==
  ASSUME TypeOK, NEW c \in Submissions, CreateReview(c),
         OwnReviews(c)' = OwnReviews(c) \cup {Len(reviews) + 1},
         Len(reviews) + 1 \notin OwnReviews(c)
  PROVE  Contract(c)!Next
<1> USE DEF localVars, remoteVars, historyVars
<1>1. IsFiniteSet(OwnReviews(c))
  <2>1. Len(reviews) \in Nat /\ OwnReviews(c) \subseteq 1..Len(reviews)
    BY DEF TypeOK, OwnReviews
  <2>2. IsFiniteSet(1..Len(reviews))
    BY <2>1, FS_Interval
  <2>3. QED BY <2>1, <2>2, FS_Subset
<1>2. Cardinality(OwnReviews(c)') = Cardinality(OwnReviews(c)) + 1
  BY <1>1, FS_AddElement
<1>3. /\ c \in live /\ live' = live \ {c}
      /\ UNCHANGED <<pc, completed, reviewId, outcome, head, garbled, stale, issues, pushes>>
  BY DEF CreateReview
<1>4. UNCHANGED Contract(c)!requestVars
  BY <1>3 DEF Contract!requestVars
<1>5. [d \in {c} |-> Cardinality(OwnReviews(d))]' =
      [[d \in {c} |-> Cardinality(OwnReviews(d))] EXCEPT ![c] = @ + 1]
  BY <1>2
<1>6. Contract(c)!Apply(c)
  BY <1>3, <1>4, <1>5 DEF Contract!Apply
<1>7. QED BY <1>6 DEF Contract!Next

\* A gh process ends for the review as it ends for the contract.
LEMMA FinishRefines ==
  ASSUME TypeOK, NEW c \in Submissions, FinishReview(c), OwnReviews(c)' = OwnReviews(c)
  PROVE  Contract(c)!Next
<1>0. /\ pc \in [Calls -> Before \cup {"ready", "writing", "reading", "answered", "stopped"}]
      /\ completed \in [Submissions -> Tri] /\ reviewId \in [Submissions -> DOMAIN reviews \cup {None}]
      /\ c \in Calls /\ OwnReviews(c) \subseteq Nat /\ None \notin Nat
  BY NoneAssumption DEF TypeOK, Calls, OwnReviews
<1>1. PICK end \in ApiWriteEnds :
        /\ end.fate = "applied" <=> c \notin live
        /\ live' = IF end.fate = "rejected" THEN live \ {c} ELSE live
        /\ completed' = [completed EXCEPT ![c] = WriteCompleted(end.verdict)]
        /\ garbled' = IF end.confirmed /\ end.verdict.failed THEN garbled \cup {c} ELSE garbled
        /\ \/ UNCHANGED reviewId
           \/ /\ ~end.verdict.failed
              /\ \E id \in OwnReviews(c) : reviewId' = [reviewId EXCEPT ![c] = id]
  BY Zenon DEF FinishReview
<1>2. pc[c] = "writing" /\ pc' = [pc EXCEPT ![c] = "reading"]
      /\ UNCHANGED <<outcome, head, stale, issues, pushes>>
  BY Zenon DEF FinishReview, Goto
<1>3. Contract(c)!Goto(c, "reading")
  BY <1>0, <1>2 DEF Contract!Goto, Before
<1>4. /\ end \in Contract(c)!WriteEnds(c)
      /\ Contract(c)!WriteCompleted(end.verdict) = WriteCompleted(end.verdict)
  BY SameEnds
<1>5. /\ end.fate = "applied" <=> c \notin live \cap {c}
      /\ live' \cap {c} = IF end.fate = "rejected" THEN (live \cap {c}) \ {c} ELSE live \cap {c}
      /\ garbled' \cap {c} = IF end.confirmed /\ end.verdict.failed
                             THEN (garbled \cap {c}) \cup {c} ELSE garbled \cap {c}
  BY <1>1
<1>6. [d \in {c} |-> completed'[d]] =
      [[d \in {c} |-> completed[d]] EXCEPT ![c] = Contract(c)!WriteCompleted(end.verdict)]
  BY <1>0, <1>1, <1>4
<1>7. \/ {d \in {c} : reviewId'[d] # None} = {d \in {c} : reviewId[d] # None}
      \/ /\ ~end.verdict.failed
         /\ {d \in {c} : reviewId'[d] # None} = {d \in {c} : reviewId[d] # None} \cup {c}
  <2>1. CASE UNCHANGED reviewId
    BY <2>1
  <2>2. CASE /\ ~end.verdict.failed
             /\ \E id \in OwnReviews(c) : reviewId' = [reviewId EXCEPT ![c] = id]
    <3>1. reviewId'[c] # None
      BY <1>0, <2>2
    <3>2. QED BY <2>2, <3>1
  <2>3. QED BY <1>1, <2>1, <2>2
<1>8. (IF pc'[c] = "writing" THEN c ELSE None) = None
  BY <1>0, <1>2
<1>9. [d \in {c} |-> Cardinality(OwnReviews(d))]' = [d \in {c} |-> Cardinality(OwnReviews(d))]
  OBVIOUS
<1>10. [d \in {c} |-> IF pc[d] \in Before THEN "checking" ELSE pc[d]][c] = "writing"
  BY <1>2 DEF Before
<1>11. UNCHANGED <<[d \in {c} |-> outcome[d]], head, [d \in {c} |-> Cardinality(OwnReviews(d))],
                   stale \cap {c}, [d \in {c} |-> issues[d]], pushes>>
  BY <1>2, <1>9
<1>12. \E e \in Contract(c)!WriteEnds(c) :
         /\ e.fate = "applied" <=> c \notin live \cap {c}
         /\ (live \cap {c})' = IF e.fate = "rejected" THEN (live \cap {c}) \ {c} ELSE live \cap {c}
         /\ [d \in {c} |-> completed[d]]' =
              [[d \in {c} |-> completed[d]] EXCEPT ![c] = Contract(c)!WriteCompleted(e.verdict)]
         /\ (garbled \cap {c})' = IF e.confirmed /\ e.verdict.failed
                                  THEN (garbled \cap {c}) \cup {c} ELSE garbled \cap {c}
         /\ \/ UNCHANGED {d \in {c} : reviewId[d] # None}
            \/ /\ ~e.verdict.failed /\ c \in {c}
               /\ {d \in {c} : reviewId[d] # None}' = {d \in {c} : reviewId[d] # None} \cup {c}
  <2> end \in Contract(c)!WriteEnds(c)
    BY <1>4
  <2> WITNESS end \in Contract(c)!WriteEnds(c)
  <2>1. /\ (live \cap {c})' = live' \cap {c} /\ (garbled \cap {c})' = garbled' \cap {c}
        /\ [d \in {c} |-> completed[d]]' = [d \in {c} |-> completed'[d]]
        /\ {d \in {c} : reviewId[d] # None}' = {d \in {c} : reviewId'[d] # None}
    OBVIOUS
  <2>2. QED BY <1>5, <1>6, <1>7, <2>1, Zenon
<1>13. Contract(c)!FinishWrite(c)
  BY <1>3, <1>8, <1>10, <1>11, <1>12, Zenon DEF Contract!FinishWrite
<1>14. QED BY <1>13 DEF Contract!Next

\* The ends of a readback report what the contract allows for a create.
LEMMA ReadbackRefines ==
  ASSUME TypeOK, NEW c \in Submissions, FailReadback(c) \/ Readback(c),
         OwnReviews(c)' = OwnReviews(c)
  PROVE  Contract(c)!Next
<1> USE DEF localVars, remoteVars, historyVars
<1>0. /\ pc \in [Calls -> Before \cup {"ready", "writing", "reading", "answered", "stopped"}]
      /\ outcome \in [Submissions -> Outcomes \cup {None}]
      /\ c \in Calls
  BY DEF TypeOK, Calls
<1>1. ASSUME NEW read, NEW matches, pc[c] = "reading", Report(c, read, matches)
      PROVE  Contract(c)!Report(c, read, matches)
  <2>1. /\ pc' = [pc EXCEPT ![c] = "answered"]
        /\ outcome' = [outcome EXCEPT ![c] =
             [write_completed |-> completed[c], readback_completed |-> read,
              state_matches_requested |-> matches]]
        /\ UNCHANGED <<completed, reviewId, live, head, garbled, stale, issues, pushes>>
    BY <1>1 DEF Report, Goto
  <2>2. Contract(c)!Goto(c, "answered")
    BY <1>0, <2>1 DEF Contract!Goto, Before
  <2>3. UNCHANGED Contract(c)!requestVars
    BY <1>0, <1>1, <2>1 DEF Contract!requestVars
  <2>4. UNCHANGED Contract(c)!remoteVars
    BY <2>1 DEF Contract!remoteVars
  <2>5. QED BY <1>0, <2>1, <2>2, <2>3, <2>4 DEF Contract!Report
<1>2. CASE FailReadback(c)
  <2>1. pc[c] = "reading" /\ Report(c, FALSE, "unknown")
    BY <1>2 DEF FailReadback
  <2>2. Contract(c)!Report(c, FALSE, "unknown")
    BY <1>1, <2>1
  <2>3. Contract(c)!FailReadback(c)
    BY <2>1, <2>2 DEF Contract!FailReadback, Before
  <2>4. QED BY <2>3 DEF Contract!Next
<1>3. CASE Readback(c)
  <2>1. /\ pc[c] = "reading" /\ reviewId[c] # None
        /\ \E matches \in {"yes", "no"} : Report(c, TRUE, matches)
    BY <1>3 DEF Readback
  <2>2. PICK matches \in {"yes", "no"} : Report(c, TRUE, matches)
    BY <2>1
  <2>3. Contract(c)!Report(c, TRUE, matches)
    BY <1>1, <2>1, <2>2
  <2>4. matches \in Contract(c)!Matches(c)
    BY DEF Contract!Matches
  <2>5. Contract(c)!Readback(c)
    BY <2>1, <2>3, <2>4 DEF Contract!Readback, Before
  <2>6. QED BY <2>5 DEF Contract!Next
<1>4. QED BY <1>2, <1>3

\* Being abandoned, and asked for again, are steps of the contract.
LEMMA EndRefines ==
  ASSUME TypeOK, NEW c \in Submissions, Abandon(c) \/ AskAgain(c), OwnReviews(c)' = OwnReviews(c)
  PROVE  Contract(c)!Next
<1> USE DEF localVars, remoteVars, historyVars
<1>0. /\ pc \in [Calls -> Before \cup {"ready", "writing", "reading", "answered", "stopped"}]
      /\ outcome \in [Submissions -> Outcomes \cup {None}] /\ issues \in [Submissions -> Nat]
      /\ c \in Calls
  BY DEF TypeOK, Calls
<1>1. CASE Abandon(c)
  <2>1. /\ pc[c] \in {"ready", "writing", "reading"} /\ pc' = [pc EXCEPT ![c] = "stopped"]
        /\ UNCHANGED <<completed, reviewId, outcome, live, head, garbled, stale, issues, pushes>>
    BY <1>1 DEF Abandon, Goto
  <2>2. Contract(c)!Goto(c, "stopped")
    BY <1>0, <2>1 DEF Contract!Goto, Before
  <2>3. UNCHANGED Contract(c)!remoteVars
    BY <2>1 DEF Contract!remoteVars
  <2>4. pc'[c] = "stopped" /\ pc[c] \notin Before
    BY <1>0, <2>1 DEF Before
  <2>5. Contract(c)!Abandon(c)
    BY <2>1, <2>2, <2>3, <2>4 DEF Contract!Abandon
  <2>6. QED BY <2>5 DEF Contract!Next
<1>2. CASE AskAgain(c)
  <2>1. /\ pc[c] = "answered" /\ pc' = [pc EXCEPT ![c] = "identity"]
        /\ outcome[c].write_completed = "no" /\ outcome[c].state_matches_requested # "yes"
        /\ issues[c] < MaxIssues /\ issues' = [issues EXCEPT ![c] = @ + 1]
        /\ outcome' = [outcome EXCEPT ![c] = None]
        /\ UNCHANGED <<completed, reviewId, live, head, garbled, stale, pushes>>
    BY <1>2 DEF AskAgain, Goto
  <2>2. pc'[c] = "identity" /\ pc[c] \notin Before /\ "identity" \in Before
    BY <1>0, <2>1 DEF Before
  <2>3. Contract(c)!Goto(c, Contract(c)!First(c))
    BY <2>1, <2>2 DEF Contract!Goto, Contract!First
  <2>4. UNCHANGED Contract(c)!requestVars /\ UNCHANGED Contract(c)!remoteVars
    BY <2>1, <2>2 DEF Contract!requestVars, Contract!remoteVars
  <2>5. Contract(c)!MayAskAgain(outcome[c])
    BY <2>1 DEF Contract!MayAskAgain
  <2>6. Contract(c)!AskAgain(c)
    BY <1>0, <2>1, <2>2, <2>3, <2>4, <2>5 DEF Contract!AskAgain
  <2>7. QED BY <2>6 DEF Contract!Next
<1>3. QED BY <1>1, <1>2

\* A push is an edit of what the precondition looks at.
LEMMA PushRefines ==
  ASSUME TypeOK, NEW c \in Submissions, Push, OwnReviews(c)' = OwnReviews(c)
  PROVE  Contract(c)!Next
<1>1. /\ pushes < MaxPushes /\ pushes' = pushes + 1 /\ head' \in Heads \ {head}
      /\ stale' = Submissions
      /\ UNCHANGED <<pc, completed, reviewId, outcome, live, garbled, issues>>
  BY DEF Push, localVars
<1>2. UNCHANGED Contract(c)!requestVars
  BY <1>1 DEF Contract!requestVars
<1>3. stale' \cap {c} = {c}
  BY <1>1
<1>4. Contract(c)!Edit
  BY <1>1, <1>2, <1>3 DEF Contract!Edit
<1>5. QED BY <1>4 DEF Contract!Next

\* What another call, or another user of GitHub, does is nothing to the contract.
LEMMA OthersStutter ==
  ASSUME TypeOK, NEW c \in Submissions, OwnReviews(c)' = OwnReviews(c),
         \/ \E d \in Submissions : d # c /\ Checks(d)
         \/ \E d \in Submissions :
              /\ d # c
              /\ \/ SendReview(d) \/ RefuseReview(d) \/ CreateReview(d) \/ FinishReview(d)
                 \/ FailReadback(d) \/ Readback(d) \/ Abandon(d) \/ AskAgain(d)
         \/ \E p \in Preflights : Looks(p)
         \/ Suspend \/ ReviewElsewhere \/ Dismiss \/ UNCHANGED vars
  PROVE  SameFor(c)
<1> USE DEF localVars, remoteVars, historyVars
<1>0. /\ pc \in [Calls -> Before \cup {"ready", "writing", "reading", "answered", "stopped"}]
      /\ completed \in [Submissions -> Tri] /\ reviewId \in [Submissions -> DOMAIN reviews \cup {None}]
      /\ outcome \in [Submissions -> Outcomes \cup {None}] /\ issues \in [Submissions -> Nat]
      /\ Submissions \subseteq Calls /\ Preflights \subseteq Calls
      /\ Submissions \cap Preflights = {}
  BY ReviewAssumption DEF TypeOK, Calls
<1>1. ASSUME NEW d \in Calls, d # c,
             pc' = pc \/ \E step : Goto(d, step),
             completed' = completed \/ \E tri : completed' = [completed EXCEPT ![d] = tri],
             reviewId' = reviewId \/ \E id : reviewId' = [reviewId EXCEPT ![d] = id],
             outcome' = outcome \/ \E result : outcome' = [outcome EXCEPT ![d] = result],
             issues' = issues \/ issues' = [issues EXCEPT ![d] = @ + 1],
             c \in live' <=> c \in live, c \in garbled' <=> c \in garbled,
             c \in stale' <=> c \in stale, head' = head, pushes' = pushes
      PROVE  SameFor(c)
  <2>1. pc'[c] = pc[c]
    BY <1>0, <1>1 DEF Goto
  <2>2. completed'[c] = completed[c] /\ reviewId'[c] = reviewId[c]
    BY <1>0, <1>1
  <2>3. outcome'[c] = outcome[c] /\ issues'[c] = issues[c]
    BY <1>0, <1>1
  <2>4. QED BY <1>1, <2>1, <2>2, <2>3 DEF SameFor, Phase
<1>2. ASSUME NEW d \in Submissions, d # c, Checks(d) PROVE SameFor(c)
  <2>1. /\ \E step : Goto(d, step)
        /\ UNCHANGED <<completed, reviewId, outcome, issues, live, garbled, head, pushes>>
        /\ stale' = stale \/ stale' = stale \ {d}
    BY <1>2 DEF Checks, Refuse, Continue, Proven
  <2>2. QED BY <1>0, <1>1, <1>2, <2>1
<1>3. ASSUME NEW d \in Submissions, d # c,
             SendReview(d) \/ RefuseReview(d) \/ CreateReview(d) \/ Abandon(d) \/ AskAgain(d)
      PROVE  SameFor(c)
  <2>1. /\ pc' = pc \/ \E step : Goto(d, step)
        /\ completed' = completed \/ \E tri : completed' = [completed EXCEPT ![d] = tri]
        /\ reviewId' = reviewId
        /\ outcome' = outcome \/ \E result : outcome' = [outcome EXCEPT ![d] = result]
        /\ issues' = issues \/ issues' = [issues EXCEPT ![d] = @ + 1]
        /\ live' \in {live, live \cup {d}, live \ {d}}
        /\ UNCHANGED <<garbled, stale, head, pushes>>
    BY <1>3 DEF SendReview, RefuseReview, CreateReview, Abandon, AskAgain
  <2>2. QED BY <1>0, <1>1, <1>3, <2>1
<1>4. ASSUME NEW d \in Submissions, d # c, FinishReview(d) PROVE SameFor(c)
  <2>1. live' \in {live, live \ {d}} /\ garbled' \in {garbled, garbled \cup {d}}
    BY <1>4, Zenon DEF FinishReview
  <2>2. /\ \E step : Goto(d, step)
        /\ \E tri : completed' = [completed EXCEPT ![d] = tri]
        /\ reviewId' = reviewId \/ \E id : reviewId' = [reviewId EXCEPT ![d] = id]
        /\ UNCHANGED <<outcome, issues, stale, head, pushes>>
    BY <1>4, FinishSays
  <2>3. QED BY <1>0, <1>1, <1>4, <2>1, <2>2
<1>5. ASSUME NEW d \in Submissions, d # c, FailReadback(d) \/ Readback(d) PROVE SameFor(c)
  <2>1. /\ \E step : Goto(d, step)
        /\ \E result : outcome' = [outcome EXCEPT ![d] = result]
        /\ UNCHANGED <<completed, reviewId, issues, live, garbled, stale, head, pushes>>
    BY <1>5, ReadbackSays DEF Report
  <2>2. QED BY <1>0, <1>1, <1>5, <2>1
<1>6. ASSUME NEW p \in Preflights, Looks(p) PROVE SameFor(c)
  <2>1. /\ \E step : Goto(p, step)
        /\ UNCHANGED <<completed, reviewId, outcome, issues, live, garbled, stale, head, pushes>>
    BY <1>6 DEF Looks, Continue, Proven, PreflightReviewer, Answer
  <2>2. p \in Calls /\ p # c
    BY <1>0
  <2>3. QED BY <1>1, <2>1, <2>2
<1>7. CASE Suspend \/ ReviewElsewhere \/ Dismiss \/ UNCHANGED vars
  BY <1>7 DEF Suspend, ReviewElsewhere, Dismiss, vars, SameFor, Phase
<1>8. QED BY <1>2, <1>3, <1>4, <1>5, <1>6, <1>7

\* Every step is one of the contract of each submission, or a stutter of it.
LEMMA StepRefines ==
  ASSUME IInv, [Next]_vars, NEW c \in Submissions
  PROVE  [Contract(c)!Next]_(Contract(c)!vars)
<1>0. TypeOK /\ KnowledgeInv /\ HeadInv /\ FoundInv
  BY DEF IInv
<1>s. SameFor(c) => UNCHANGED Contract(c)!vars
  BY Stutters
<1>1. CASE CreateReview(c) /\ OwnReviews(c)' # OwnReviews(c)
  BY <1>0, <1>1, ReviewsStep, CreateRefines
<1>2. CASE OwnReviews(c)' = OwnReviews(c)
  <2>1. ~CreateReview(c)
    <3>1. CASE CreateReview(c)
      <4> DEFINE new == [call |-> c, actor |-> Credential(c), commit |-> ExpectedHead[c],
                         event |-> State(Action[c]), dismissed |-> FALSE]
      <4>1. reviews \in Seq(Review) /\ reviews' = Append(reviews, new) /\ new.call = c
        BY <1>0, <3>1 DEF CreateReview, TypeOK
      <4>2. new \in Review
        <5>1. c \in live /\ Proper(c)
          BY <1>0, <3>1 DEF CreateReview, KnowledgeInv
        <5>2. QED BY <1>0, <5>1, DeploymentFacts DEF Review
      <4> HIDE DEF new
      <4>3. Len(reviews) + 1 \in OwnReviews(c)' /\ Len(reviews) + 1 \notin OwnReviews(c)
        BY <4>1, <4>2, AppendProperties DEF OwnReviews
      <4>4. QED BY <1>2, <4>3
    <3>2. QED BY <3>1
  <2>2. CASE \E d \in Submissions :
               \/ pc[d] \in Before /\ Checks(d)
               \/ SendReview(d) \/ RefuseReview(d) \/ CreateReview(d) \/ FinishReview(d)
               \/ FailReadback(d) \/ Readback(d)
               \/ Abandon(d) \/ AskAgain(d)
    <3>1. PICK d \in Submissions :
            \/ pc[d] \in Before /\ Checks(d)
            \/ SendReview(d) \/ RefuseReview(d) \/ CreateReview(d) \/ FinishReview(d)
            \/ FailReadback(d) \/ Readback(d)
            \/ Abandon(d) \/ AskAgain(d)
      BY <2>2
    <3>2. CASE d # c
      BY <1>0, <1>2, <1>s, <3>1, <3>2, OthersStutter
    <3>3. CASE d = c
      BY <1>0, <1>2, <1>s, <2>1, <3>1, <3>3, CheckRefines, SendRefines, FinishRefines,
         ReadbackRefines, EndRefines
    <3>4. QED BY <3>2, <3>3
  <2>3. CASE \/ \E p \in Preflights : Looks(p)
             \/ Suspend \/ ReviewElsewhere \/ Dismiss \/ UNCHANGED vars
    BY <1>0, <1>2, <1>s, <2>3, OthersStutter
  <2>4. CASE Push
    BY <1>0, <1>2, <2>4, PushRefines
  <2>5. QED BY <1>0, <2>2, <2>3, <2>4, StepCases
<1>3. QED BY <1>0, <1>1, <1>2, ReviewsStep

\* execute_write_readback, for reviews: whatever holds of the write contract, of
\* its outcomes, retries and precondition, holds of each review, although its
\* precondition is five requests long and two principals send reviews at once.
THEOREM Implements == Spec => ImplementsContract
<1>1. Init => \A c \in Submissions : Contract(c)!Init
  <2> SUFFICES ASSUME Init, NEW c \in Submissions PROVE Contract(c)!Init
    OBVIOUS
  <2>1. c \in Calls /\ pc[c] = "identity" /\ pc[c] \in Before /\ pc[c] # "writing"
    BY DEF Init, Calls, Before
  <2>2. Cardinality(OwnReviews(c)) = 0
    <3>1. OwnReviews(c) = {}
      BY DEF Init, OwnReviews
    <3>2. QED BY <3>1, FS_EmptySet
  <2>3. Contract(c)!First(c) = "checking"
    BY DEF Contract!First
  <2>4. QED BY <2>1, <2>2, <2>3 DEF Init, Contract!Init
<1>2. IInv /\ [Next]_vars =>
        [\A c \in Submissions : [Contract(c)!Next]_(Contract(c)!vars)]_vars
  BY StepRefines
<1>3. QED BY <1>1, <1>2, Invariance, PTL DEF Spec, ImplementsContract
=============================================================================
