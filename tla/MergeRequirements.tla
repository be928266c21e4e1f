-------------------------- MODULE MergeRequirements --------------------------
(***************************************************************************)
(* One call of gh_get_merge_requirements (tools/merge_requirements.py).    *)
(* It reads the effective policy, the repository's merge methods, the      *)
(* required checks, the freshness of the base and the state of the reviews *)
(* of a pull request one after the other, between two looks at the base    *)
(* and the head, and answers from all of it.  The nested tools             *)
(* gh_get_pr_checks and gh_get_pr_review_state look at the identity too.   *)
(*                                                                         *)
(* An action is one request and what the call does with its reply.  Around *)
(* it GitHub goes on: rules come and go, heads are pushed, checks run,     *)
(* reviews are submitted.  A request may fail (GitHubRequestError), which  *)
(* leaves its evidence incomplete, or the call may raise.                  *)
(***************************************************************************)
EXTENDS MergePolicy

CONSTANTS
  Heads, Expected,     \* head commits of the pull request, the caller's one
  Bases,               \* tips of the base branch
  Fresh,               \* the pairs of a base and a head that contains it
  Workflows,           \* provenance of check runs
  Reviewers, Writers,  \* users who review, and those whose reviews GitHub counts
  RepositoryMethods,   \* merge methods the repository allows
  RulePool,            \* rules that may be added to the base branch
  ClassicPool,         \* classic protections that may be set
  Starts,              \* pull requests the call may find
  HardMax, PageMax,    \* hard_max_results, and GitHub's page of 100
  MaxMoves, MaxFaults  \* bounds: changes on GitHub, failed requests

PageSize == IF HardMax < PageMax THEN HardMax ELSE PageMax

States == {"SUCCESS", "FAILURE", "IN_PROGRESS"}
Run ==
  [head : Heads, context : Contexts, app : Apps \cup {None}, workflow : Workflows,
   start : Nat, state : States]
Review ==
  [reviewer : Reviewers, state : {"APPROVED", "CHANGES_REQUESTED", "COMMENTED"},
   commit : Heads]
PullRequest ==
  [head : Heads, base : Bases, rules : Seq(Rule), classic : Classic \cup {None},
   admin : BOOLEAN, runs : Seq(Run), reviews : Seq(Review),
   requested : BOOLEAN, threads : Seq({"open", "resolved"})]

ASSUME RequirementsAssumption ==
  /\ Expected \in Heads /\ None \notin Heads \cup Workflows \cup {"yes", "no"}
  /\ Writers \subseteq Reviewers
  /\ RepositoryMethods \subseteq Methods
  /\ RulePool \subseteq Rule /\ ClassicPool \subseteq Classic
  /\ \A start \in Starts : start \in PullRequest
  /\ HardMax \in Nat \ {0} /\ PageMax \in Nat \ {0}
  /\ MaxMoves \in Nat /\ MaxFaults \in Nat

VARIABLES
  pc,        \* the request the call makes next
  pr,        \* GitHub: the pull request and what governs its merge
  got,       \* locals of the call
  answer,    \* what it returned: None when it raised
  moves, faults,
  seen,      \* history: every state of pr since the call began
  listedAt,  \* history: the head whose checks gh listed, or None
  shifted    \* history: a rule went between the page of rules and its probe

vars == <<pc, pr, got, answer, moves, faults, seen, listedAt, shifted>>

-----------------------------------------------------------------------------
(* GitHub, as the requests see it. *)

RangeOf(s) == {s[i] : i \in DOMAIN s}

\* The page of at most "size" items behind the first "after".
Page(s, after, size) ==
  SubSeq(s, after + 1, IF Len(s) < after + size THEN Len(s) ELSE after + size)

Governing(s) == Sources(s.rules, s.classic)
Required(s, run) ==
  \E check \in Layered(Governing(s)).checks :
    check.context = run.context /\ check.app \in {None, run.app}

\* Runs of different workflows are taken for reruns of one check.
SameRowMutant(a, b) == a.context = b.context /\ a.app = b.app

SameRow(a, b) == a.context = b.context /\ a.app = b.app /\ a.workflow = b.workflow

\* The runs of the head, and where a list of them has them.
RunsAtHead(s) == {run \in RangeOf(s.runs) : run.head = s.head}
AtHead(s) == {i \in DOMAIN s.runs : s.runs[i].head = s.head}

\* The page of at most "size" of them behind the first "after".
PageAtHead(s, after, size) ==
  {i \in AtHead(s) : Cardinality({j \in AtHead(s) : j <= i}) \in after + 1 .. after + size}

\* gh pr checks --required: the newest run of each name and workflow.
Listing(s) ==
  {run \in RunsAtHead(s) :
     /\ Required(s, run)
     /\ \A other \in RunsAtHead(s) :
          other.context = run.context /\ other.workflow = run.workflow
            => other.start <= run.start}

Decisive(reviews) == {i \in DOMAIN reviews : reviews[i].state # "COMMENTED"}
Latest(reviews, among) ==
  {i \in among : \A j \in among : reviews[j].reviewer = reviews[i].reviewer => j <= i}
Approving(reviews, among) ==
  {reviews[i].reviewer : i \in {j \in Latest(reviews, among) : reviews[j].state = "APPROVED"}}

ReviewDecision(s) ==
  LET counted == {i \in Decisive(s.reviews) : s.reviews[i].reviewer \in Writers}
      approvals == Layered(Governing(s)).approvals
  IN CASE \E i \in Latest(s.reviews, counted) : s.reviews[i].state = "CHANGES_REQUESTED"
                                       -> "CHANGES_REQUESTED"
       [] approvals = 0                -> None
       [] Cardinality(Approving(s.reviews, counted)) >= approvals -> "APPROVED"
       [] OTHER                        -> "REVIEW_REQUIRED"

-----------------------------------------------------------------------------
Nothing ==
  [base |-> None, rules |-> None, policy |-> None, methods |-> None,
   nested |-> None, rows |-> {}, readable |-> FALSE, matches |-> TRUE,
   consistent |-> TRUE, kept |-> {}, nodes |-> 0, suspect |-> FALSE,
   upToDate |-> None, reviews |-> <<>>, truncated |-> FALSE, requested |-> FALSE,
   open |-> 0, decision |-> None, reviewed |-> "unread"]

\* An answer without evidence: the identity only (_invalid_result).
NoEvidence ==
  [policy |-> None, checksComplete |-> FALSE, rows |-> {}, approvals |-> None,
   satisfied |-> None, methods |-> None, upToDate |-> None]

Init ==
  /\ pc = "identity"
  /\ pr \in Starts
  /\ got = Nothing
  /\ answer = None
  /\ moves = 0 /\ faults = 0
  /\ seen = {pr}
  /\ listedAt = None
  /\ shifted = FALSE

\* The reply of the request at "step" is in: go on at "next" with new locals.
Reads(step, next, locals) ==
  /\ pc = step
  /\ pc' = next
  /\ got' = locals
  /\ UNCHANGED <<pr, answer, moves, faults, seen, listedAt, shifted>>

\* The call ends; its locals are gone.
Returns(step, value) ==
  /\ pc = step
  /\ pc' = "done"
  /\ got' = Nothing
  /\ answer' = value
  /\ UNCHANGED <<pr, moves, faults, seen, listedAt, shifted>>

\* The first look at the pull request.
ReadIdentity ==
  IF pr.head = Expected THEN Reads("identity", "rules", [got EXCEPT !.base = pr.base])
                        ELSE Returns("identity", NoEvidence)

-----------------------------------------------------------------------------
(* The policy. *)

\* _read_active_rules: one page, and when it is full a probe for one rule more.
ReadRules ==
  Reads("rules",
        IF Len(pr.rules) < PageSize THEN "branch" ELSE "rules probe",
        [got EXCEPT !.rules = Page(pr.rules, 0, PageSize)])

ProbeRules ==
  Reads("rules probe", "branch",
        IF Len(pr.rules) > PageSize THEN [got EXCEPT !.rules = None] ELSE got)

\* read_effective_merge_policy_evidence, once classic protection is known.
Composed(classic) ==
  [got EXCEPT !.policy = IF got.rules = None THEN None ELSE Effective(got.rules, classic),
              !.rules = None]
Unknown == [got EXCEPT !.policy = None, !.rules = None]

\* The branch says that it is not protected; or that it is, or nothing.
ReadBranch ==
  \/ pr.classic = None /\ Reads("branch", "methods", Composed(None))
  \/ Reads("branch", "protection", got)

\* A 404 is taken for absence.
ReadProtectionMutant ==
  Reads("protection", "methods",
        Composed(IF pr.classic # None /\ pr.admin THEN pr.classic ELSE None))

\* GitHub answers 404 for no protection and for a caller who may not see it.
ReadProtection ==
  IF pr.classic # None /\ pr.admin
  THEN Reads("protection", "methods", Composed(pr.classic))
  ELSE Reads("protection", "admin probe", got)

\* _verify_classic_admin_read: a 404 means absence to an administrator only.
ProbeAdmin ==
  Reads("admin probe", "methods", IF pr.admin THEN Composed(None) ELSE Unknown)

\* Without required checks in a complete policy there is nothing to list.
NothingToCheck == got.policy # None /\ got.policy.checks = {}

ReadMethods ==
  IF NothingToCheck
  THEN Reads("methods", "freshness",
             [got EXCEPT !.methods = RepositoryMethods, !.readable = TRUE])
  ELSE Reads("methods", "checks identity", [got EXCEPT !.methods = RepositoryMethods])

-----------------------------------------------------------------------------
(* The checks. *)

PinnedIn(policy) == {check \in policy.checks : check.app # None}
ContextsOf(checks) == {check.context : check \in checks}

\* gh_get_pr_checks: identity, gh pr checks, identity again.
ReadChecksIdentity ==
  Reads("checks identity", "checks list",
        [got EXCEPT !.nested = <<pr.base, pr.head>>])

ListChecks ==
  /\ pc = "checks list"
  /\ pc' = "checks verify"
  /\ \E rows \in IF Cardinality(Listing(pr)) > HardMax THEN kSubset(HardMax, Listing(pr))
                                                       ELSE {Listing(pr)} :
       got' = [got EXCEPT !.rows = rows, !.readable = (rows = Listing(pr))]
  /\ listedAt' = pr.head
  /\ UNCHANGED <<pr, answer, moves, faults, seen, shifted>>

\* Rows the policy does not know make the evidence inconsistent; app identities
\* are read only when they matter.
VerifyChecks ==
  LET matches == got.nested = <<got.base, Expected>>
      known == got.policy # None
      pinned == known /\ PinnedIn(got.policy) # {} /\ got.readable /\ matches
  IN IF <<pr.base, pr.head>> = got.nested
     THEN Reads("checks verify", IF pinned THEN "pinned" ELSE "freshness",
                [got EXCEPT !.nested = None,
                            !.matches = matches,
                            !.consistent = known => ContextsOf(got.rows)
                                                      \subseteq ContextsOf(got.policy.checks)])
     ELSE Returns("checks verify", None)

\* Of runs of one row the one that started last is kept.
Newest(runs) ==
  {run \in runs : \A other \in runs : SameRow(run, other) => other.start <= run.start}

\* Only the last page must match.
StillMatchesMutant(page) == page

\* Every page must have been read at the expected identity.
StillMatches(page) == got.matches /\ page

\* read_pinned_required_check_evidence, a page at a time.
ReadPinned ==
  LET first == IF HardMax - got.nodes < PageMax THEN HardMax - got.nodes ELSE PageMax
      page == PageAtHead(pr, got.nodes, first)
      required == {run \in {pr.runs[i] : i \in page} : Required(pr, run)}
      wanted == PinnedIn(got.policy)
      pinned == {run \in required : [context |-> run.context, app |-> run.app] \in wanted}
      anyApp == ContextsOf(got.policy.checks \ wanted)
      foreign == {run \in required \ pinned :
                    run.context \in ContextsOf(wanted) \ anyApp}
      more == Cardinality(AtHead(pr)) > got.nodes + first
      full == more /\ got.nodes + first >= HardMax
      read == [got EXCEPT !.kept = Newest(got.kept \cup pinned),
                          !.nodes = got.nodes + Cardinality(page),
                          !.suspect = got.suspect \/ foreign # {},
                          !.matches = StillMatches(<<pr.base, pr.head>> = <<got.base, Expected>>)]
  IN IF more /\ ~full
     THEN Reads("pinned", "pinned", read)
     ELSE Reads("pinned", "freshness",
                [read EXCEPT !.readable = got.readable /\ ~full /\ read.matches /\ ~read.suspect])

-----------------------------------------------------------------------------
(* Freshness of the base, and the reviews. *)

\* The comparison names the two commits, so it does not move with them.
ReadFreshness ==
  Reads("freshness", "review identity",
        [got EXCEPT !.upToDate = IF <<got.base, Expected>> \in Fresh THEN "yes" ELSE "no"])

\* gh_get_pr_review_state: identity, reviews, requested reviewers, threads with
\* GitHub's decision, identity again.
ReadReviewIdentity ==
  IF pr.head = Expected
  THEN Reads("review identity", "reviews", [got EXCEPT !.nested = pr.base])
  ELSE Reads("review identity", "final", [got EXCEPT !.reviewed = "moved"])

ReadReviews ==
  Reads("reviews",
        IF Len(pr.reviews) < PageSize THEN "requested" ELSE "reviews probe",
        [got EXCEPT !.reviews = Page(pr.reviews, 0, PageSize)])

ProbeReviews ==
  Reads("reviews probe", "requested",
        [got EXCEPT !.truncated = Len(pr.reviews) > PageSize])

ReadRequested ==
  Reads("requested", "threads", [got EXCEPT !.requested = pr.requested])

ReadThreads ==
  Reads("threads", "review verify",
        [got EXCEPT !.truncated = got.truncated \/ Len(pr.threads) > PageSize,
                    !.open = Cardinality({i \in DOMAIN pr.threads :
                                            i <= PageSize /\ pr.threads[i] = "open"}),
                    !.decision = ReviewDecision(pr)])

\* Reviews read while only the base moved are no evidence, but do not end the call.
VerifyReviews ==
  Reads("review verify", "final",
        [got EXCEPT !.nested = None,
                    !.reviewed = CASE pr.head # Expected -> "moved"
                                   [] pr.base = got.nested /\ pr.head = Expected -> "read"
                                   [] OTHER -> "unread"])

-----------------------------------------------------------------------------
(* The answer. *)

\* _reconcile_required_checks: a row for each run of a requirement, and one for
\* a requirement without a run when its absence is established.
Rows(complete) ==
  LET observed(check) ==
        IF check.app = None THEN {run \in got.rows : run.context = check.context}
        ELSE {run \in got.kept : run.context = check.context /\ run.app = check.app}
      row(check, workflow, state) ==
        [check |-> check, workflow |-> workflow, state |-> state]
  IN UNION {{row(check, run.workflow, run.state) : run \in observed(check)}
              \cup (IF observed(check) = {} /\ complete
                    THEN {row(check, None, "UNKNOWN")} ELSE {})
            : check \in got.policy.checks}

\* _current_valid_approvals: the reviewers whose latest decisive review
\* approves; only reviews of this head count when a push dismisses the others.
Counting(reviews, dismiss) ==
  {i \in Decisive(reviews) : dismiss => reviews[i].commit = Expected}
\* Every approval counts, withdrawn or not.
ValidApprovalsMutant(dismiss) == {review.reviewer : review \in
  {r \in RangeOf(got.reviews) : r.state = "APPROVED"}}

ValidApprovals(dismiss) == Approving(got.reviews, Counting(got.reviews, dismiss))

\* _requirements_result of gh_get_pr_review_state.
ReviewVerdict ==
  CASE got.truncated -> None
    [] got.decision \in {"CHANGES_REQUESTED", "REVIEW_REQUIRED"} -> "no"
    [] /\ got.decision = "APPROVED"
       /\ ~got.requested /\ got.open = 0
       /\ \E i \in DOMAIN got.reviews :
            got.reviews[i].commit = Expected /\ got.reviews[i].state = "APPROVED" -> "yes"
    [] OTHER -> None

\* _review_requirements_result.
Satisfied(count) ==
  CASE got.policy = None \/ got.reviewed # "read" \/ got.truncated -> None
    [] count < got.policy.approvals -> "no"
    [] OTHER -> ReviewVerdict

Assembled ==
  LET known == got.policy # None
      complete == known /\ got.readable /\ got.matches /\ got.consistent
      counted == known /\ got.reviewed = "read" /\ ~got.truncated
      count == Cardinality(ValidApprovals("dismiss stale" \in got.policy.flags))
  IN [policy |-> got.policy,
      checksComplete |-> complete,
      rows |-> IF known THEN Rows(complete) ELSE {},
      approvals |-> IF counted THEN count ELSE None,
      satisfied |-> IF counted THEN Satisfied(count) ELSE None,
      methods |-> IF known /\ got.methods # None
                  THEN got.methods \cap got.policy.methods ELSE None,
      upToDate |-> got.upToDate]

\* The last look at the pull request: any movement discards the evidence.
ReadFinal ==
  Returns("final",
          IF /\ <<pr.base, pr.head>> = <<got.base, Expected>>
             /\ got.reviewed # "moved"
             /\ got.matches
          THEN Assembled ELSE NoEvidence)

-----------------------------------------------------------------------------
(* What may go wrong, and what goes on at GitHub. *)

\* A request fails and the call goes on without its evidence.
RequestFails ==
  /\ faults < MaxFaults
  /\ faults' = faults + 1
  /\ \/ pc \in {"rules", "rules probe"} /\ pc' = "branch" /\ got' = [got EXCEPT !.rules = None]
     \/ pc \in {"branch", "protection", "admin probe"} /\ pc' = "methods" /\ got' = Unknown
     \/ /\ pc = "methods"
        /\ pc' = IF NothingToCheck THEN "freshness" ELSE "checks identity"
        /\ got' = [got EXCEPT !.readable = NothingToCheck]
     \/ /\ pc \in {"checks identity", "checks list", "checks verify"}
        /\ pc' = "freshness"
        /\ got' = [got EXCEPT !.nested = None, !.rows = {}, !.readable = FALSE]
     \/ /\ pc = "pinned"
        /\ pc' = "freshness"
        /\ got' = [got EXCEPT !.kept = {}, !.readable = FALSE, !.matches = TRUE]
     \/ pc = "freshness" /\ pc' = "review identity" /\ UNCHANGED got
     \/ /\ pc \in {"review identity", "reviews", "reviews probe", "requested",
                   "threads", "review verify"}
        /\ pc' = "final"
        /\ got' = [got EXCEPT !.nested = None, !.reviews = <<>>, !.truncated = FALSE]
  /\ UNCHANGED <<pr, answer, moves, seen, listedAt, shifted>>

\* A malformed reply, a failed look at the identity, or cancellation.
Raise == pc # "done" /\ Returns(pc, None)

\* Something changes between two requests of the call.
Changes(next) ==
  /\ pc \notin {"identity", "done"}
  /\ moves < MaxMoves
  /\ moves' = moves + 1
  /\ pr' = next
  /\ seen' = seen \cup {next}
  /\ UNCHANGED <<pc, got, answer, faults, listedAt>>

AddRule ==
  \E rule \in RulePool :
    Changes([pr EXCEPT !.rules = Append(@, rule)]) /\ UNCHANGED shifted

RemoveRule ==
  \E i \in DOMAIN pr.rules :
    /\ Changes([pr EXCEPT !.rules = SubSeq(@, 1, i - 1) \o SubSeq(@, i + 1, Len(@))])
    /\ shifted' = (shifted \/ pc = "rules probe")

SetClassic ==
  \E classic \in ClassicPool \cup {None} :
    Changes([pr EXCEPT !.classic = classic]) /\ UNCHANGED shifted

Push == \E head \in Heads : Changes([pr EXCEPT !.head = head]) /\ UNCHANGED shifted

MoveBase == \E base \in Bases : Changes([pr EXCEPT !.base = base]) /\ UNCHANGED shifted

\* A check runs again, and is listed last.
Rerun ==
  \E i \in DOMAIN pr.runs :
    /\ pr.runs[i].head = pr.head
    /\ Changes([pr EXCEPT !.runs = Append(@, [pr.runs[i] EXCEPT !.start = Len(pr.runs) + 1,
                                                                !.state = "IN_PROGRESS"])])
    /\ UNCHANGED shifted

Conclude ==
  \E i \in DOMAIN pr.runs, state \in {"SUCCESS", "FAILURE"} :
    /\ pr.runs[i].state = "IN_PROGRESS"
    /\ Changes([pr EXCEPT !.runs[i].state = state])
    /\ UNCHANGED shifted

SubmitReview ==
  \E who \in Reviewers, state \in {"APPROVED", "CHANGES_REQUESTED"} :
    /\ Changes([pr EXCEPT !.reviews =
                  Append(@, [reviewer |-> who, state |-> state, commit |-> pr.head])])
    /\ UNCHANGED shifted

OpenThread ==
  Changes([pr EXCEPT !.threads = Append(@, "open")]) /\ UNCHANGED shifted

RequestReview ==
  ~pr.requested /\ Changes([pr EXCEPT !.requested = TRUE]) /\ UNCHANGED shifted

GitHub ==
  \/ AddRule \/ RemoveRule \/ SetClassic \/ Push \/ MoveBase
  \/ Rerun \/ Conclude \/ SubmitReview \/ OpenThread
  \/ RequestReview

Next ==
  \/ ReadIdentity
  \/ ReadRules \/ ProbeRules \/ ReadBranch \/ ReadProtection \/ ProbeAdmin \/ ReadMethods
  \/ ReadChecksIdentity \/ ListChecks \/ VerifyChecks \/ ReadPinned
  \/ ReadFreshness
  \/ ReadReviewIdentity \/ ReadReviews \/ ProbeReviews \/ ReadRequested \/ ReadThreads
  \/ VerifyReviews
  \/ ReadFinal
  \/ RequestFails \/ Raise
  \/ GitHub

Spec == Init /\ [][Next]_vars

-----------------------------------------------------------------------------
(* Properties *)

Row == [check : Requirement, workflow : Workflows \cup {None},
        state : States \cup {"UNKNOWN"}]
Answer ==
  [policy : Policy \cup {None}, checksComplete : BOOLEAN, rows : SUBSET Row,
   approvals : Nat \cup {None}, satisfied : {"yes", "no", None},
   methods : (SUBSET Methods) \cup {None}, upToDate : {"yes", "no", None}]
Locals ==
  [base : Bases \cup {None}, rules : {None} \cup Seq(Rule), policy : {None} \cup Policy,
   methods : {None} \cup SUBSET Methods, nested : {None} \cup Bases \cup (Bases \X Heads),
   rows : SUBSET Run, readable : BOOLEAN, matches : BOOLEAN, consistent : BOOLEAN,
   kept : SUBSET Run, nodes : Nat, suspect : BOOLEAN, upToDate : {"yes", "no", None},
   reviews : Seq(Review), truncated : BOOLEAN, requested : BOOLEAN, open : Nat,
   decision : {"APPROVED", "CHANGES_REQUESTED", "REVIEW_REQUIRED", None},
   reviewed : {"unread", "read", "moved"}]
Steps ==
  {"identity", "rules", "rules probe", "branch", "protection", "admin probe", "methods",
   "checks identity", "checks list", "checks verify", "pinned", "freshness",
   "review identity", "reviews", "reviews probe", "requested", "threads",
   "review verify", "final", "done"}

\* Every variable has its type, the answer that of the result model: whatever the
\* replies, the fields that are computed from them are what the model declares.
TypeOK ==
  /\ pc \in Steps
  /\ pr \in PullRequest
  /\ got \in Locals
  /\ answer \in Answer \cup {None}
  /\ moves \in 0..MaxMoves /\ faults \in 0..MaxFaults
  /\ seen \subseteq PullRequest
  /\ listedAt \in Heads \cup {None}
  /\ shifted \in BOOLEAN

Throughout(P(_)) == \A s \in seen : P(s)
AtSomeTime(P(_)) == \E s \in seen : P(s)

\* A complete policy covers every rule and every classic protection that was in
\* force from the first read of the call to its last, and allows no merge method
\* they forbid: a 404, a full page or an unknown rule never passes for the
\* absence of a requirement.  (A rule removed between a full page and its probe
\* shifts the rules behind it past both: see "shifted".)
PolicyCoversWhatHeld ==
  (answer # None /\ answer.policy # None /\ ~shifted) =>
    /\ \A rule \in UNION {RangeOf(s.rules) : s \in seen} :
         Throughout(LAMBDA s : rule \in RangeOf(s.rules)) => CoversRule(answer.policy, rule)
    /\ \A classic \in {s.classic : s \in seen} \ {None} :
         Throughout(LAMBDA s : s.classic = classic) => CoversClassic(answer.policy, classic)

NewestFails(s, check, workflow) ==
  LET runs == {run \in RunsAtHead(s) :
                 /\ run.context = check.context /\ run.workflow = workflow
                 /\ check.app \in {None, run.app}}
  IN \E run \in runs : /\ run.state # "SUCCESS" /\ Required(s, run)
                       /\ \A other \in runs : other.start <= run.start

\* When the check evidence is complete, no failure is hidden: a check whose newest
\* run (of one workflow) at the expected head was required and had not succeeded
\* all through the call has a row that has not succeeded either, whatever pages
\* were read while checks ran again and however GitHub orders them.
NoFailingCheckHidden ==
  (answer # None /\ answer.checksComplete) =>
    \A check \in answer.policy.checks, workflow \in Workflows :
      Throughout(LAMBDA s : s.head = Expected /\ NewestFails(s, check, workflow))
        => \E row \in answer.rows : row.check = check /\ row.state # "SUCCESS"

\* A pinned check is reported missing only if at some time of the call it had no
\* required run at the expected head, not because a page of another head or a
\* truncated list did not show it.
MissingCheckWasMissing ==
  answer # None =>
    \A row \in answer.rows :
      (row.state = "UNKNOWN" /\ row.check.app # None) =>
        AtSomeTime(LAMBDA s :
          /\ s.head = Expected
          /\ \A run \in RunsAtHead(s) :
               (run.context = row.check.context /\ run.app = row.check.app)
                 => ~Required(s, run))

\* Review requirements are reported satisfied only if, at one time of the call,
\* as many reviewers as the reported policy asks for stood by an approval that
\* the policy counts, and at one time no thread was open.
SatisfiedReviewsStood ==
  (answer # None /\ answer.satisfied = "yes") =>
    /\ AtSomeTime(LAMBDA s :
         LET dismiss == "dismiss stale" \in answer.policy.flags
         IN /\ Cardinality(Approving(s.reviews, Counting(s.reviews, dismiss)))
                  >= answer.policy.approvals
            /\ \E review \in RangeOf(s.reviews) :
                 review.commit = Expected /\ review.state = "APPROVED")
    /\ AtSomeTime(LAMBDA s : "open" \notin RangeOf(s.threads))

\* Check evidence is complete only if gh listed the checks of the expected head.
\* A head pushed away and back between the looks at the identity refutes it.
CompleteChecksAreExpectedHeads ==
  (answer # None /\ answer.checksComplete) => listedAt \in {Expected, None}
=============================================================================
