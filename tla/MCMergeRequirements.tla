------------------------ MODULE MCMergeRequirements ------------------------
(***************************************************************************)
(* Six pull requests, each with one part that matters: pinned checks on    *)
(* two pages, classic protection with legacy contexts, classic protection  *)
(* the caller may not see, reviews under two rules, and a stale approval.  *)
(***************************************************************************)
EXTENDS MergeRequirements

CONSTANTS h0, h1, b0, b1, lint, unit, app1, app2, w1, w2, alice, bob

MCHeads == {h0, h1}
MCBases == {b0, b1}
MCFresh == {<<b0, h0>>}
MCContexts == {lint, unit}
MCApps == {app1, app2}
MCWorkflows == {w1, w2}
MCReviewers == {alice, bob}
MCWriters == {alice}
MCRepositoryMethods == {"merge", "squash"}

Check(context, app) == [context |-> context, app |-> app]
NoRule(type) ==
  [type |-> type, checks |-> {}, strict |-> FALSE, approvals |-> 0, flags |-> {},
   methods |-> Methods, reviewers |-> FALSE]
PinnedLint == [NoRule("required_status_checks") EXCEPT
                 !.checks = {Check(lint, app1)}, !.strict = TRUE]
AnyLint == [NoRule("required_status_checks") EXCEPT !.checks = {Check(lint, AnyApp)}]
OneApproval == [NoRule("pull_request") EXCEPT !.approvals = 1]
TwoApprovals == [NoRule("pull_request") EXCEPT
                   !.approvals = 2, !.flags = {"code owner"}, !.methods = {"squash"}]

LegacyUnit ==
  [checks |-> {Check(lint, AnyApp)}, contexts |-> {lint, unit}, strict |-> TRUE,
   approvals |-> 0, flags |-> {"dismiss stale"}, linear |-> TRUE]

MCRulePool == {PinnedLint, AnyLint, NoRule("other")}
MCClassicPool == {LegacyUnit}

LintRun(head, app, workflow, start, state) ==
  [head |-> head, context |-> lint, app |-> app, workflow |-> workflow,
   start |-> start, state |-> state]
UnitRun(head, start) ==
  [LintRun(head, app1, w1, start, "SUCCESS") EXCEPT !.context = unit]
ReviewBy(who, state, commit) == [reviewer |-> who, state |-> state, commit |-> commit]

Quiet ==
  [head |-> h0, base |-> b0, rules |-> <<>>, classic |-> None, admin |-> TRUE,
   runs |-> <<>>, reviews |-> <<>>, requested |-> FALSE, threads |-> <<>>]

\* The newest run of w1 failed and is listed before an older one that passed.
PinnedChecks ==
  [Quiet EXCEPT
     !.rules = <<PinnedLint, NoRule("required_linear_history")>>,
     !.runs = <<LintRun(h0, app1, w1, 3, "FAILURE"), LintRun(h0, app1, w2, 4, "SUCCESS"),
                LintRun(h0, app1, w1, 2, "SUCCESS"), LintRun(h1, app2, w1, 1, "SUCCESS")>>]

\* The pinned check is on the first page, and either head has a second one.
ManyChecks ==
  [Quiet EXCEPT
     !.rules = <<PinnedLint>>,
     !.runs = <<LintRun(h0, app1, w1, 1, "SUCCESS"), UnitRun(h0, 2), UnitRun(h0, 3),
                UnitRun(h1, 4), UnitRun(h1, 5), UnitRun(h1, 6)>>]

LegacyContexts ==
  [Quiet EXCEPT
     !.classic = LegacyUnit,
     !.runs = <<LintRun(h0, app1, w1, 1, "FAILURE"), LintRun(h1, app1, w1, 2, "SUCCESS")>>]

HiddenProtection == [Quiet EXCEPT !.classic = LegacyUnit, !.admin = FALSE]

\* GitHub does not count bob's reviews.
Reviewed ==
  [Quiet EXCEPT
     !.rules = <<OneApproval, TwoApprovals>>,
     !.reviews = <<ReviewBy(bob, "APPROVED", h0), ReviewBy(alice, "APPROVED", h0)>>]

\* bob approved an older head, which a push dismisses; a thread is resolved.
StaleApproval ==
  [Quiet EXCEPT
     !.rules = <<[OneApproval EXCEPT !.flags = {"dismiss stale"}], TwoApprovals>>,
     !.reviews = <<ReviewBy(bob, "APPROVED", h1), ReviewBy(alice, "APPROVED", h0)>>,
     !.threads = <<"resolved">>]

MCStarts ==
  {PinnedChecks, ManyChecks, LegacyContexts, HiddenProtection, Reviewed, StaleApproval}
=============================================================================
