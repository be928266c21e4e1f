----------------------------- MODULE MergePolicy -----------------------------
(***************************************************************************)
(* How merge_requirements_policy.py layers the active ruleset rules and    *)
(* the classic protection of a base branch into one effective policy, and  *)
(* how tools/merge_requirements.py normalizes its required checks.         *)
(*                                                                         *)
(* A requirement is a check context with the app that must report it, None *)
(* when any app may.  GitHub writes "any app" in two ways, no app and the  *)
(* sentinel AnyApp (-1).                                                   *)
(***************************************************************************)
EXTENDS Naturals, Sequences, FiniteSetsExt

CONSTANTS
  Contexts,  \* names of checks
  Apps,      \* GitHub Apps
  AnyApp,    \* the app id -1
  None

ASSUME PolicyAssumption ==
  /\ AnyApp \notin Apps /\ None \notin Apps /\ AnyApp # None
  /\ None \notin Contexts

Methods == {"merge", "squash", "rebase"}
Flags == {"dismiss stale", "code owner", "last push", "conversation", "up to date"}

Requirement == [context : Contexts, app : Apps \cup {None}]

\* An active rule, as GitHub lists it.  Fields its type has no use for are
\* neutral; "other" stands for every type the server does not know.
RuleTypes == {"required_linear_history", "required_status_checks", "pull_request", "other"}
Rule ==
  [type : RuleTypes,
   checks : SUBSET [context : Contexts, app : Apps \cup {AnyApp, None}],
   strict : BOOLEAN,
   approvals : Nat,
   flags : SUBSET (Flags \ {"up to date"}),
   methods : SUBSET Methods,
   reviewers : BOOLEAN]

\* Classic protection.  "contexts" is the legacy field, which may repeat what
\* "checks" says more precisely.
Classic ==
  [checks : SUBSET [context : Contexts, app : Apps \cup {AnyApp, None}],
   contexts : SUBSET Contexts,
   strict : BOOLEAN,
   approvals : Nat,
   flags : SUBSET (Flags \ {"up to date"}),
   linear : BOOLEAN]

Policy ==
  [checks : SUBSET Requirement, approvals : Nat, flags : SUBSET Flags,
   methods : SUBSET Methods]

-----------------------------------------------------------------------------
\* One source's share of the policy: what it requires, and whether the server
\* knows how to express it.
Neutral ==
  [checks |-> {}, approvals |-> 0, flags |-> {}, methods |-> Methods,
   linear |-> FALSE, modelled |-> TRUE]

Strict(strict) == IF strict THEN {"up to date"} ELSE {}

\* A ruleset's strictness counts only when the rule names a check.
FromRule(rule) ==
  CASE rule.type = "required_linear_history" -> [Neutral EXCEPT !.linear = TRUE]
    [] rule.type = "required_status_checks" ->
         [Neutral EXCEPT !.checks = rule.checks,
                         !.flags = Strict(rule.strict /\ rule.checks # {})]
    [] rule.type = "pull_request" ->
         [Neutral EXCEPT !.approvals = rule.approvals, !.flags = rule.flags,
                         !.methods = rule.methods, !.modelled = ~rule.reviewers]
    [] OTHER -> [Neutral EXCEPT !.modelled = FALSE]

\* A legacy context stands for a requirement of its own only when no classic
\* check has that context.
FromClassic(classic) ==
  LET named == {check.context : check \in classic.checks}
  IN [Neutral EXCEPT
        !.checks = classic.checks
                   \cup {[context |-> c, app |-> None] : c \in classic.contexts \ named},
        !.approvals = classic.approvals,
        !.flags = classic.flags \cup Strict(classic.strict),
        !.linear = classic.linear]

\* The sentinel is kept as if it were an app.
NormalizeMutant(check) == check

Normalize(check) ==
  [check EXCEPT !.app = IF check.app = AnyApp THEN None ELSE check.app]

\* Each source strengthens: checks are united, approvals take the largest
\* count, methods intersect, linear history rules out merge commits.
Layered(sources) ==
  [checks |-> {Normalize(check) : check \in UNION {s.checks : s \in sources}},
   approvals |-> Max({0} \cup {s.approvals : s \in sources}),
   flags |-> UNION {s.flags : s \in sources},
   methods |-> {m \in Methods : /\ \A s \in sources : m \in s.methods
                                /\ m = "merge" => \A s \in sources : ~s.linear}]

Sources(rules, classic) ==
  {FromRule(rules[i]) : i \in DOMAIN rules}
    \cup (IF classic = None THEN {} ELSE {FromClassic(classic)})

\* The effective policy, or None when a rule is beyond the server's model.
Effective(rules, classic) ==
  LET sources == Sources(rules, classic)
  IN IF \A s \in sources : s.modelled THEN Layered(sources) ELSE None

-----------------------------------------------------------------------------
(* What a policy owes to one source, said of the source as GitHub gives it. *)

Demands(policy, checks) ==
  \A check \in checks :
    \E r \in policy.checks :
      /\ r.context = check.context
      /\ r.app = check.app \/ (r.app = None /\ check.app = AnyApp)

CoversRule(policy, rule) ==
  /\ rule.type # "other"
  /\ rule.type = "required_linear_history" => "merge" \notin policy.methods
  /\ rule.type = "required_status_checks" =>
       /\ Demands(policy, rule.checks)
       /\ (rule.strict /\ rule.checks # {}) => "up to date" \in policy.flags
  /\ rule.type = "pull_request" =>
       /\ policy.approvals >= rule.approvals
       /\ rule.flags \subseteq policy.flags
       /\ policy.methods \subseteq rule.methods
       /\ ~rule.reviewers

CoversClassic(policy, classic) ==
  /\ Demands(policy, classic.checks)
  /\ \A c \in classic.contexts : \E r \in policy.checks : r.context = c
  /\ classic.strict => "up to date" \in policy.flags
  /\ policy.approvals >= classic.approvals
  /\ classic.flags \subseteq policy.flags
  /\ classic.linear => "merge" \notin policy.methods

=============================================================================
