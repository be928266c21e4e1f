----------------------------- MODULE GhAttempt -----------------------------
(***************************************************************************)
(* One gh process: what it may report, and what _run_once (gh_client.py)   *)
(* makes of it.  The verdict is all the rest of the server ever learns of  *)
(* a request, so for a write it decides whether a caller is told that the  *)
(* mutation completed, failed, or may have done either.                    *)
(***************************************************************************)
EXTENDS Naturals

CONSTANT None  \* Python's None

ASSUME NoneAssumption == None \notin Nat

\* What the policy and the arguments of run_with_metadata say of a request.
Request == [kind : {"read", "write"}, json : BOOLEAN, conditional : BOOLEAN]

Transient == {408, 500, 502, 503, 504}
Statuses  == {200, 304, 403, 422, 429} \cup Transient

(***************************************************************************)
(* exit: killed at the timeout; zero; another code the caller expects; or  *)
(* an unexpected one.  status: read from the included headers, else from   *)
(* stderr.  exhausted: X-RateLimit-Remaining is 0.  limitText and          *)
(* transportText: stdout and stderr hold a rate-limit marker, stderr a     *)
(* transport-failure marker.  body: what stdout holds after the headers.   *)
(***************************************************************************)
Reply ==
  [exit : {"timeout", "zero", "expected", "unexpected"},
   status : Statuses \cup {None},
   exhausted : BOOLEAN, limitText : BOOLEAN, transportText : BOOLEAN,
   body : {"json", "empty", "unreadable"}]

-----------------------------------------------------------------------------
Success == [failed |-> FALSE, retryable |-> FALSE, ambiguous |-> FALSE, rateLimited |-> FALSE]

Failure(retryable, ambiguous, rateLimited) ==
  [failed |-> TRUE, retryable |-> retryable, ambiguous |-> ambiguous,
   rateLimited |-> rateLimited]

\* _is_rate_limited
RateLimited(r) ==
  r.status = 429 \/ (r.status = 403 /\ r.exhausted) \/ r.limitText

\* _is_retryable_failure
Retryable(r) == r.status \in Transient \/ (r.status = None /\ r.transportText)

\* Mutant: a write whose gh process was killed counts as a plain failure.
AmbiguousUnlessKilled(q, r) ==
  /\ q.kind = "write"
  /\ r.exit # "timeout"
  /\ ~RateLimited(r)
  /\ r.status = None \/ Retryable(r)

\* A failed write may have been applied unless GitHub answered that it was not.
Ambiguous(q, r) ==
  /\ q.kind = "write"
  /\ \/ r.exit = "timeout"
     \/ ~RateLimited(r) /\ (r.status = None \/ Retryable(r))

\* _run_once, in its order of tests.
Verdict(q, r) ==
  CASE r.exit = "timeout" -> Failure(TRUE, Ambiguous(q, r), FALSE)
    [] r.exit # "timeout" /\ r.status = 304 /\ q.conditional -> Success
    [] r.exit = "unexpected" /\ ~(r.status = 304 /\ q.conditional) ->
         Failure(Retryable(r), Ambiguous(q, r), RateLimited(r))
    [] r.exit = "expected" /\ r.body = "empty" /\ ~(r.status = 304 /\ q.conditional) ->
         Failure(FALSE, FALSE, FALSE)
    [] r.exit \in {"zero", "expected"} /\ q.json /\ r.body = "unreadable" ->
         Failure(FALSE, FALSE, FALSE)
    [] OTHER -> Success

-----------------------------------------------------------------------------
(***************************************************************************)
(* What GitHub did with the mutation behind a reply: "applied" or          *)
(* "rejected" it, or "open": it was not decided when gh stopped waiting.   *)
(* A transient status, a lost connection and a kill say nothing; a rate    *)
(* limit, a client error and a GraphQL error body (status 200, gh exits    *)
(* non-zero) say it was rejected.                                          *)
(***************************************************************************)
Fates(r) ==
  CASE r.exit = "timeout" -> {"applied", "rejected", "open"}
    [] r.exit = "zero" -> {"applied"}
    [] r.exit = "unexpected" /\ (RateLimited(r) \/ ~(r.status = None \/ Retryable(r))) ->
         {"rejected"}
    [] OTHER -> {"applied", "rejected", "open"}

\* A write expects exit code 0 only; gh exits non-zero on an error status, and
\* its subcommands, unlike gh api, print none when they succeed.
WriteReplies ==
  {r \in Reply : /\ r.exit # "expected"
                 /\ r.exit = "zero" => r.status \in {200, None}}

\* Every way one write attempt can end: GitHub's side, gh's and the server's.
WriteEnd(json, r, fate) ==
  [fate |-> fate,
   confirmed |-> r.exit = "zero",
   verdict |-> Verdict([kind |-> "write", json |-> json, conditional |-> FALSE], r)]

ApiWriteEnds  == UNION {{WriteEnd(TRUE, r, f) : f \in Fates(r)} : r \in WriteReplies}
TextWriteEnds == UNION {{WriteEnd(FALSE, r, f) : f \in Fates(r)} : r \in WriteReplies}

-----------------------------------------------------------------------------
(***************************************************************************)
(* The tri-state outcome every exact write reports of it                   *)
(* (write_contracts.py), with "yes", "no" and "unknown" for True, False    *)
(* and None.                                                               *)
(***************************************************************************)

Tri == {"yes", "no", "unknown"}

\* WriteOutcomeMetadata; make_write_outcome refuses any other pairing.
Outcomes ==
  {o \in [write_completed : Tri, readback_completed : BOOLEAN, state_matches_requested : Tri] :
     o.readback_completed <=> o.state_matches_requested # "unknown"}

\* Mutant: every failed write is reported as one that did not complete.
WriteCompletedOrNot(verdict) == IF verdict.failed THEN "no" ELSE "yes"

\* write_completed, from how write() ended (execute_write_readback).
WriteCompleted(verdict) ==
  CASE ~verdict.failed -> "yes"
    [] verdict.failed /\ verdict.ambiguous -> "unknown"
    [] OTHER -> "no"
=============================================================================
