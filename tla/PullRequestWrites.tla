------------------------- MODULE PullRequestWrites -------------------------
(***************************************************************************)
(* The writes that are bound to the head of a pull request: gh_merge_pr    *)
(* and gh_submit_pr_review (tools/pr_writes.py), gh_set_pr_draft_state     *)
(* (tools/pr_draft_state.py).  All three compare the head before they      *)
(* write; the merge and the review also name it to GitHub, which refuses   *)
(* another one.  gh pr ready cannot name it.                               *)
(***************************************************************************)
EXTENDS ExactCall

\* The precondition of each; a reviewer may not approve a pull request of its own.
CheckHead ==
  /\ call.tool \in {"merge", "draft", "review"}
  /\ Check("check",
       /\ hub.head = call.head
       /\ call.tool = "draft" => hub.draft = call.expected
       /\ call.tool = "review" => ~call.own)

\* Merged at once, queued, or when what is missing has come.
Requested(h) ==
  {[h EXCEPT !.pr = p, !.method = call.method] : p \in {"merged", "queued", "pending", "auto"}}

\* Mutant: gh pr merge without --match-head-commit.
MergeAnyHead(h) == IF h.pr \in {"merged", "queued", "pending"} THEN {h} ELSE Requested(h)

\* gh pr merge --match-head-commit; it is content with one that is merged or queued.
Merge(h) ==
  CASE h.pr \in {"merged", "queued", "pending"} -> {h}
    [] h.pr \in {"open", "auto"} /\ h.head = call.head -> Requested(h)
    [] OTHER -> {}

\* gh pr ready, of a pull request that is not closed.
SetDraft(h) == IF h.pr = "merged" THEN {} ELSE {[h EXCEPT !.draft = ~call.expected]}

\* POST .../reviews with commit_id
Review(h) == IF h.head = call.head THEN {[h EXCEPT !.ids = @ + 1]} ELSE {}

\* matches of gh_merge_pr
MergeMatches ==
  /\ hub.head = call.head
  /\ \/ hub.pr \in {"merged", "queued"}
     \/ hub.pr = "auto" /\ hub.method = call.method

ReadMerge == call.tool = "merge" /\ Answer(Verdict3(MergeMatches))

ReadDraft ==
  /\ call.tool = "draft"
  /\ Answer(Verdict3(hub.head = call.head /\ hub.draft = ~call.expected))

\* A review is found again by its id only.
ReadReview ==
  /\ call.tool = "review"
  /\ Answer(IF known = None THEN "unverified" ELSE Verdict3(~hub.dismissed))

\* Pushes, and what else happens to a pull request.
PullRequestChanges(h) ==
  {[h EXCEPT !.head = s, !.pr = IF @ \in {"queued", "pending"} THEN "open" ELSE @] :
     s \in IF h.pr = "merged" THEN {} ELSE Sha}
  \cup {[h EXCEPT !.draft = d] : d \in BOOLEAN}
  \cup {[h EXCEPT !.pr = "merged", !.method = m] : m \in {"merge", "squash"}}
  \cup {[h EXCEPT !.pr = "auto", !.method = m] :
          m \in IF h.pr = "open" THEN {"merge", "squash"} ELSE {}}
  \cup {[h EXCEPT !.dismissed = (effect # None)]}

PullRequestNext == CheckHead \/ ReadMerge \/ ReadDraft \/ ReadReview
=============================================================================
