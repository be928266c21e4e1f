-------------------------- MODULE PullRequestReads --------------------------
(***************************************************************************)
(* The tools that read what belongs to one snapshot of a pull request, the *)
(* pair of its base and head: its diff, files and commits                  *)
(* (tools/pull_requests.py), its reviews and one thread                    *)
(* (tools/pr_reviews.py).  GitHub reads by number what is the pull         *)
(* request's at that moment, so that the tools look at the pair before and *)
(* after.                                                                  *)
(***************************************************************************)
EXTENDS PagedReads

CONSTANTS BaseSha, HeadSha  \* commits

Snapshot == BaseSha \X HeadSha
PullTools == {"pr_diff", "list_files", "list_commits", "list_reviews", "get_thread"}

(***************************************************************************)
(* first: the snapshot when the call begins.  size: what changes between   *)
(* base and head: files, commits or bytes of the diff, as the tool counts. *)
(* anchor: the head the thread was written for; elsewhere it is outdated.  *)
(* comments: on the thread.                                                *)
(***************************************************************************)
ASSUME PullAssumption ==
  \A s \in Scenarios :
    /\ s.first \in Snapshot
    /\ s.call.tool \in PullTools =>
         s.size \in [Snapshot -> Nat] /\ s.anchor \in HeadSha /\ s.comments \in Nat

VARIABLES
  snapshot,  \* GitHub: the base and head of the pull request
  cameBack   \* history: it came back to the pair the call had seen

pullVars == <<snapshot, cameBack>>

PullInit == snapshot = scenario.first /\ cameBack = FALSE

Content(s) == [k \in 1..scenario.size[s] |-> <<s, k>>]

\* A head is pushed, the base moves, or both.
PullMoves(s) ==
  /\ Change(PullTools)
  /\ s # snapshot
  /\ snapshot' = s
  /\ cameBack' = (cameBack \/ s = seen)
  /\ UNCHANGED listVars

-----------------------------------------------------------------------------
\* What gh_get_pr_review_thread returns when there is no evidence for the head.
NoExactEvidence == [exact |-> FALSE]

\* _get_pr_shas, or _get_pr_metadata for the thread, which is of one head only.
LookFirst ==
  /\ pc = "look"
  /\ IF call.tool = "get_thread" /\ snapshot[2] # call.head
     THEN Returns(NoExactEvidence) /\ UNCHANGED seen
     ELSE Then("content") /\ seen' = snapshot
  /\ UNCHANGED <<cursorVars, read>>

\* The pages say of which snapshot they are.
Named(s, page) == [k \in DOMAIN page |-> <<s, page[k]>>]

\* gh_get_pr_diff compares the commits themselves: no second look is needed.
ReadDiff ==
  /\ pc = "content" /\ call.tool = "pr_diff"
  /\ LET diff == Content(seen)
         bounded == SubSeq(diff, 1, Min({Len(diff), PageLimit}))
     IN  HandOver(Named(seen, bounded), FALSE, Len(bounded) < Len(diff), {seen}, "look")

\* A page by number, of the snapshot there is now.
ReadByNumber ==
  /\ pc = "content" /\ call.tool \in {"list_files", "list_commits"}
  /\ read' = [page |-> Page(Content(snapshot)), more |-> None]
  /\ Then("verify")
  /\ UNCHANGED <<cursorVars, seen>>

\* _read_reviews_page
ReadReviews ==
  /\ pc = "content" /\ call.tool = "list_reviews"
  /\ read' = [page |-> Page(items), more |-> FALSE]
  /\ Then(IF Len(Page(items)) < PageLimit THEN "verify" ELSE "following")
  /\ UNCHANGED <<cursorVars, seen>>

\* _page_has_more_reviews: the next page, when this one is full.
ReadFollowing ==
  /\ pc = "following"
  /\ read' = [read EXCEPT !.more = Len(items) > listPage * PageLimit]
  /\ Then("verify")
  /\ UNCHANGED <<cursorVars, seen>>

\* _read_review_thread_detail
ReadThread ==
  /\ pc = "content" /\ call.tool = "get_thread"
  /\ read' = [outdated |-> snapshot[2] # scenario.anchor,
              comments |-> Min({scenario.comments, PageLimit}),
              more |-> scenario.comments > PageLimit]
  /\ Then("verify")
  /\ UNCHANGED <<cursorVars, seen>>

\* Mutant: only the head is compared.
HeadUnmoved == snapshot[2] = seen[2]

\* _verify_pr_shas
Unmoved == snapshot = seen

\* A full page may go on.
Full(page) == Len(page) = PageLimit

ListPullFiles ==
  /\ pc = "verify" /\ call.tool = "list_files"
  /\ IF Unmoved THEN HandOver(Named(seen, read.page), Full(read.page), FALSE, {seen}, "look")
     ELSE Raises /\ UNCHANGED listVars

ListPullCommits ==
  /\ pc = "verify" /\ call.tool = "list_commits"
  /\ IF Unmoved THEN HandOver(Named(seen, read.page), Full(read.page), FALSE, {seen}, "look")
     ELSE Raises /\ UNCHANGED listVars

\* pagination_evidence without a total: a page cut by the hard limit is incomplete.
ListReviews ==
  /\ pc = "verify" /\ call.tool = "list_reviews"
  /\ IF Unmoved
     THEN HandOver(read.page, read.more, call.perPage > HardPerPage /\ read.more, {seen}, "look")
     ELSE Raises /\ UNCHANGED listVars

GetThread ==
  /\ pc = "verify" /\ call.tool = "get_thread"
  /\ Returns(IF Unmoved THEN [exact |-> TRUE, head |-> seen[2], thread |-> read]
             ELSE NoExactEvidence)
  /\ UNCHANGED listVars

-----------------------------------------------------------------------------
PullNext ==
  /\ \/ LookFirst \/ ReadDiff \/ ReadByNumber \/ ReadReviews \/ ReadFollowing \/ ReadThread
     \/ ListPullFiles \/ ListPullCommits \/ ListReviews \/ GetThread
  /\ UNCHANGED pullVars

PullGitHub == \E s \in Snapshot : PullMoves(s)
=============================================================================
