---------------------------- MODULE BranchWrites ----------------------------
(***************************************************************************)
(* gh_create_branch_from_sha (tools/git_writes.py) and gh_create_branch,   *)
(* which also links the branch to an issue (tools/issue_branch_writes.py). *)
(* Neither moves a branch that exists; both say so when they meet one that *)
(* is as asked for.                                                        *)
(***************************************************************************)
EXTENDS ExactCall

\* The commit exists; or the base branch is still where it was read, which is
\* taken down in found.
CheckCommit == call.tool = "branch" /\ Check("check", call.exists)

ReadBase ==
  /\ call.tool = "linked_branch" /\ pc = "base"
  /\ found' = hub.base
  /\ Goto("check")
  /\ UNCHANGED <<page, tagged, smooth>> /\ Elsewhere

CheckBase == call.tool = "linked_branch" /\ Check("check", hub.base = found)

\* The commit the new branch is to be at.
Wanted == IF call.tool = "branch" THEN call.head ELSE found

CreateRef(h) ==
  IF h.ref # None THEN {}
  ELSE {[h EXCEPT !.ref = Wanted, !.linked = (call.tool = "linked_branch")]}

\* Mutant: whatever is found as asked for was there before.
ReadBranchTakenForOld ==
  /\ call.tool = "branch" /\ hub.ref # None
  /\ LET matches == hub.ref = Wanted IN
     Answer(CASE completed # "yes" /\ matches -> "nothing done"
              [] completed = "no" /\ ~matches -> "nothing done"
              [] OTHER -> Verdict3(matches))

\* "already exists at the requested exact commit; no write was performed", or
\* "already exists at <another>; no ref was modified".
ReadBranch ==
  /\ call.tool = "branch" /\ hub.ref # None
  /\ Answer(IF completed = "no" THEN "nothing done" ELSE Verdict3(hub.ref = Wanted))

\* _read_issue_linked_branch: a branch that is not linked is no readback failure.
ReadLinkedBranch ==
  /\ call.tool = "linked_branch"
  /\ LET matches == hub.linked /\ hub.ref = Wanted IN
     Answer(IF completed = "no" /\ matches THEN "nothing done" ELSE Verdict3(matches))

MoveRef(h, s, l) == [h EXCEPT !.ref = s, !.linked = l]

BranchChanges(h) ==
  {MoveRef(h, s, l) : s \in Sha, l \in BOOLEAN}
  \cup {[h EXCEPT !.ref = None, !.linked = FALSE]}
  \cup {[h EXCEPT !.base = s] : s \in Sha}

BranchNext == CheckCommit \/ ReadBase \/ CheckBase \/ ReadBranch \/ ReadLinkedBranch
=============================================================================
