---------------------------- MODULE ExactWrites ----------------------------
(***************************************************************************)
(* The exact write tools together: one call of any of them, from its first *)
(* read to its answer, while GitHub carries its mutation out early, late   *)
(* or never, the request governor refuses it or not, any request fails and *)
(* other users change the same objects.                                    *)
(***************************************************************************)
EXTENDS PullRequestWrites, BranchWrites, ReleaseWrites, MetadataWrites

FirstStep ==
  [t \in Tools |->
     CASE t \in {"merge", "draft", "review", "issue", "branch"} -> "check"
       [] t = "linked_branch" -> "base"
       [] t = "release" -> "target"
       [] t \in {"edit", "create"} -> "resolve"
       [] t \in {"milestone", "create_named", "edit_named"} -> "write"]

Effects ==
  CASE call.tool = "merge" -> Merge(hub)
    [] call.tool = "draft" -> SetDraft(hub)
    [] call.tool = "review" -> Review(hub)
    [] call.tool = "issue" -> SetIssue(hub)
    [] call.tool \in {"branch", "linked_branch"} -> CreateRef(hub)
    [] call.tool = "release" -> CreateRelease(hub)
    [] call.tool = "edit" -> Edit(hub)
    [] call.tool \in {"create", "milestone"} -> Create(hub)
    [] call.tool = "create_named" -> CreateNamed(hub)
    [] call.tool = "edit_named" -> EditNamed(hub)

\* Other users change the objects the call is about.
Others ==
  CASE call.tool \in {"merge", "draft", "review"} -> PullRequestChanges(hub)
    [] call.tool \in {"branch", "linked_branch"} -> BranchChanges(hub)
    [] call.tool = "release" -> ReleaseChanges(hub)
    [] OTHER -> MetadataChanges(hub)

Init == CallInit(FirstStep)

Next ==
  \/ PullRequestNext \/ BranchNext \/ ReleaseNext \/ MetadataNext
  \/ Resolve \/ FailBefore
  \/ SendWrite \/ RefuseWrite \/ FinishWrite
  \/ FailReadback
  \/ live /\ Apply(Effects, hub.ids + 1)
  \/ Change(Others)

Spec == Init /\ [][Next]_vars

-----------------------------------------------------------------------------
Steps ==
  {"base", "check", "resolve", "target", "tag", "list", "again", "write", "sent",
   "readback", "find", "tagged", "latest", "answered"}

\* Type correctness.  A call that looks at the latest release has found its own and
\* a commit at its tag, an answered call has said something, a mutation is out only
\* after it was sent (release_exact.py, write_contracts.py).
TypeOK ==
  /\ pc \in Steps /\ page \in 1 .. MaxListPages
  /\ pc \in {"tagged", "latest"} => found # None
  /\ pc = "latest" => tagged # None
  /\ completed \in Tri
  /\ said \in {None, "not attempted", "nothing done", "done", "unverified"}
  /\ pc = "answered" <=> said # None
  /\ live \in BOOLEAN /\ garbled \in BOOLEAN /\ smooth \in BOOLEAN
  /\ live =>
       effect = None /\ pc \in {"sent", "readback", "find", "tagged", "latest", "answered"}
  /\ hub.ids >= scenario.hub.ids
  /\ changes \in 0 .. scenario.changes

\* A caller that is told that nothing was attempted, or that the object was there
\* already and nothing was written, finds that its write never happens, not even
\* later, except when GitHub confirmed it and gh could not read the answer.  One that
\* is told of success had its write applied; a merge or a review only ever touches
\* the head the caller named, and the release a caller is given is its own
\* (pr_writes.py, git_writes.py, issue_branch_writes.py, release_exact.py).
AnswersAreTrue ==
  /\ said \in {"not attempted", "nothing done"} /\ ~garbled => effect = None /\ ~live
  /\ said = "done" => effect # None
  /\ said = "done" /\ call.tool \in {"create", "milestone", "review"} => known = effect.id
  /\ said = "done" /\ call.tool = "release" /\ known # None => found.id = effect.id
  /\ call.tool \in {"merge", "review"} /\ effect # None =>
       effect.head = call.head \/ ~effect.changed

\* What GitHub makes of these is not what the tool compares it with: a draft release
\* whose tag does not exist, as no tag is created for it; a pull request that waits
\* for a merge queue without being shown so; a mark in another spelling than
\* GitHub's, but for those compared with case folded.
Incomparable ==
  \/ call.tool = "release" /\ call.draft /\ hub.tag = None
  \/ call.tool = "merge" /\ hub.pr = "pending"
  \/ call.tool \in Unguarded /\ \E m \in call.add : ~m.own /\ m.value \notin Folded

\* A write that met no failure and that nobody disturbed is reported as done exactly
\* when what the tool compares after it is what GitHub makes of it: the rest can
\* never be verified, and everything else is (matches of each tool: pr_writes.py:297
\* and 551, issue_writes.py:297 and 521, repository_create.py:16, release_exact.py).
UndisturbedIsVerified ==
  said \in {"done", "unverified"} /\ smooth /\ changes = 0 =>
    (said = "unverified" <=> Incomparable)
=============================================================================
