----------------------------- MODULE ExactCall -----------------------------
(***************************************************************************)
(* What the exact writes share: one call of one tool through               *)
(* execute_write_readback (write_contracts.py), what it reads first, the   *)
(* mutation, what it reads back, and what its caller is told.  WriteContract *)
(* models the routine over a bare value; here it runs with the tools' own  *)
(* reads and comparisons, on GitHub objects that other users change.       *)
(***************************************************************************)
EXTENDS GhAttempt, SequencesExt

CONSTANTS
  Scenarios,  \* what is on GitHub at first, and the call that is made
  Sha,        \* commits
  Value,      \* labels, assignees, titles, colours: whatever an object is marked with
  Folded      \* those of them that the tools compare without regard to case

\* The tools that do not read anything that decides about the write.
Unguarded == {"edit", "create", "milestone", "create_named", "edit_named"}
Tools == Unguarded \cup {"merge", "draft", "review", "issue", "branch", "linked_branch", "release"}

\* Those that send the write as a gh subcommand.
Subcommands == {"merge", "draft", "edit", "create", "create_named", "edit_named"}

\* A value as a caller writes it: in the way GitHub keeps and shows it, or in another
\* (a label or a login in another case, a due date that is not shown with this
\* beginning, a description that is left out and shown as empty).
Mark == [value : Value, own : BOOLEAN]

Release == [id : Nat, ours : BOOLEAN, draft : BOOLEAN, pre : BOOLEAN]

(***************************************************************************)
(* The objects a call may be about.  pr, head, method, draft, dismissed:   *)
(* the pull request and the review of the call; it is queued if it is      *)
(* shown so, pending if it waits in a queue that is not shown so or with   *)
(* the method of the queue.  issue: state and reason.                      *)
(* marks: of the issue or pull request.  made: of the one created.  named: *)
(* of the label or repository of that name, None if there is none.  base,  *)
(* ref, linked: the base branch, the new branch, and its link to the issue *)
(* . tag, releases, latest: the release tag, all releases from the newest  *)
(* on, and the id of the latest.  ids: how many were ever used.            *)
(***************************************************************************)
Hub ==
  [head : Sha, pr : {"open", "merged", "queued", "pending", "auto"}, method : {"merge", "squash"},
   draft : BOOLEAN, dismissed : BOOLEAN,
   issue : {"open", "completed", "not_planned", "reopened"},
   marks : SUBSET Value, made : (SUBSET Value) \cup {None}, named : (SUBSET Value) \cup {None},
   base : Sha, ref : Sha \cup {None}, linked : BOOLEAN,
   tag : Sha \cup {None},
   releases : Seq(Release),
   latest : Nat \cup {None}, ids : Nat]

(***************************************************************************)
(* The arguments of a call, of which each tool uses its own; and what is   *)
(* so for good: own, the pull request is the reviewer's; exists, the       *)
(* commit does; push, the caller may push.  tagAbsent, releaseAbsent: the  *)
(* caller requires it.                                                     *)
(***************************************************************************)
Call ==
  [tool : Tools, head : Sha, method : {"merge", "squash"}, expected : BOOLEAN, own : BOOLEAN,
   issue : {"completed", "not_planned", "reopened"},
   add : SUBSET Mark, remove : SUBSET Mark, exists : BOOLEAN, push : BOOLEAN,
   tagAbsent : BOOLEAN, releaseAbsent : BOOLEAN,
   draft : BOOLEAN, pre : BOOLEAN, latest : BOOLEAN]

\* What a caller means.
Meant(asked) == {m.value : m \in asked}

ASSUME FoldedAssumption == Folded \subseteq Value

\* The review is not yet made, an id is used once, and nothing is both added and removed.
ASSUME ScenarioAssumption ==
  \A s \in Scenarios :
    /\ s.hub \in Hub /\ s.changes \in Nat /\ s.call \in Call
    /\ Meant(s.call.add) \cap Meant(s.call.remove) = {}
    /\ ~s.hub.dismissed
    /\ s.hub.latest \in 0 .. s.hub.ids \cup {None}

\* What a mutation met and made, once it was applied.
Trace == [head : Sha, id : Nat, changed : BOOLEAN]

ASSUME NoneIsNothing ==
  None \notin Sha \cup Release \cup Trace
              \cup {"not attempted", "nothing done", "done", "unverified"}

VARIABLES
  scenario,
  pc,         \* the request the call makes next, or "answered"
  page,       \* of the releases
  found,      \* the release found by its tag, or the base of a linked branch, or None
  tagged,     \* the commit of the release's tag, or None
  completed,  \* write_completed
  known,      \* the identity GitHub returned for the new object, or None
  said,       \* what the caller is told, or None
  hub,        \* GitHub
  live,       \* GitHub: the mutation was sent and is not decided
  effect,     \* history: the head the mutation met, what it made, whether it changed
              \* anything; None until it was applied
  garbled,    \* history: an unreadable reply said that it was applied
  smooth,     \* history: no request has failed
  changes     \* history: what other users changed

readVars == <<page, found, tagged>>
remoteVars == <<hub, live, effect, changes>>
vars == <<scenario, pc, readVars, completed, known, said, remoteVars, garbled, smooth>>

call == scenario.call

CallInit(first) ==
  /\ scenario \in Scenarios
  /\ pc = first[call.tool]
  /\ page = 1 /\ found = None /\ tagged = None
  /\ completed = "unknown" /\ known = None /\ said = None
  /\ hub = scenario.hub
  /\ live = FALSE /\ effect = None
  /\ garbled = FALSE /\ smooth = TRUE /\ changes = 0

-----------------------------------------------------------------------------
(* Before the write. *)

Goto(step) == pc' = step /\ UNCHANGED said
Tell(what) == pc' = "answered" /\ said' = what
Elsewhere == UNCHANGED <<scenario, completed, known, remoteVars, garbled>>

\* require_write_precondition: the state is as expected, or nothing is attempted.
Check(step, expected) ==
  /\ pc = step
  /\ IF expected THEN Goto("write") ELSE Tell("not attempted")
  /\ UNCHANGED <<readVars, smooth>> /\ Elsewhere

\* _resolve_assignee_groups, the title of a milestone: what is looked up does not
\* decide about the write.
Resolve == pc = "resolve" /\ Goto("write") /\ UNCHANGED <<readVars, smooth>> /\ Elsewhere

\* Any request before the write fails.
FailBefore ==
  /\ pc \in {"base", "check", "resolve", "target", "tag", "list", "again"}
  /\ Tell("not attempted") /\ smooth' = FALSE
  /\ UNCHANGED readVars /\ Elsewhere

-----------------------------------------------------------------------------
(* The write. *)

FirstRead == [t \in Tools |-> IF t = "release" THEN "find" ELSE "readback"]

SendWrite ==
  /\ pc = "write"
  /\ Goto("sent")
  /\ live' = TRUE
  /\ UNCHANGED <<scenario, readVars, completed, known, hub, effect, garbled, smooth, changes>>

\* The governor is in a cooldown: nothing is sent.
RefuseWrite ==
  /\ pc = "write"
  /\ Goto(FirstRead[call.tool])
  /\ completed' = "no" /\ smooth' = FALSE /\ page' = 1
  /\ UNCHANGED <<scenario, found, tagged, known, remoteVars, garbled>>

\* GitHub carries the mutation out, before or after gh gives up on it.
Apply(effects, id) ==
  /\ live
  /\ hub' \in effects
  /\ live' = FALSE
  /\ effect' = [head |-> hub.head, id |-> id, changed |-> hub' # hub]
  /\ UNCHANGED <<scenario, pc, readVars, completed, known, said, garbled, smooth, changes>>

\* A GraphQL answer with errors is taken for an unknown outcome (gh_create_branch).
MutationErrors ==
  {[fate |-> f, confirmed |-> FALSE, verdict |-> Failure(FALSE, TRUE, FALSE)] :
     f \in {"applied", "rejected"}}

Ends ==
  CASE call.tool \in Subcommands -> TextWriteEnds
    [] call.tool = "linked_branch" -> ApiWriteEnds \cup MutationErrors
    [] OTHER -> ApiWriteEnds

\* Those that find the object again by the identity in the answer, which may lack it.
Identified == {"create", "milestone", "review", "release"}

\* The gh process ends.
FinishWrite ==
  /\ pc = "sent"
  /\ \E end \in Ends :
       /\ end.fate = "applied" <=> ~live
       /\ live' = (live /\ end.fate # "rejected")
       /\ completed' = WriteCompleted(end.verdict)
       /\ garbled' = (end.confirmed /\ end.verdict.failed)
       /\ \/ known' = (IF end.verdict.failed THEN None ELSE effect.id)
             /\ smooth' = (smooth /\ ~end.verdict.failed)
          \/ call.tool \in Identified /\ known' = None /\ smooth' = FALSE
  /\ Goto(FirstRead[call.tool])
  /\ page' = 1
  /\ UNCHANGED <<scenario, found, tagged, hub, effect, changes>>

-----------------------------------------------------------------------------
(* After the write. *)

\* _outcome_message, or the bare outcome.
Verdict3(matches) == IF completed = "yes" /\ matches THEN "done" ELSE "unverified"

Answer(what) ==
  /\ pc = "readback"
  /\ Tell(what)
  /\ UNCHANGED <<readVars, smooth>> /\ Elsewhere

\* A request of the readback fails, or shows no such object.
FailReadback ==
  /\ pc \in {"readback", "find", "tagged", "latest"}
  /\ Tell("unverified") /\ smooth' = FALSE
  /\ UNCHANGED readVars /\ Elsewhere

-----------------------------------------------------------------------------
\* Another user changes something.
Change(others) ==
  /\ changes < scenario.changes
  /\ hub' \in others \ {hub}
  /\ changes' = changes + 1
  /\ UNCHANGED <<scenario, pc, readVars, completed, known, said, live, effect, garbled, smooth>>
=============================================================================
