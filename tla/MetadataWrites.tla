--------------------------- MODULE MetadataWrites ---------------------------
(***************************************************************************)
(* gh_set_issue_state (tools/issue_state.py); the edits and creations of   *)
(* issues, pull requests, milestones, labels and repositories              *)
(* (tools/issue_writes.py, tools/pr_writes.py,                             *)
(* tools/repository_create.py).  Issues, pull requests and milestones are  *)
(* found again by the identity GitHub returned; labels and repositories by *)
(* their name.  GitHub knows a label, a login or a date in any spelling    *)
(* and keeps its own; most comparisons of the tools are of the spelling.   *)
(***************************************************************************)
EXTENDS ExactCall

IsOpen(state) == state \in {"open", "reopened"}

\* The guarded transition; call.issue is the new state with its reason.
CheckIssue == call.tool = "issue" /\ Check("check", IsOpen(hub.issue) # IsOpen(call.issue))

SetIssue(h) ==
  {[h EXCEPT !.issue = IF IsOpen(@) /\ IsOpen(call.issue) THEN @ ELSE call.issue]}

ReadIssue == call.tool = "issue" /\ Answer(Verdict3(hub.issue = call.issue))

\* A colour and the name of a repository are compared with case folded, all else as
\* it is spelled.
Reads(m, shown) == m.value \in shown /\ (m.own \/ m.value \in Folded)

\* Mutant: a colour is compared as it is spelled.
MarkedAsSpelled(shown) ==
  /\ \A m \in call.add : m.own /\ m.value \in shown
  /\ \A m \in call.remove : ~Reads(m, shown)

\* matches of the edits and creations
Marked(shown) ==
  /\ \A m \in call.add : Reads(m, shown)
  /\ \A m \in call.remove : ~Reads(m, shown)

\* The object an edit is of, and what is made by name.
Edited(marks) == (marks \cup Meant(call.add)) \ Meant(call.remove)
Edit(h) == {[h EXCEPT !.marks = Edited(@)]}
Create(h) == {[h EXCEPT !.made = Meant(call.add), !.ids = @ + 1]}
CreateNamed(h) == IF h.named = None THEN {[h EXCEPT !.named = Meant(call.add)]} ELSE {}
EditNamed(h) == IF h.named = None THEN {} ELSE {[h EXCEPT !.named = Edited(@)]}

ReadEdit == call.tool = "edit" /\ Answer(Verdict3(Marked(hub.marks)))

\* Mutant: what cannot be identified counts as made.
ReadCreatedUnknown ==
  call.tool \in {"create", "milestone"} /\ Answer(Verdict3(known = None \/ Marked(hub.made)))

\* A creation whose answer had no URL or number is not read back.
ReadCreated ==
  /\ call.tool \in {"create", "milestone"}
  /\ Answer(IF known = None THEN "unverified" ELSE Verdict3(Marked(hub.made)))

ReadNamed ==
  /\ call.tool \in {"create_named", "edit_named"} /\ hub.named # None
  /\ Answer(Verdict3(Marked(hub.named)))

MetadataChanges(h) ==
  {[h EXCEPT !.issue = i] : i \in {"completed", "not_planned", "reopened"}}
  \cup {[h EXCEPT !.marks = m] : m \in SUBSET Value}
  \cup {[h EXCEPT !.named = m] : m \in (SUBSET Value) \cup {None}}
  \cup {[h EXCEPT !.made = m] : m \in IF h.made = None THEN {} ELSE SUBSET Value}

MetadataNext == CheckIssue \/ ReadIssue \/ ReadEdit \/ ReadCreated \/ ReadNamed
=============================================================================
