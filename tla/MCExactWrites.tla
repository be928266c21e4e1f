--------------------------- MODULE MCExactWrites ---------------------------
(*************************************************************************)
(* One call of each tool, on the state it expects and on others, with up *)
(* to three changes by other users.                                      *)
(*************************************************************************)
EXTENDS ExactWrites

CONSTANTS s1, s2, v1, v2, colour

MCSha == {s1, s2}
MCValue == {v1, v2, colour}
MCFolded == {colour}

Own(v) == [value |-> v, own |-> TRUE]
Other(v) == [value |-> v, own |-> FALSE]

Quiet ==
  [head |-> s1, pr |-> "open", method |-> "merge", draft |-> FALSE, dismissed |-> FALSE,
   issue |-> "reopened", marks |-> {v1}, made |-> None, named |-> None,
   base |-> s1, ref |-> None, linked |-> FALSE,
   tag |-> None, releases |-> <<>>, latest |-> None, ids |-> 0]

Asked(tool) ==
  [tool |-> tool, head |-> s1, method |-> "squash", expected |-> FALSE, own |-> FALSE,
   issue |-> "not_planned", add |-> {Own(v2), Other(colour)}, remove |-> {Own(v1)}, exists |-> TRUE, push |-> TRUE,
   tagAbsent |-> TRUE, releaseAbsent |-> TRUE, draft |-> FALSE, pre |-> FALSE, latest |-> TRUE]

Scene(hb, c) == [hub |-> hb, call |-> c, changes |-> 3]

OnPullRequests ==
  {Scene(Quiet, Asked(t)) : t \in {"merge", "draft", "review"}}
  \cup {Scene([Quiet EXCEPT !.draft = TRUE], [Asked("draft") EXCEPT !.expected = TRUE]),
        Scene([Quiet EXCEPT !.draft = TRUE], Asked("draft")),
        Scene([Quiet EXCEPT !.pr = "auto"], Asked("merge")),
        Scene([Quiet EXCEPT !.head = s2], Asked("merge")),
        Scene(Quiet, [Asked("review") EXCEPT !.own = TRUE])}

OnBranches ==
  {Scene([Quiet EXCEPT !.ref = r], Asked(t)) :
     r \in MCSha \cup {None}, t \in {"branch", "linked_branch"}}
  \cup {Scene(Quiet, [Asked("branch") EXCEPT !.exists = FALSE]),
        Scene([Quiet EXCEPT !.ref = s1, !.linked = TRUE], Asked("linked_branch"))}

\* As many releases as fit on a page, and one more than fits on all.
Elses(n) == [id |-> n, ours |-> FALSE, draft |-> FALSE, pre |-> FALSE]
Tagged == [Elses(1) EXCEPT !.ours = TRUE]
Released(rs, t) ==
  [Quiet EXCEPT !.releases = rs, !.tag = t, !.ids = Len(rs), !.latest = IF rs = <<>> THEN None ELSE Len(rs)]

OnReleases ==
  {Scene(Released(rs, None), Asked("release")) :
     rs \in {<<>>, <<Elses(1)>>, <<Elses(2), Elses(1)>>,
             <<Elses(4), Elses(3), Elses(2), Elses(1)>>}}
  \cup {Scene(Released(<<Elses(3), Elses(2), Tagged>>, s1),
              [Asked("release") EXCEPT !.tagAbsent = FALSE, !.releaseAbsent = a]) : a \in BOOLEAN}
  \cup {Scene(Released(<<Elses(1)>>, t),
              [Asked("release") EXCEPT !.tagAbsent = FALSE, !.draft = d, !.latest = FALSE]) :
          t \in {s1, s2, None}, d \in BOOLEAN}
  \cup {Scene(Released(<<>>, None), [Asked("release") EXCEPT !.push = FALSE]),
        Scene(Released(<<>>, None), [Asked("release") EXCEPT !.exists = FALSE]),
        Scene(Released(<<>>, None), [Asked("release") EXCEPT !.pre = TRUE, !.latest = FALSE])}

OnMetadata ==
  {Scene([Quiet EXCEPT !.named = n], Asked(t)) :
     n \in {None, {v1}}, t \in {"create_named", "edit_named"}}
  \cup {Scene(Quiet, Asked(t)) : t \in {"issue", "edit", "create", "milestone"}}
  \cup {Scene([Quiet EXCEPT !.named = IF t = "edit_named" THEN {v1} ELSE None],
              [Asked(t) EXCEPT !.add = {Other(v2)}, !.remove = {Other(v1)}]) : t \in Unguarded}
  \cup {Scene([Quiet EXCEPT !.issue = "completed"], [Asked("issue") EXCEPT !.issue = "reopened"]),
        Scene([Quiet EXCEPT !.issue = "completed"], Asked("issue"))}

MCScenarios == OnPullRequests \cup OnBranches \cup OnReleases \cup OnMetadata
=============================================================================
