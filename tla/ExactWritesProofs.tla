------------------------- MODULE ExactWritesProofs -------------------------
(***************************************************************************)
(* Proofs about the exact write tools: what a caller is told is true of    *)
(* GitHub, and a write that nothing disturbs is verified if its tool can   *)
(* tell, for every call, every state of the objects and any number of      *)
(* changes by other users.                                                 *)
(***************************************************************************)
EXTENDS ExactWrites, SequenceTheorems, TLAPS

-----------------------------------------------------------------------------
(***************************************************************************)
(* The inductive invariant.  The first three parts carry the types and     *)
(* AnswersAreTrue: what is where a call stands, what its outcome says of   *)
(* the mutation, and what its answer rests on.  The other three carry      *)
(* UndisturbedIsVerified: what the reads before the write established,     *)
(* what the mutation made, and what a readback without failures has.       *)
(***************************************************************************)

Before == {"base", "check", "resolve", "target", "tag", "list", "again", "write"}
ReleaseSteps == {"target", "tag", "list", "again", "find", "tagged", "latest"}
ByHead == {"merge", "draft", "review"}

StageInv ==
  /\ scenario \in Scenarios /\ hub \in Hub /\ effect \in Trace \cup {None}
  /\ pc \in ReleaseSteps => call.tool = "release"
  /\ pc = "resolve" => call.tool \in {"edit", "create"}
  /\ pc \in {"tagged", "latest"} => found \in Release
  /\ call.tool = "linked_branch" /\ (pc \in {"check", "write", "sent"} \/ live) => found \in Sha
  /\ pc \in Before \cup {"sent"} => completed = "unknown" /\ known = None /\ ~garbled
  /\ pc \in Before => effect = None
  /\ pc = "sent" => (live <=> effect = None)

OutcomeInv ==
  /\ completed = "no" /\ ~garbled => effect = None /\ ~live
  /\ completed = "yes" => effect # None
  /\ known # None => effect # None /\ known = effect.id
  /\ pc \in {"tagged", "latest"} /\ known # None => found.id = known
  /\ call.tool \in {"merge", "review"} /\ effect # None =>
       effect.head = call.head \/ ~effect.changed

AnswerInv ==
  /\ said = "not attempted" => effect = None /\ ~live
  /\ said = "nothing done" => completed = "no"
  /\ said = "done" =>
       /\ completed = "yes"
       /\ call.tool \in {"create", "milestone", "review"} => known # None
       /\ call.tool = "release" /\ known # None => found.id = known

\* The call has passed its precondition and may have written.
Passed == pc \in {"write", "sent"} \/ live \/ effect # None

GuardInv ==
  changes = 0 =>
    /\ effect = None => hub = scenario.hub
    /\ call.tool \in ByHead /\ Passed => scenario.hub.head = call.head
    /\ call.tool = "issue" /\ Passed => IsOpen(scenario.hub.issue) # IsOpen(call.issue)
    /\ call.tool = "release" /\ (pc \in {"list", "again"} \/ Passed) =>
         scenario.hub.tag \in {None, call.head}

\* The release a call makes is the newest, and the latest if that was asked for.
ReleaseMade ==
  /\ call.push /\ hub.releases # <<>>
  /\ hub.releases[1] = [id |-> hub.ids, ours |-> TRUE, draft |-> call.draft, pre |-> call.pre]
  /\ effect.id = hub.ids
  /\ (hub.latest = hub.ids) = call.latest
  /\ IF hub.tag = None THEN call.draft ELSE hub.tag = call.head

\* The marks are as the caller means them, in whatever spelling.
Landed(shown) == Meant(call.add) \subseteq shown /\ Meant(call.remove) \cap shown = {}

\* What a mutation that met the objects as the call saw them has made.
Made ==
  CASE call.tool = "merge" ->
         hub.head = call.head /\ (hub.pr = "auto" => hub.method = call.method) /\ hub.pr # "open"
    [] call.tool = "draft" -> hub.head = call.head /\ hub.draft = ~call.expected
    [] call.tool = "review" -> ~hub.dismissed
    [] call.tool = "issue" -> hub.issue = call.issue
    [] call.tool = "branch" -> hub.ref = Wanted
    [] call.tool = "linked_branch" -> hub.linked /\ hub.ref = Wanted
    [] call.tool = "release" -> ReleaseMade
    [] call.tool = "edit" -> Landed(hub.marks)
    [] call.tool \in {"create", "milestone"} -> Landed(hub.made)
    [] call.tool \in {"create_named", "edit_named"} -> Landed(hub.named)

MadeInv == changes = 0 /\ effect # None => Made

SmoothInv ==
  /\ smooth /\ (pc \in {"readback", "find", "tagged", "latest"} \/ said = "unverified") =>
       completed = "yes" /\ known # None
  /\ smooth /\ pc = "find" /\ changes = 0 => page = 1
  /\ smooth /\ pc \in {"tagged", "latest"} /\ changes = 0 => found = hub.releases[1]
  /\ smooth /\ pc = "latest" /\ changes = 0 => tagged = hub.tag

ExactInv ==
  TypeOK /\ StageInv /\ OutcomeInv /\ AnswerInv /\ GuardInv /\ MadeInv /\ SmoothInv
    /\ UndisturbedIsVerified

-----------------------------------------------------------------------------
(* The objects: what is made of them stays of their type. *)

\* What the assumption says of the call that is made.
LEMMA ScenarioFacts ==
  ASSUME scenario \in Scenarios
  PROVE  /\ scenario.hub \in Hub /\ scenario.changes \in Nat
         /\ call \in Call /\ call.tool \in Tools /\ call.head \in Sha
         /\ call.add \subseteq Mark /\ call.remove \subseteq Mark
         /\ Meant(call.add) \cap Meant(call.remove) = {}
         /\ ~scenario.hub.dismissed
         /\ scenario.hub.latest \in 0 .. scenario.hub.ids \cup {None}
BY ScenarioAssumption DEF call, Call

\* gh pr merge leaves alone what is merged, and refuses another head.
LEMMA MergeFacts ==
  ASSUME NEW h \in Hub, scenario \in Scenarios, NEW g \in Merge(h)
  PROVE  /\ g \in Hub /\ g.ids = h.ids
         /\ g = h \/ h.head = call.head
         /\ g.head = h.head
         /\ g.pr # "open" /\ (g.pr = "auto" => g.method = call.method)
<1>1. call.method \in {"merge", "squash"}
  BY ScenarioFacts DEF Call
<1>2. CASE h.pr \in {"merged", "queued", "pending"}
  BY <1>2 DEF Merge, Hub
<1>3. CASE h.pr \notin {"merged", "queued", "pending"}
  <2>1. g \in Requested(h) /\ h.head = call.head
    BY <1>3 DEF Merge
  <2>2. PICK p \in {"merged", "queued", "pending", "auto"} :
          g = [h EXCEPT !.pr = p, !.method = call.method]
    BY <2>1 DEF Requested
  <2>3. PICK m \in {"merge", "squash"} : m = call.method
    BY <1>1
  <2>. QED  BY <2>1, <2>2, <2>3 DEF Hub
<1>. QED  BY <1>2, <1>3

\* gh pr ready sets the draft state only.
LEMMA DraftFacts ==
  ASSUME NEW h \in Hub, scenario \in Scenarios, NEW g \in SetDraft(h)
  PROVE  g \in Hub /\ g.ids = h.ids /\ g.head = h.head /\ g.draft = ~call.expected
<1>1. g = [h EXCEPT !.draft = ~call.expected]
  BY DEF SetDraft
<1>2. PICK d \in BOOLEAN : d = ~call.expected
  OBVIOUS
<1>. QED  BY <1>1, <1>2 DEF Hub

\* A review is made at the head that was named.
LEMMA ReviewFacts ==
  ASSUME NEW h \in Hub, NEW g \in Review(h)
  PROVE  g \in Hub /\ g.ids = h.ids + 1 /\ h.head = call.head /\ g.dismissed = h.dismissed
<1>1. g = [h EXCEPT !.ids = h.ids + 1] /\ h.head = call.head
  BY DEF Review
<1>2. h.ids \in Nat
  BY DEF Hub
<1>3. PICK n \in Nat : n = h.ids + 1
  BY <1>2
<1>. QED  BY <1>1, <1>3 DEF Hub

\* An issue that is open where the call wants it closed, or the reverse, is set.
LEMMA IssueFacts ==
  ASSUME NEW h \in Hub, scenario \in Scenarios, NEW g \in SetIssue(h)
  PROVE  /\ g \in Hub /\ g.ids = h.ids
         /\ IsOpen(h.issue) # IsOpen(call.issue) => g.issue = call.issue
<1>1. PICK i \in {"open", "completed", "not_planned", "reopened"} :
        i = IF IsOpen(h.issue) /\ IsOpen(call.issue) THEN h.issue ELSE call.issue
  BY ScenarioFacts DEF Call, Hub
<1>2. g = [h EXCEPT !.issue = i]
  BY <1>1 DEF SetIssue
<1>3. IsOpen(h.issue) # IsOpen(call.issue) => i = call.issue
  BY <1>1 DEF IsOpen
<1>. QED  BY <1>2, <1>3 DEF Hub

\* A new branch is at the commit that was wanted.
LEMMA RefFacts ==
  ASSUME NEW h \in Hub, Wanted \in Sha, NEW g \in CreateRef(h)
  PROVE  /\ g \in Hub /\ g.ids = h.ids
         /\ g.ref = Wanted /\ g.linked = (call.tool = "linked_branch")
<1>1. g = [h EXCEPT !.ref = Wanted, !.linked = (call.tool = "linked_branch")]
  BY DEF CreateRef
<1>2. PICK l \in BOOLEAN : l = (call.tool = "linked_branch")
  OBVIOUS
<1>3. PICK w \in Sha : w = Wanted
  OBVIOUS
<1>. QED  BY <1>1, <1>2, <1>3 DEF Hub


\* An edit or a creation leaves the marks as the caller means them.
LEMMA MarksAsMeant ==
  ASSUME scenario \in Scenarios, NEW marks \in SUBSET Value
  PROVE  /\ Edited(marks) \in SUBSET Value /\ Landed(Edited(marks))
         /\ Meant(call.add) \in SUBSET Value /\ Landed(Meant(call.add))
<1>1. Meant(call.add) \in SUBSET Value
  <2>1. call.add \subseteq Mark
    BY ScenarioFacts
  <2>. QED  BY <2>1 DEF Meant, Mark
<1>2. Meant(call.add) \cap Meant(call.remove) = {}
  BY ScenarioFacts
<1>. QED  BY <1>1, <1>2 DEF Landed, Edited

\* Marks that landed are verified unless one is spelled in another way than GitHub's.
LEMMA LandedIsCompared ==
  ASSUME scenario \in Scenarios, call.tool \in Unguarded, NEW shown, Landed(shown)
  PROVE  Marked(shown) <=> ~Incomparable
<1>1. \A m \in call.add : m.value \in shown
  BY DEF Landed, Meant
<1>2. \A m \in call.remove : m.value \notin shown
  BY DEF Landed, Meant
<1>3. Marked(shown) <=> \A m \in call.add : m.own \/ m.value \in Folded
  BY <1>1, <1>2 DEF Marked, Reads
<1>4. Incomparable <=> \E m \in call.add : ~m.own /\ m.value \notin Folded
  BY DEF Incomparable, Unguarded
<1>. QED  BY <1>3, <1>4

\* An edited issue or pull request.
LEMMA EditFacts ==
  ASSUME NEW h \in Hub, scenario \in Scenarios, NEW g \in Edit(h)
  PROVE  g \in Hub /\ g.ids = h.ids /\ Landed(g.marks)
<1>1. h.marks \in SUBSET Value
  BY DEF Hub
<1>2. PICK m \in SUBSET Value : m = Edited(h.marks)
  BY <1>1, MarksAsMeant
<1>3. g = [h EXCEPT !.marks = m] /\ Landed(m)
  BY <1>1, <1>2, MarksAsMeant DEF Edit
<1>4. g \in Hub /\ g.ids = h.ids /\ g.marks = m
  BY <1>3 DEF Hub
<1>. QED  BY <1>3, <1>4

\* A created issue, pull request or milestone, which has an id of its own.
LEMMA CreateFacts ==
  ASSUME NEW h \in Hub, scenario \in Scenarios, NEW g \in Create(h)
  PROVE  g \in Hub /\ g.ids = h.ids + 1 /\ Landed(g.made)
<1>1. PICK m \in SUBSET Value : m = Meant(call.add)
  BY MarksAsMeant
<1>2. h.ids \in Nat
  BY DEF Hub
<1>3. PICK n \in Nat : n = h.ids + 1
  BY <1>2
<1>4. g = [h EXCEPT !.made = m, !.ids = n]
  BY <1>1, <1>3 DEF Create
<1>5. g \in Hub /\ g.ids = n /\ g.made = m
  BY <1>4 DEF Hub
<1>. QED  BY <1>1, <1>3, <1>5, MarksAsMeant

\* A label or repository that is made or edited by name.
LEMMA NamedFacts ==
  ASSUME NEW h \in Hub, scenario \in Scenarios, NEW g \in CreateNamed(h) \cup EditNamed(h)
  PROVE  g \in Hub /\ g.ids = h.ids /\ Landed(g.named)
<1>1. \E m \in SUBSET Value : Landed(m) /\ g = [h EXCEPT !.named = m]
  <2>1. CASE g \in CreateNamed(h)
    <3>1. g = [h EXCEPT !.named = Meant(call.add)]
      BY <2>1 DEF CreateNamed
    <3>. QED  BY <3>1, MarksAsMeant
  <2>2. CASE g \in EditNamed(h)
    <3>1. h.named # None /\ g = [h EXCEPT !.named = Edited(h.named)]
      BY <2>2 DEF EditNamed
    <3>2. h.named \in (SUBSET Value) \cup {None}
      BY DEF Hub
    <3>3. h.named \in SUBSET Value
      BY <3>1, <3>2
    <3>. QED  BY <3>1, <3>3, MarksAsMeant
  <2>. QED  BY <2>1, <2>2
<1>2. PICK m \in SUBSET Value : Landed(m) /\ g = [h EXCEPT !.named = m]
  BY <1>1
<1>3. g \in Hub /\ g.ids = h.ids /\ g.named = m
  BY <1>2 DEF Hub
<1>. QED  BY <1>2, <1>3

\* A release that is created is the newest of them.
LEMMA ReleaseFacts ==
  ASSUME NEW h \in Hub, scenario \in Scenarios, NEW g \in CreateRelease(h)
  PROVE  /\ g \in Hub /\ g.ids = h.ids + 1 /\ call.push
         /\ g.releases # <<>>
         /\ g.releases[1] = [id |-> g.ids, ours |-> TRUE, draft |-> call.draft, pre |-> call.pre]
         /\ g.latest = IF call.latest THEN g.ids ELSE h.latest
         /\ g.tag = IF h.tag # None \/ call.draft THEN h.tag ELSE call.head
<1>1. h.ids \in Nat /\ h.releases \in Seq(Release) /\ h.tag \in Sha \cup {None}
      /\ h.latest \in Nat \cup {None}
  BY DEF Hub
<1>2. PICK n \in Nat : n = h.ids + 1
  BY <1>1
<1>3. call.draft \in BOOLEAN /\ call.pre \in BOOLEAN /\ call.head \in Sha
  BY ScenarioFacts DEF Call
<1>4. PICK new \in Release : new = [id |-> n, ours |-> TRUE, draft |-> call.draft, pre |-> call.pre]
  BY <1>2, <1>3 DEF Release
<1>5. <<new>> \in Seq(Release) /\ Len(<<new>>) = 1 /\ <<new>>[1] = new
  OBVIOUS
<1>6. PICK rs \in Seq(Release) : rs = <<new>> \o h.releases
  BY <1>1, <1>5, ConcatProperties
<1>7. rs # <<>> /\ rs[1] = new
  BY <1>1, <1>5, <1>6, ConcatProperties
<1>8. PICK t \in Sha \cup {None} : t = IF h.tag # None \/ call.draft THEN h.tag ELSE call.head
  BY <1>1, <1>3
<1>9. PICK l \in Nat \cup {None} : l = IF call.latest THEN n ELSE h.latest
  BY <1>1
<1>10. g = [h EXCEPT !.releases = rs, !.ids = n, !.tag = t, !.latest = l] /\ call.push
  BY <1>2, <1>4, <1>6, <1>8, <1>9 DEF CreateRelease
<1>11. g \in Hub /\ g.releases = rs /\ g.ids = n /\ g.tag = t /\ g.latest = l
  BY <1>10 DEF Hub
<1>. QED  BY <1>2, <1>4, <1>7, <1>8, <1>9, <1>10, <1>11

\* What other users make of the objects.
LEMMA PullRequestChangeFacts ==
  ASSUME NEW h \in Hub, NEW g \in PullRequestChanges(h)
  PROVE  g \in Hub /\ g.ids = h.ids
<1>1. CASE \E s \in Sha :
             g = [h EXCEPT !.head = s, !.pr = IF @ \in {"queued", "pending"} THEN "open" ELSE @]
  <2>1. PICK s \in Sha :
          g = [h EXCEPT !.head = s, !.pr = IF @ \in {"queued", "pending"} THEN "open" ELSE @]
    BY <1>1
  <2>2. PICK p \in {"open", "merged", "queued", "pending", "auto"} :
          p = IF h.pr \in {"queued", "pending"} THEN "open" ELSE h.pr
    BY DEF Hub
  <2>3. g = [h EXCEPT !.head = s, !.pr = p]
    BY <2>1, <2>2
  <2>. QED  BY <2>3 DEF Hub
<1>2. CASE \E d \in BOOLEAN : g = [h EXCEPT !.draft = d]
  BY <1>2 DEF Hub
<1>3. CASE \E m \in {"merge", "squash"} : g = [h EXCEPT !.pr = "merged", !.method = m]
  BY <1>3 DEF Hub
<1>4. CASE \E m \in {"merge", "squash"} : g = [h EXCEPT !.pr = "auto", !.method = m]
  BY <1>4 DEF Hub
<1>5. CASE g = [h EXCEPT !.dismissed = (effect # None)]
  <2>1. PICK d \in BOOLEAN : d = (effect # None)
    OBVIOUS
  <2>. QED  BY <1>5, <2>1 DEF Hub
<1>. QED  BY <1>1, <1>2, <1>3, <1>4, <1>5 DEF PullRequestChanges

\* Others make, move and delete branches.
LEMMA BranchChangeFacts ==
  ASSUME NEW h \in Hub, NEW g \in BranchChanges(h)
  PROVE  g \in Hub /\ g.ids = h.ids
<1>1. \/ \E s \in Sha, l \in BOOLEAN : g = MoveRef(h, s, l)
      \/ g = [h EXCEPT !.ref = None, !.linked = FALSE]
      \/ \E s \in Sha : g = [h EXCEPT !.base = s]
  BY DEF BranchChanges
<1>2. ASSUME NEW s \in Sha, NEW l \in BOOLEAN
      PROVE  MoveRef(h, s, l) \in Hub /\ MoveRef(h, s, l).ids = h.ids
  BY DEF Hub, MoveRef
<1>3. CASE g \in {MoveRef(h, s, l) : s \in Sha, l \in BOOLEAN}
  <2>. QED  BY <1>2, <1>3
<1>4. CASE g = [h EXCEPT !.ref = None, !.linked = FALSE]
  BY <1>4 DEF Hub
<1>5. CASE \E s \in Sha : g = [h EXCEPT !.base = s]
  BY <1>5 DEF Hub
<1>. QED  BY <1>1, <1>3, <1>4, <1>5

\* Others edit issues, labels and repositories.
LEMMA MetadataChangeFacts ==
  ASSUME NEW h \in Hub, NEW g \in MetadataChanges(h)
  PROVE  g \in Hub /\ g.ids = h.ids
<1>1. CASE \E i \in {"completed", "not_planned", "reopened"} : g = [h EXCEPT !.issue = i]
  BY <1>1 DEF Hub
<1>2. CASE \E m \in SUBSET Value : g = [h EXCEPT !.marks = m]
  BY <1>2 DEF Hub
<1>3. CASE \E m \in (SUBSET Value) \cup {None} : g = [h EXCEPT !.named = m]
  BY <1>3 DEF Hub
<1>4. CASE \E m \in SUBSET Value : g = [h EXCEPT !.made = m]
  BY <1>4 DEF Hub
<1>. QED  BY <1>1, <1>2, <1>3, <1>4 DEF MetadataChanges

\* Others publish and delete releases and move tags; ids are used once.
LEMMA ReleaseChangeFacts ==
  ASSUME NEW h \in Hub, NEW g \in ReleaseChanges(h)
  PROVE  g \in Hub /\ g.ids \in {h.ids, h.ids + 1}
<1>1. h.ids \in Nat /\ h.releases \in Seq(Release) /\ h.latest \in Nat \cup {None}
  BY DEF Hub
<1>2. PICK n \in Nat : n = h.ids + 1
  BY <1>1
<1>3. ASSUME NEW o \in BOOLEAN, NEW d \in BOOLEAN
      PROVE  AddRelease(h, o, d) \in Hub /\ AddRelease(h, o, d).ids = h.ids + 1
  <2>1. PICK new \in Release : new = [id |-> n, ours |-> o, draft |-> d, pre |-> FALSE]
    BY DEF Release
  <2>2. PICK rs \in Seq(Release) : rs = <<new>> \o h.releases
    <3>1. <<new>> \in Seq(Release)
      OBVIOUS
    <3>. QED  BY <1>1, <3>1, ConcatProperties
  <2>3. PICK l \in Nat \cup {None} : l = IF d THEN h.latest ELSE n
    BY <1>1
  <2>4. AddRelease(h, o, d) = [h EXCEPT !.releases = rs, !.ids = n, !.latest = l]
    BY <1>2, <2>1, <2>2, <2>3 DEF AddRelease
  <2>. QED  BY <1>2, <2>4 DEF Hub
<1>4. ASSUME NEW k \in DOMAIN h.releases
      PROVE  DeleteRelease(h, k) \in Hub /\ DeleteRelease(h, k).ids = h.ids
  <2>2. PICK l \in Nat \cup {None} : l = IF h.latest = h.releases[k].id THEN None ELSE h.latest
    BY <1>1
  <2>3. PICK rs \in Seq(Release) : rs = RemoveAt(h.releases, k)
    <3>1. k \in 1 .. Len(h.releases)
      BY <1>1
    <3>2. PICK w : w = h.releases
      OBVIOUS
    <3>3. SubSeq(w, 1, k - 1) \in Seq(Release)
      BY <1>1, <3>1, <3>2, SubSeqProperties
    <3>4. SubSeq(w, k + 1, Len(w)) \in Seq(Release)
      BY <1>1, <3>1, <3>2, SubSeqProperties
    <3>. QED  BY <3>2, <3>3, <3>4, ConcatProperties DEF RemoveAt
  <2>4. DeleteRelease(h, k) = [h EXCEPT !.releases = rs, !.latest = l]
    BY <2>2, <2>3 DEF DeleteRelease
  <2>. QED  BY <2>4 DEF Hub
<1>5. CASE \E t \in Sha \cup {None} : g = [h EXCEPT !.tag = t]
  BY <1>5 DEF Hub
<1>6. \/ \E o \in BOOLEAN, d \in BOOLEAN : g = AddRelease(h, o, d)
      \/ \E k \in DOMAIN h.releases : g = DeleteRelease(h, k)
      \/ \E t \in Sha \cup {None} : g = [h EXCEPT !.tag = t]
  BY DEF ReleaseChanges
<1>. QED  BY <1>3, <1>4, <1>5, <1>6

\* Whatever others change, the objects keep their types and the ids grow.
LEMMA OthersFacts ==
  ASSUME hub \in Hub, NEW g \in Others
  PROVE  g \in Hub /\ g.ids \in {hub.ids, hub.ids + 1}
<1>1. g \in PullRequestChanges(hub) \cup BranchChanges(hub) \cup ReleaseChanges(hub)
            \cup MetadataChanges(hub)
  BY DEF Others
<1>. QED
  BY <1>1, PullRequestChangeFacts, BranchChangeFacts, ReleaseChangeFacts, MetadataChangeFacts

\* The commit of a new branch was read before the write.
LEMMA WantedType ==
  ASSUME StageInv, live, call.tool \in {"branch", "linked_branch"}
  PROVE  Wanted \in Sha
BY ScenarioFacts DEF StageInv, Wanted

\* The mutation of any tool keeps the types, and those with a head respect it.
LEMMA EffectsFacts ==
  ASSUME StageInv, live, NEW g \in Effects
  PROVE  /\ g \in Hub /\ g.ids \in {hub.ids, hub.ids + 1}
         /\ call.tool \in {"merge", "review"} => hub.head = call.head \/ g = hub
<1>1. scenario \in Scenarios /\ hub \in Hub /\ call.tool \in Tools
  BY ScenarioFacts DEF StageInv
<1>2. CASE call.tool = "merge"
  BY <1>1, <1>2, MergeFacts DEF Effects
<1>3. CASE call.tool = "draft"
  BY <1>1, <1>3, DraftFacts DEF Effects
<1>4. CASE call.tool = "review"
  BY <1>1, <1>4, ReviewFacts DEF Effects
<1>5. CASE call.tool = "issue"
  BY <1>1, <1>5, IssueFacts DEF Effects
<1>6. CASE call.tool \in {"branch", "linked_branch"}
  BY <1>1, <1>6, RefFacts, WantedType DEF Effects
<1>7. CASE call.tool = "release"
  BY <1>1, <1>7, ReleaseFacts DEF Effects
<1>8. CASE call.tool = "edit"
  BY <1>1, <1>8, EditFacts DEF Effects
<1>9. CASE call.tool \in {"create", "milestone"}
  BY <1>1, <1>9, CreateFacts DEF Effects
<1>10. CASE call.tool \in {"create_named", "edit_named"}
  BY <1>1, <1>10, NamedFacts DEF Effects
<1>. QED
  BY <1>1, <1>2, <1>3, <1>4, <1>5, <1>6, <1>7, <1>8, <1>9, <1>10 DEF Tools, Unguarded

\* A mutation that meets the objects as the precondition saw them makes what the
\* tool compares.
LEMMA EffectIsMade ==
  ASSUME StageInv, GuardInv, live, effect = None, changes = 0,
         hub' \in Effects, effect'.id = hub.ids + 1, UNCHANGED <<scenario, found>>
  PROVE  Made'
<1>1. scenario \in Scenarios /\ hub \in Hub /\ call.tool \in Tools /\ hub = scenario.hub
  BY ScenarioFacts DEF StageInv, GuardInv
<1>2. Passed /\ call' = call
  BY DEF Passed, call
<1>3. CASE call.tool = "merge"
  <2>1. hub.head = call.head
    BY <1>1, <1>2, <1>3 DEF GuardInv, ByHead
  <2>. QED  BY <1>1, <1>2, <1>3, <2>1, MergeFacts DEF Effects, Made
<1>4. CASE call.tool = "draft"
  <2>1. hub.head = call.head
    BY <1>1, <1>2, <1>4 DEF GuardInv, ByHead
  <2>. QED  BY <1>1, <1>2, <1>4, <2>1, DraftFacts DEF Effects, Made
<1>5. CASE call.tool = "review"
  BY <1>1, <1>2, <1>5, ReviewFacts, ScenarioFacts DEF Effects, Made
<1>6. CASE call.tool = "issue"
  <2>1. IsOpen(hub.issue) # IsOpen(call.issue)
    BY <1>1, <1>2, <1>6 DEF GuardInv
  <2>. QED  BY <1>1, <1>2, <1>6, <2>1, IssueFacts DEF Effects, Made
<1>7. CASE call.tool \in {"branch", "linked_branch"}
  <2>1. Wanted' = Wanted
    BY <1>2 DEF Wanted
  <2>2. hub'.ref = Wanted /\ hub'.linked = (call.tool = "linked_branch")
    BY <1>1, <1>7, RefFacts, WantedType DEF Effects
  <2>. QED  BY <1>2, <1>7, <2>1, <2>2 DEF Made
<1>8. CASE call.tool = "release"
  <2>1. hub.tag \in {None, call.head} /\ call.head # None /\ call.latest \in BOOLEAN
    BY <1>1, <1>2, <1>8, ScenarioFacts, NoneIsNothing DEF GuardInv, Call
  <2>2. /\ hub.latest # hub.ids + 1 /\ hub.ids \in Nat
    BY <1>1, ScenarioFacts, NoneAssumption DEF Hub
  <2>3. hub' \in CreateRelease(hub)
    BY <1>8 DEF Effects
  <2>4. /\ hub'.ids = hub.ids + 1 /\ call.push
        /\ hub'.releases # <<>>
        /\ hub'.releases[1] =
             [id |-> hub'.ids, ours |-> TRUE, draft |-> call.draft, pre |-> call.pre]
        /\ hub'.latest = IF call.latest THEN hub'.ids ELSE hub.latest
        /\ hub'.tag = IF hub.tag # None \/ call.draft THEN hub.tag ELSE call.head
    BY <1>1, <2>3, ReleaseFacts
  <2>5. (hub'.latest = hub'.ids) = call.latest
    BY <2>1, <2>2, <2>4
  <2>6. IF hub'.tag = None THEN call.draft ELSE hub'.tag = call.head
    BY <2>1, <2>4
  <2>7. ReleaseMade'
    BY <1>2, <2>4, <2>5, <2>6 DEF ReleaseMade
  <2>. QED  BY <1>2, <1>8, <2>7 DEF Made
<1>9. CASE call.tool = "edit"
  <2>1. Landed(hub'.marks)
    BY <1>1, <1>9, EditFacts DEF Effects
  <2>2. Landed(hub.marks)'
    BY <1>2, <2>1 DEF Landed, Meant
  <2>. QED  BY <1>2, <1>9, <2>2 DEF Made
<1>10. CASE call.tool \in {"create", "milestone"}
  <2>1. Landed(hub'.made)
    BY <1>1, <1>10, CreateFacts DEF Effects
  <2>2. Landed(hub.made)'
    BY <1>2, <2>1 DEF Landed, Meant
  <2>. QED  BY <1>2, <1>10, <2>2 DEF Made
<1>11. CASE call.tool \in {"create_named", "edit_named"}
  <2>1. Landed(hub'.named)
    BY <1>1, <1>11, NamedFacts DEF Effects
  <2>2. Landed(hub.named)'
    BY <1>2, <2>1 DEF Landed, Meant
  <2>. QED  BY <1>2, <1>11, <2>2 DEF Made
<1>. QED
  BY <1>1, <1>3, <1>4, <1>5, <1>6, <1>7, <1>8, <1>9, <1>10, <1>11 DEF Tools, Unguarded

\* What was made stays made while nobody changes it.
LEMMA MadeStays ==
  ASSUME Made, scenario \in Scenarios, UNCHANGED <<scenario, hub, effect>>,
         call.tool = "linked_branch" => found' = found
  PROVE  Made'
<1>1. call' = call
  BY DEF call
<1>2. ReleaseMade' = ReleaseMade
  BY <1>1 DEF ReleaseMade
<1>3. call.tool \in {"branch", "linked_branch"} => Wanted' = Wanted
  BY <1>1 DEF Wanted
<1>4. /\ Landed(hub.marks)' = Landed(hub.marks)
      /\ Landed(hub.made)' = Landed(hub.made)
      /\ Landed(hub.named)' = Landed(hub.named)
  BY <1>1 DEF Landed, Meant
<1>5. CASE call.tool \in {"merge", "release"}
  BY <1>1, <1>2, <1>5 DEF Made
<1>6. CASE call.tool \in {"draft", "review", "issue"}
  BY <1>1, <1>6 DEF Made
<1>7. CASE call.tool \in {"branch", "linked_branch"}
  BY <1>1, <1>3, <1>7 DEF Made
<1>8. CASE call.tool \in {"edit", "create", "milestone", "create_named", "edit_named"}
  BY <1>1, <1>4, <1>8 DEF Made
<1>. QED  BY <1>5, <1>6, <1>7, <1>8, ScenarioFacts DEF Tools, Unguarded

-----------------------------------------------------------------------------
(* The steps, by what they do to the call. *)

\* What does not move when a call reads.
LEMMA Still ==
  ASSUME Elsewhere
  PROVE  /\ scenario' = scenario /\ completed' = completed /\ known' = known
         /\ hub' = hub /\ live' = live /\ effect' = effect /\ changes' = changes
         /\ garbled' = garbled /\ call' = call
BY DEF Elsewhere, remoteVars, call

\* A read of the precondition leads to another, or to the write.
LEMMA ReadOn ==
  ASSUME ExactInv, pc \in Before, pc' \in Before \ {"resolve"}, UNCHANGED said, Elsewhere,
         smooth' = smooth, page' \in 1 .. MaxListPages,
         pc' \in ReleaseSteps => call.tool = "release",
         call.tool = "linked_branch" /\ pc' \in {"check", "write"} => found' \in Sha,
         pc' = "write" /\ call.tool \in ByHead => hub.head = call.head,
         pc' = "write" /\ call.tool = "issue" => IsOpen(hub.issue) # IsOpen(call.issue),
         call.tool = "release" /\ changes = 0 /\ pc' \in {"list", "again", "write"} =>
           hub.tag \in {None, call.head}
  PROVE  ExactInv'
<1>1. /\ scenario' = scenario /\ completed' = completed /\ known' = known
      /\ hub' = hub /\ live' = live /\ effect' = effect /\ changes' = changes
      /\ garbled' = garbled /\ call' = call
  BY Still
<1>2. /\ effect = None /\ ~live /\ said = None
      /\ pc' \notin {"sent", "readback", "find", "tagged", "latest", "answered"}
  BY DEF ExactInv, TypeOK, StageInv, Before
<1>3. TypeOK'
  BY <1>1, <1>2 DEF ExactInv, TypeOK, Before, Steps
<1>4. StageInv'
  BY <1>1, <1>2 DEF ExactInv, StageInv, Before
<1>5. OutcomeInv' /\ AnswerInv'
  BY <1>1, <1>2, NoneIsNothing DEF ExactInv, OutcomeInv, AnswerInv
<1>6. GuardInv'
  BY <1>1, <1>2 DEF ExactInv, GuardInv, Passed
<1>7. MadeInv' /\ SmoothInv' /\ UndisturbedIsVerified'
  BY <1>1, <1>2, NoneIsNothing DEF MadeInv, SmoothInv, UndisturbedIsVerified
<1>. QED  BY <1>3, <1>4, <1>5, <1>6, <1>7 DEF ExactInv

\* Before the write the call ends without an attempt.
LEMMA StopBefore ==
  ASSUME ExactInv, pc \in Before, Tell("not attempted"), Elsewhere,
         smooth' \in BOOLEAN, page' = page
  PROVE  ExactInv'
<1>1. /\ scenario' = scenario /\ completed' = completed /\ known' = known
      /\ hub' = hub /\ live' = live /\ effect' = effect /\ changes' = changes
      /\ garbled' = garbled /\ call' = call
      /\ pc' = "answered" /\ said' = "not attempted"
  BY Still DEF Tell
<1>2. effect = None /\ ~live
  BY DEF ExactInv, TypeOK, StageInv, Before
<1>3. TypeOK'
  BY <1>1, <1>2, NoneIsNothing DEF ExactInv, TypeOK, Steps
<1>4. StageInv'
  BY <1>1, <1>2 DEF ExactInv, StageInv, Before, ReleaseSteps
<1>5. OutcomeInv' /\ AnswerInv'
  BY <1>1, <1>2 DEF ExactInv, OutcomeInv, AnswerInv
<1>6. GuardInv'
  BY <1>1, <1>2 DEF ExactInv, GuardInv, Passed
<1>7. MadeInv' /\ SmoothInv' /\ UndisturbedIsVerified'
  BY <1>1, <1>2 DEF MadeInv, SmoothInv, UndisturbedIsVerified
<1>. QED  BY <1>3, <1>4, <1>5, <1>6, <1>7 DEF ExactInv

Readback == {"readback", "find", "tagged", "latest"}

\* The call is answered after its write.
LEMMA AnswerAfter ==
  ASSUME ExactInv, pc \in Readback, NEW what, Tell(what), Elsewhere,
         smooth' \in BOOLEAN, smooth' => smooth, UNCHANGED <<page, found>>,
         what \in {"nothing done", "done", "unverified"},
         what = "nothing done" => completed = "no",
         what = "done" =>
           /\ completed = "yes"
           /\ call.tool \in {"create", "milestone", "review"} => known # None
           /\ call.tool = "release" => pc = "latest",
         what \in {"done", "unverified"} /\ smooth' /\ changes = 0 =>
           (what = "unverified" <=> Incomparable)
  PROVE  ExactInv'
<1>1. /\ scenario' = scenario /\ completed' = completed /\ known' = known
      /\ hub' = hub /\ live' = live /\ effect' = effect /\ changes' = changes
      /\ garbled' = garbled /\ call' = call
      /\ pc' = "answered" /\ said' = what /\ found' = found /\ page' = page
  BY Still DEF Tell
<1>2. said = None /\ what # None /\ what # "not attempted"
  BY NoneIsNothing DEF ExactInv, TypeOK, Readback
<1>3. TypeOK'
  BY <1>1, <1>2 DEF ExactInv, TypeOK, Steps, Readback
<1>4. StageInv'
  BY <1>1 DEF ExactInv, StageInv, Before, ReleaseSteps
<1>5. OutcomeInv'
  BY <1>1 DEF ExactInv, OutcomeInv
<1>6. AnswerInv'
  BY <1>1, <1>2 DEF ExactInv, AnswerInv, OutcomeInv
<1>7. GuardInv'
  BY <1>1 DEF ExactInv, GuardInv, Passed
<1>8. MadeInv'
  BY <1>1, MadeStays DEF ExactInv, MadeInv, StageInv
<1>9. SmoothInv'
  BY <1>1, <1>2 DEF ExactInv, SmoothInv, Readback
<1>10. UndisturbedIsVerified'
  BY <1>1 DEF UndisturbedIsVerified, Incomparable
<1>. QED  BY <1>3, <1>4, <1>5, <1>6, <1>7, <1>8, <1>9, <1>10 DEF ExactInv

\* Success means applied; a failure that is neither ambiguous nor a confirmation
\* gh garbled means rejected (_run_once, for gh api and for gh subcommands).
LEMMA AttemptIsTruthful ==
  ASSUME NEW end \in ApiWriteEnds \cup TextWriteEnds
  PROVE  /\ end.fate \in {"applied", "rejected", "open"}
         /\ ~end.verdict.failed => end.fate = "applied"
         /\ end.verdict.failed /\ ~end.verdict.ambiguous /\ ~end.confirmed =>
              end.fate = "rejected"
<1>1. PICK json \in BOOLEAN, r \in WriteReplies : \E f \in Fates(r) : end = WriteEnd(json, r, f)
  BY DEF ApiWriteEnds, TextWriteEnds
<1>2. PICK f \in Fates(r) : end = WriteEnd(json, r, f)
  BY <1>1
<1>3. r \in Reply /\ r.exit \in {"timeout", "zero", "unexpected"}
  BY DEF WriteReplies, Reply
<1>4. QED  BY <1>2, <1>3 DEF WriteEnd, Fates, Verdict, Failure, Ambiguous

\* The tri-state outcome says no more than the verdict allows.
LEMMA CompletedType ==
  ASSUME NEW verdict
  PROVE  /\ WriteCompleted(verdict) \in Tri
         /\ WriteCompleted(verdict) = "yes" => ~verdict.failed
         /\ WriteCompleted(verdict) = "no" => verdict.failed /\ ~verdict.ambiguous
BY DEF WriteCompleted, Tri

\* Every end of a gh process tells the truth about the mutation (GhAttempt).
LEMMA EndFacts ==
  ASSUME NEW end \in Ends
  PROVE  /\ end.fate \in {"applied", "rejected", "open"}
         /\ ~end.verdict.failed => end.fate = "applied"
         /\ end.verdict.failed /\ ~end.verdict.ambiguous /\ ~end.confirmed =>
              end.fate = "rejected"
<1>1. end \in ApiWriteEnds \cup TextWriteEnds \cup MutationErrors
  BY DEF Ends
<1>2. CASE end \in MutationErrors
  <2>1. PICK f \in {"applied", "rejected"} :
          end = [fate |-> f, confirmed |-> FALSE, verdict |-> Failure(FALSE, TRUE, FALSE)]
    BY <1>2 DEF MutationErrors
  <2>2. end.fate = f /\ end.verdict.failed /\ end.verdict.ambiguous
    BY <2>1 DEF Failure
  <2>. QED  BY <2>2
<1>3. CASE end \in ApiWriteEnds \cup TextWriteEnds
  BY <1>3, AttemptIsTruthful
<1>. QED  BY <1>1, <1>2, <1>3

\* The releases on a page, and the one a readback takes.
LEMMA PageType ==
  ASSUME TypeOK, StageInv
  PROVE  /\ ReleasesPage \in Seq(Release)
         /\ page = 1 /\ hub.releases # <<>> =>
              1 \in DOMAIN ReleasesPage /\ ReleasesPage[1] = hub.releases[1]
<1>1. PICK rs \in Seq(Release) : rs = hub.releases
  BY DEF StageInv, Hub
<1>2. page \in Nat /\ page >= 1 /\ ReleasesPerPage \in Nat /\ ReleasesPerPage >= 1
  <2>1. page \in 1 .. MaxListPages
    BY DEF TypeOK
  <2>. QED  BY <2>1, ReleaseAssumption
<1>3. (page - 1) * ReleasesPerPage \in Nat /\ page * ReleasesPerPage \in Nat
  BY <1>2
<1>4. PICK a \in Nat : a = (page - 1) * ReleasesPerPage
  BY <1>3
<1>5. PICK b \in Nat : b = IF page * ReleasesPerPage < Len(rs) THEN page * ReleasesPerPage
                                                               ELSE Len(rs)
  BY <1>3
<1>6. b <= Len(rs)
  BY <1>3, <1>5
<1>7. ReleasesPage = SubSeq(rs, a + 1, b)
  BY <1>1, <1>4, <1>5 DEF ReleasesPage
<1>8. \A i \in a + 1 .. b : rs[i] \in Release
  BY <1>6
<1>9. /\ SubSeq(rs, a + 1, b) \in Seq(Release)
      /\ Len(SubSeq(rs, a + 1, b)) = IF a + 1 <= b THEN b - (a + 1) + 1 ELSE 0
      /\ \A i \in 1 .. b - (a + 1) + 1 : SubSeq(rs, a + 1, b)[i] = rs[(a + 1) + i - 1]
  BY <1>8, SubSeqProperties
<1>10. ASSUME page = 1, rs # <<>>
       PROVE  1 \in DOMAIN ReleasesPage /\ ReleasesPage[1] = rs[1]
  <2>1. a = 0
    BY <1>2, <1>4, <1>10
  <2>2. Len(rs) >= 1 /\ page * ReleasesPerPage >= 1
    BY <1>2, <1>10
  <2>3. b >= 1
    BY <1>3, <1>5, <2>2
  <2>4. Len(ReleasesPage) >= 1
    BY <1>7, <1>9, <2>1, <2>3
  <2>5. 1 \in 1 .. b - (a + 1) + 1
    BY <2>1, <2>3
  <2>6. ReleasesPage[1] = rs[1]
    BY <1>7, <1>9, <2>1, <2>5
  <2>. QED  BY <1>7, <1>9, <2>4, <2>6
<1>. QED  BY <1>1, <1>7, <1>9, <1>10

\* What a readback finds is a release.
LEMMA FirstType ==
  ASSUME TypeOK, StageInv, NEW first \in FirstOurs
  PROVE  first \in Release /\ first.id \in Nat
<1>1. PICK n \in DOMAIN ReleasesPage : first = ReleasesPage[n]
  BY DEF FirstOurs
<1>2. first \in Release
  BY <1>1, PageType
<1>. QED  BY <1>2 DEF Release

\* The newest release, when it is the one of the tag, is the one that is found.
LEMMA NewestIsFirst ==
  ASSUME TypeOK, StageInv, page = 1, hub.releases # <<>>, hub.releases[1].ours
  PROVE  Ours # {} /\ FirstOurs = {hub.releases[1]}
<1>1. 1 \in DOMAIN ReleasesPage /\ ReleasesPage[1] = hub.releases[1] /\ ReleasesPage \in Seq(Release)
  BY PageType
<1>2. DOMAIN ReleasesPage \subseteq Nat
  BY <1>1
<1>3. hub.releases[1] \in Ours
  BY <1>1 DEF Ours, ToSet
<1>4. hub.releases[1] \in FirstOurs
  <2>1. 1 .. 1 - 1 = {}
    OBVIOUS
  <2>. QED  BY <1>1, <2>1 DEF FirstOurs
<1>5. ASSUME NEW first \in FirstOurs
      PROVE  first = hub.releases[1]
  <2>1. PICK n \in DOMAIN ReleasesPage :
          first = ReleasesPage[n] /\ \A l \in 1 .. n - 1 : ~ReleasesPage[l].ours
    BY DEF FirstOurs
  <2>2. n \in Nat /\ n >= 1
    BY <1>1
  <2>3. n = 1
    BY <1>1, <2>1, <2>2
  <2>. QED  BY <1>1, <2>1, <2>3
<1>. QED  BY <1>3, <1>4, <1>5

-----------------------------------------------------------------------------
(* The actions. *)

\* A guarded tool reads what it expects, or it stops.
LEMMA CheckKeepsInv ==
  ASSUME ExactInv, NEW expected, Check("check", expected), call.tool # "release",
         expected => (call.tool \in ByHead => hub.head = call.head),
         expected => (call.tool = "issue" => IsOpen(hub.issue) # IsOpen(call.issue))
  PROVE  ExactInv'
<1>1. pc = "check" /\ Elsewhere /\ page' = page /\ found' = found /\ smooth' = smooth
  BY DEF Check, readVars
<1>2. /\ page \in 1 .. MaxListPages /\ smooth \in BOOLEAN
      /\ call.tool = "linked_branch" => found \in Sha
  BY <1>1 DEF ExactInv, TypeOK, StageInv
<1>3. CASE expected
  <2>1. pc' = "write" /\ said' = said
    BY <1>3 DEF Check, Goto
  <2>. QED  BY <1>1, <1>2, <1>3, <2>1, ReadOn DEF Before, ReleaseSteps
<1>4. CASE ~expected
  <2>1. Tell("not attempted")
    BY <1>4 DEF Check
  <2>. QED  BY <1>1, <1>2, <2>1, StopBefore DEF Before
<1>. QED  BY <1>3, <1>4

\* The preconditions of all tools but the release.
LEMMA PreconditionKeepsInv ==
  ASSUME ExactInv,
         CheckHead \/ CheckCommit \/ ReadBase \/ CheckBase \/ CheckIssue \/ Resolve
  PROVE  ExactInv'
<1>1. CASE CheckHead
  BY <1>1, CheckKeepsInv DEF CheckHead, ByHead
<1>2. CASE CheckCommit
  BY <1>2, CheckKeepsInv DEF CheckCommit, ByHead
<1>3. CASE ReadBase
  <2>1. /\ call.tool = "linked_branch" /\ pc = "base" /\ found' = hub.base
        /\ pc' = "check" /\ said' = said /\ page' = page /\ smooth' = smooth /\ Elsewhere
    BY <1>3 DEF ReadBase, Goto
  <2>2. hub.base \in Sha /\ page \in 1 .. MaxListPages
    BY DEF ExactInv, TypeOK, StageInv, Hub
  <2>. QED  BY <2>1, <2>2, ReadOn DEF Before, ReleaseSteps
<1>4. CASE CheckBase
  BY <1>4, CheckKeepsInv DEF CheckBase, ByHead
<1>5. CASE CheckIssue
  BY <1>5, CheckKeepsInv DEF CheckIssue, ByHead
<1>6. CASE Resolve
  <2>1. /\ pc = "resolve" /\ pc' = "write" /\ said' = said
        /\ page' = page /\ found' = found /\ smooth' = smooth /\ Elsewhere
    BY <1>6 DEF Resolve, Goto, readVars
  <2>2. page \in 1 .. MaxListPages /\ call.tool \in {"edit", "create"}
    BY <2>1 DEF ExactInv, TypeOK, StageInv
  <2>. QED  BY <2>1, <2>2, ReadOn DEF Before, ReleaseSteps, ByHead
<1>. QED  BY <1>1, <1>2, <1>3, <1>4, <1>5, <1>6

\* The precondition of a release, read after read.
LEMMA GoKeepsInv ==
  ASSUME ExactInv, NEW step, NEW expected, pc \in ReleaseSteps \cap Before, Go(step, expected),
         expected => step \in {"tag", "list", "again", "write"},
         expected => (changes = 0 /\ step \in {"list", "again", "write"} =>
                        hub.tag \in {None, call.head})
  PROVE  ExactInv'
<1>1. /\ Elsewhere /\ page' = page /\ found' = found /\ smooth' = smooth
      /\ pc \in Before
  BY DEF Go, readVars
<1>2. page \in 1 .. MaxListPages /\ smooth \in BOOLEAN /\ call.tool = "release"
  BY DEF ExactInv, TypeOK, StageInv
<1>3. CASE expected
  <2>1. pc' = step /\ said' = said
    BY <1>3 DEF Go, Goto
  <2>. QED  BY <1>1, <1>2, <1>3, <2>1, ReadOn DEF Before, ReleaseSteps, ByHead
<1>4. CASE ~expected
  <2>1. Tell("not attempted")
    BY <1>4 DEF Go
  <2>. QED  BY <1>1, <1>2, <2>1, StopBefore DEF Before
<1>. QED  BY <1>3, <1>4

\* The tag was read, and nobody has moved it.
LEMMA TagStands ==
  ASSUME ExactInv, pc \in {"list", "again"}, changes = 0
  PROVE  hub.tag \in {None, call.head}
<1>1. call.tool = "release" /\ effect = None
  BY DEF ExactInv, StageInv, ReleaseSteps, Before
<1>. QED  BY <1>1 DEF ExactInv, GuardInv

\* The target, the tag, and the target again.
LEMMA ReleasePreconditionKeepsInv ==
  ASSUME ExactInv, ReadTarget \/ ReadTag \/ ReadTargetAgain
  PROVE  ExactInv'
<1>1. CASE ReadTarget
  BY <1>1, GoKeepsInv DEF ReadTarget, ReleaseSteps, Before
<1>2. CASE ReadTag
  BY <1>2, GoKeepsInv DEF ReadTag, ReleaseSteps, Before
<1>3. CASE ReadTargetAgain
  BY <1>3, GoKeepsInv, TagStands DEF ReadTargetAgain, ReleaseSteps, Before
<1>. QED  BY <1>1, <1>2, <1>3

\* The pages of the releases before the write.
LEMMA ListKeepsInv ==
  ASSUME ExactInv, ListReleases
  PROVE  ExactInv'
<1>1. pc = "list" /\ pc \in ReleaseSteps \cap Before /\ call.push \in BOOLEAN
      /\ call.tool = "release" /\ page \in 1 .. MaxListPages /\ MaxListPages \in Nat
  <2>1. pc = "list"
    BY DEF ListReleases
  <2>2. pc \in ReleaseSteps \cap Before
    BY <2>1 DEF ReleaseSteps, Before
  <2>3. call.tool = "release" /\ page \in 1 .. MaxListPages
    BY <2>2 DEF ExactInv, StageInv, TypeOK
  <2>4. call.push \in BOOLEAN
    BY ScenarioFacts DEF ExactInv, StageInv, Call
  <2>. QED  BY <2>1, <2>2, <2>3, <2>4, ReleaseAssumption
<1>2. CASE Go("write", FALSE)
  BY <1>1, <1>2, GoKeepsInv
<1>3. CASE Go("again", TRUE)
  BY <1>1, <1>3, GoKeepsInv, TagStands
<1>4. CASE NextPage /\ page # MaxListPages
  <2>1. /\ page' = page + 1 /\ pc' = pc /\ said' = said /\ found' = found
        /\ smooth' = smooth /\ Elsewhere
    BY <1>4 DEF NextPage
  <2>2. page + 1 \in 1 .. MaxListPages
    BY <1>1, <1>4
  <2>3. smooth \in BOOLEAN
    BY DEF ExactInv, TypeOK
  <2>. QED  BY <1>1, <2>1, <2>2, <2>3, TagStands, ReadOn DEF Before, ByHead
<1>5. Go("write", FALSE) \/ Go("again", TRUE) \/ (NextPage /\ page # MaxListPages)
  BY <1>1 DEF ListReleases
<1>. QED  BY <1>2, <1>3, <1>4, <1>5

\* A request that fails before the write.
LEMMA FailBeforeKeepsInv ==
  ASSUME ExactInv, FailBefore
  PROVE  ExactInv'
<1>1. pc \in Before
  BY DEF FailBefore, Before
<1>. QED  BY <1>1, StopBefore DEF FailBefore, readVars

-----------------------------------------------------------------------------
(* The write, and what GitHub and other users make of it. *)

\* Only a release is searched for.
LEMMA FirstReadStep ==
  ASSUME call.tool \in Tools
  PROVE  /\ FirstRead[call.tool] \in {"find", "readback"}
         /\ FirstRead[call.tool] = "find" => call.tool = "release"
BY DEF FirstRead

\* The mutation goes out.
LEMMA SendKeepsInv ==
  ASSUME ExactInv, SendWrite
  PROVE  ExactInv'
<1>1. /\ pc = "write" /\ pc' = "sent" /\ said' = said /\ live'
      /\ live' = TRUE
      /\ scenario' = scenario /\ page' = page /\ found' = found /\ completed' = completed
      /\ known' = known /\ hub' = hub /\ effect' = effect /\ garbled' = garbled
      /\ smooth' = smooth /\ changes' = changes /\ call' = call
  BY DEF SendWrite, Goto, readVars, call
<1>2. effect = None /\ said = None /\ completed = "unknown" /\ known = None /\ Passed
  BY <1>1 DEF ExactInv, TypeOK, StageInv, Before, Passed
<1>3. TypeOK'
  BY <1>1, <1>2 DEF ExactInv, TypeOK, Steps
<1>4. StageInv'
  BY <1>1, <1>2 DEF ExactInv, StageInv, Before, ReleaseSteps
<1>5. OutcomeInv' /\ AnswerInv'
  BY <1>1, <1>2, NoneIsNothing DEF OutcomeInv, AnswerInv
<1>6. GuardInv'
  BY <1>1, <1>2 DEF ExactInv, GuardInv
<1>7. MadeInv' /\ SmoothInv' /\ UndisturbedIsVerified'
  BY <1>1, <1>2, NoneIsNothing DEF MadeInv, SmoothInv, UndisturbedIsVerified
<1>. QED  BY <1>3, <1>4, <1>5, <1>6, <1>7 DEF ExactInv

\* The governor refuses it: it never goes out.
LEMMA RefuseKeepsInv ==
  ASSUME ExactInv, RefuseWrite
  PROVE  ExactInv'
<1>1. /\ pc = "write" /\ pc' = FirstRead[call.tool] /\ said' = said
      /\ completed' = "no" /\ smooth' = FALSE /\ page' = 1
      /\ scenario' = scenario /\ found' = found /\ known' = known /\ hub' = hub /\ live' = live
      /\ effect' = effect /\ garbled' = garbled /\ changes' = changes /\ call' = call
  BY DEF RefuseWrite, Goto, remoteVars, call
<1>2. /\ effect = None /\ said = None /\ known = None /\ ~live /\ Passed
      /\ MaxListPages \in Nat \ {0}
  BY <1>1, ReleaseAssumption DEF ExactInv, TypeOK, StageInv, Before, Passed
<1>3. pc' \in {"find", "readback"} /\ (pc' = "find" => call.tool = "release")
  BY <1>1, FirstReadStep, ScenarioFacts DEF ExactInv, StageInv
<1>4. TypeOK'
  <2>1. page' \in 1 .. MaxListPages
    BY <1>1, <1>2
  <2>. QED  BY <1>1, <1>2, <1>3, <2>1 DEF ExactInv, TypeOK, Steps, Tri
<1>5. StageInv'
  BY <1>1, <1>2, <1>3 DEF ExactInv, StageInv, Before, ReleaseSteps
<1>6. OutcomeInv' /\ AnswerInv'
  BY <1>1, <1>2, <1>3, NoneIsNothing DEF OutcomeInv, AnswerInv
<1>7. GuardInv'
  BY <1>1, <1>2, <1>3 DEF ExactInv, GuardInv, Passed
<1>8. MadeInv' /\ SmoothInv' /\ UndisturbedIsVerified'
  BY <1>1, <1>2 DEF MadeInv, SmoothInv, UndisturbedIsVerified
<1>. QED  BY <1>4, <1>5, <1>6, <1>7, <1>8 DEF ExactInv

\* The gh process ends: the outcome says no more than what is known.
LEMMA FinishKeepsInv ==
  ASSUME ExactInv, FinishWrite
  PROVE  ExactInv'
<1>1. /\ pc = "sent" /\ pc' = FirstRead[call.tool] /\ said' = said /\ page' = 1
      /\ scenario' = scenario /\ found' = found /\ hub' = hub /\ effect' = effect
      /\ changes' = changes /\ call' = call
  BY DEF FinishWrite, Goto, call
<1>2. PICK end \in Ends :
        /\ end.fate = "applied" <=> ~live
        /\ live' = (live /\ end.fate # "rejected")
        /\ completed' = WriteCompleted(end.verdict)
        /\ garbled' = (end.confirmed /\ end.verdict.failed)
        /\ \/ known' = (IF end.verdict.failed THEN None ELSE effect.id)
              /\ smooth' = (smooth /\ ~end.verdict.failed)
           \/ call.tool \in Identified /\ known' = None /\ smooth' = FALSE
  BY DEF FinishWrite
<1>3. /\ said = None /\ (live <=> effect = None) /\ MaxListPages \in Nat \ {0}
      /\ live \in BOOLEAN /\ smooth \in BOOLEAN /\ effect \in Trace \cup {None}
  BY <1>1, ReleaseAssumption DEF ExactInv, TypeOK, StageInv
<1>4. pc' \in {"find", "readback"} /\ (pc' = "find" => call.tool = "release")
  BY <1>1, FirstReadStep, ScenarioFacts DEF ExactInv, StageInv
<1>5. /\ end.fate \in {"applied", "rejected", "open"}
      /\ ~end.verdict.failed => end.fate = "applied"
      /\ end.verdict.failed /\ ~end.verdict.ambiguous /\ ~end.confirmed => end.fate = "rejected"
  BY EndFacts
<1>6. /\ completed' \in Tri
      /\ completed' = "yes" => ~end.verdict.failed
      /\ completed' = "no" => end.verdict.failed /\ ~end.verdict.ambiguous
      /\ ~end.verdict.failed => completed' = "yes"
  BY <1>2, CompletedType DEF WriteCompleted
<1>7. live' \in BOOLEAN /\ garbled' \in BOOLEAN /\ smooth' \in BOOLEAN /\ (live' => live)
  BY <1>2, <1>3
<1>8. completed' = "yes" => effect # None
  BY <1>2, <1>3, <1>5, <1>6
<1>9. known' # None => effect # None /\ known' = effect.id /\ completed' = "yes"
  BY <1>2, <1>3, <1>5, <1>6
<1>10. completed' = "no" /\ ~garbled' => effect = None /\ ~live'
  BY <1>2, <1>3, <1>5, <1>6
<1>11. smooth' => smooth /\ completed' = "yes" /\ known' = effect.id
  BY <1>2, <1>3, <1>6
<1>12. effect # None => effect.id # None
  BY <1>3, NoneAssumption DEF Trace
<1>13. TypeOK'
  <2>1. page' \in 1 .. MaxListPages
    BY <1>1, <1>3
  <2>. QED  BY <1>1, <1>3, <1>4, <1>6, <1>7, <2>1 DEF ExactInv, TypeOK, Steps
<1>14. StageInv'
  BY <1>1, <1>4, <1>7 DEF ExactInv, StageInv, Before, ReleaseSteps
<1>15. OutcomeInv'
  BY <1>1, <1>4, <1>8, <1>9, <1>10 DEF ExactInv, OutcomeInv
<1>16. AnswerInv'
  BY <1>1, <1>3, NoneIsNothing DEF AnswerInv
<1>17. GuardInv'
  BY <1>1, <1>4, <1>7 DEF ExactInv, GuardInv, Passed
<1>18. MadeInv'
  BY <1>1, MadeStays DEF ExactInv, MadeInv, StageInv
<1>19. SmoothInv'
  BY <1>1, <1>4, <1>8, <1>11, <1>12 DEF SmoothInv
<1>20. UndisturbedIsVerified'
  BY <1>1, <1>3, NoneIsNothing DEF UndisturbedIsVerified
<1>. QED  BY <1>13, <1>14, <1>15, <1>16, <1>17, <1>18, <1>19, <1>20 DEF ExactInv

\* GitHub carries the mutation out: nothing that was said so far depends on it.
LEMMA ApplyKeepsInv ==
  ASSUME ExactInv, live, Apply(Effects, hub.ids + 1)
  PROVE  ExactInv'
<1>1. /\ hub' \in Effects /\ live' = FALSE
      /\ effect' = [head |-> hub.head, id |-> hub.ids + 1, changed |-> hub' # hub]
      /\ scenario' = scenario /\ pc' = pc /\ page' = page /\ found' = found /\ tagged' = tagged
      /\ completed' = completed /\ known' = known /\ said' = said /\ garbled' = garbled
      /\ smooth' = smooth /\ changes' = changes /\ call' = call
  BY DEF Apply, readVars, call
<1>2. /\ effect = None /\ pc \notin Before /\ hub \in Hub /\ hub.ids \in Nat /\ hub.head \in Sha
  BY DEF ExactInv, TypeOK, StageInv, Before, Hub
<1>3. /\ completed # "yes" /\ known = None /\ ~(completed = "no" /\ ~garbled)
      /\ said # "not attempted"
      /\ ~(smooth /\ (pc \in Readback \/ said = "unverified")) /\ said # "done"
  BY <1>2 DEF ExactInv, OutcomeInv, AnswerInv, SmoothInv, Readback
<1>4. /\ hub' \in Hub /\ hub'.ids \in {hub.ids, hub.ids + 1}
      /\ call.tool \in {"merge", "review"} => hub.head = call.head \/ hub' = hub
  BY <1>1, EffectsFacts DEF ExactInv
<1>5. PICK c \in BOOLEAN : c = (hub' # hub)
  OBVIOUS
<1>6. PICK n \in Nat : n = hub.ids + 1
  BY <1>2
<1>7. PICK w \in Sha : w = hub.head
  BY <1>2
<1>8. /\ effect' = [head |-> w, id |-> n, changed |-> c]
  BY <1>1, <1>5, <1>6, <1>7
<1>9. /\ effect' \in Trace /\ effect'.id = n /\ effect'.head = w /\ effect'.changed = c
  BY <1>8 DEF Trace
<1>10. effect' # None
  BY <1>9, NoneIsNothing
<1>11. TypeOK'
  <2>1. scenario.hub.ids \in Nat
    BY ScenarioFacts DEF ExactInv, StageInv, Hub
  <2>2. hub'.ids >= scenario.hub.ids
    <3>1. hub.ids >= scenario.hub.ids
      BY DEF ExactInv, TypeOK
    <3>2. PICK i \in Nat : i = hub.ids
      BY <1>2
    <3>3. PICK j \in Nat : j = scenario.hub.ids
      BY <2>1
    <3>4. hub'.ids \in {i, i + 1} /\ i >= j
      BY <1>4, <3>1, <3>2, <3>3
    <3>. QED  BY <3>3, <3>4
  <2>. QED  BY <1>1, <2>2 DEF ExactInv, TypeOK
<1>12. StageInv'
  BY <1>1, <1>2, <1>4, <1>9, <1>10 DEF ExactInv, StageInv
<1>13. OutcomeInv'
  BY <1>1, <1>3, <1>4, <1>5, <1>7, <1>9 DEF ExactInv, OutcomeInv
<1>14. AnswerInv'
  BY <1>1, <1>3 DEF ExactInv, AnswerInv
<1>15. GuardInv'
  <2>1. Passed
    BY DEF Passed
  <2>. QED  BY <1>1, <1>10, <2>1 DEF ExactInv, GuardInv
<1>16. MadeInv'
  BY <1>1, <1>2, <1>6, <1>9, EffectIsMade DEF ExactInv, MadeInv
<1>17. SmoothInv' /\ UndisturbedIsVerified'
  BY <1>1, <1>3 DEF ExactInv, SmoothInv, UndisturbedIsVerified, Incomparable, Readback
<1>. QED  BY <1>11, <1>12, <1>13, <1>14, <1>15, <1>16, <1>17 DEF ExactInv

\* Other users do not touch what the call holds.
LEMMA ChangeKeepsInv ==
  ASSUME ExactInv, Change(Others)
  PROVE  ExactInv'
<1>1. /\ changes < scenario.changes /\ hub' \in Others /\ changes' = changes + 1
      /\ scenario' = scenario /\ pc' = pc /\ page' = page /\ found' = found /\ tagged' = tagged
      /\ completed' = completed /\ known' = known /\ said' = said /\ garbled' = garbled
      /\ smooth' = smooth /\ live' = live /\ effect' = effect /\ call' = call
  BY DEF Change, readVars, call
<1>2. hub \in Hub /\ hub.ids \in Nat /\ scenario.hub.ids \in Nat
  BY ScenarioFacts DEF ExactInv, StageInv, Hub
<1>3. hub' \in Hub /\ hub'.ids \in {hub.ids, hub.ids + 1}
  BY <1>1, <1>2, OthersFacts
<1>4. changes \in 0 .. scenario.changes /\ scenario.changes \in Nat
  BY ScenarioFacts DEF ExactInv, TypeOK, StageInv
<1>5. changes' \in 0 .. scenario'.changes /\ changes' # 0
  BY <1>1, <1>4
<1>6. TypeOK'
  <2>1. hub'.ids >= scenario.hub.ids
    <3>1. hub.ids >= scenario.hub.ids
      BY DEF ExactInv, TypeOK
    <3>2. PICK i \in Nat : i = hub.ids
      BY <1>2
    <3>3. PICK j \in Nat : j = scenario.hub.ids
      BY <1>2
    <3>4. hub'.ids \in {i, i + 1} /\ i >= j
      BY <1>3, <3>1, <3>2, <3>3
    <3>. QED  BY <3>3, <3>4
  <2>. QED  BY <1>1, <1>5, <2>1 DEF ExactInv, TypeOK
<1>7. StageInv'
  BY <1>1, <1>3 DEF ExactInv, StageInv
<1>8. OutcomeInv' /\ AnswerInv'
  BY <1>1 DEF ExactInv, OutcomeInv, AnswerInv
<1>9. GuardInv' /\ MadeInv' /\ UndisturbedIsVerified'
  BY <1>5 DEF GuardInv, MadeInv, UndisturbedIsVerified
<1>10. SmoothInv'
  BY <1>1, <1>5 DEF ExactInv, SmoothInv
<1>. QED  BY <1>6, <1>7, <1>8, <1>9, <1>10 DEF ExactInv

-----------------------------------------------------------------------------
(* After the write. *)

\* A readback without failures finds a write that was applied, and what it made.
LEMMA SmoothReadback ==
  ASSUME ExactInv, pc \in Readback, smooth
  PROVE  /\ completed = "yes" /\ known # None /\ effect # None /\ known = effect.id
         /\ changes = 0 => Made
BY DEF ExactInv, SmoothInv, OutcomeInv, MadeInv, Readback

\* The readback compares what it finds.
LEMMA VerdictKeepsInv ==
  ASSUME ExactInv, NEW matches, Answer(Verdict3(matches)), call.tool # "release",
         call.tool \in {"create", "milestone", "review"} => known # None,
         changes = 0 /\ Made => (matches <=> ~Incomparable)
  PROVE  ExactInv'
<1>1. /\ pc = "readback" /\ pc \in Readback /\ Tell(Verdict3(matches)) /\ Elsewhere
      /\ page' = page /\ found' = found /\ smooth' = smooth
  BY DEF Answer, readVars, Readback
<1>2. smooth \in BOOLEAN
  BY DEF ExactInv, TypeOK
<1>3. CASE completed = "yes" /\ matches
  <2>1. Tell("done")
    BY <1>1, <1>3 DEF Verdict3
  <2>2. smooth /\ changes = 0 => ~Incomparable
    BY <1>1, <1>3, SmoothReadback
  <2>. QED  BY <1>1, <1>2, <1>3, <2>1, <2>2, AnswerAfter
<1>4. CASE ~(completed = "yes" /\ matches)
  <2>1. Tell("unverified")
    BY <1>1, <1>4 DEF Verdict3
  <2>2. smooth /\ changes = 0 => Incomparable
    BY <1>1, <1>4, SmoothReadback
  <2>. QED  BY <1>1, <1>2, <2>1, <2>2, AnswerAfter
<1>. QED  BY <1>3, <1>4

\* One that was found as asked for before it was written, or not at all.
LEMMA OtherAnswerKeepsInv ==
  ASSUME ExactInv, NEW what, Answer(what),
         \/ what = "nothing done" /\ completed = "no"
         \/ what = "unverified" /\ known = None
  PROVE  ExactInv'
<1>1. /\ pc \in Readback /\ Tell(what) /\ Elsewhere
      /\ page' = page /\ found' = found /\ smooth' = smooth
  BY DEF Answer, readVars, Readback
<1>2. smooth \in BOOLEAN
  BY DEF ExactInv, TypeOK
<1>3. what = "unverified" => ~smooth
  BY <1>1, SmoothReadback
<1>. QED  BY <1>1, <1>2, <1>3, AnswerAfter

\* The readbacks of all tools but the release.
LEMMA ReadbackKeepsInv ==
  ASSUME ExactInv,
         \/ ReadMerge \/ ReadDraft \/ ReadReview \/ ReadBranch \/ ReadLinkedBranch
         \/ ReadIssue \/ ReadEdit \/ ReadCreated \/ ReadNamed
  PROVE  ExactInv'
<1>0. scenario \in Scenarios /\ hub \in Hub
  BY DEF ExactInv, StageInv
<1>u. call.tool \notin {"release", "merge"} \cup Unguarded => ~Incomparable
  BY DEF Incomparable
<1>1. CASE ReadMerge
  <2>1. Made => (MergeMatches <=> ~Incomparable)
    BY <1>0, <1>1 DEF ReadMerge, Made, MergeMatches, Incomparable, Hub, Unguarded
  <2>. QED  BY <1>1, <2>1, VerdictKeepsInv DEF ReadMerge
<1>2. CASE ReadDraft
  BY <1>2, <1>u, VerdictKeepsInv DEF ReadDraft, Made, Unguarded
<1>3. CASE ReadReview
  <2>1. CASE known = None
    BY <1>3, <2>1, OtherAnswerKeepsInv DEF ReadReview
  <2>2. CASE known # None
    BY <1>3, <1>u, <2>2, VerdictKeepsInv DEF ReadReview, Made, Unguarded
  <2>. QED  BY <2>1, <2>2
<1>4. CASE ReadBranch
  <2>1. CASE completed = "no"
    BY <1>4, <2>1, OtherAnswerKeepsInv DEF ReadBranch
  <2>2. CASE completed # "no"
    BY <1>4, <1>u, <2>2, VerdictKeepsInv DEF ReadBranch, Made, Unguarded
  <2>. QED  BY <2>1, <2>2
<1>5. CASE ReadLinkedBranch
  <2> DEFINE matches == hub.linked /\ hub.ref = Wanted
  <2>1. CASE completed = "no" /\ matches
    BY <1>5, <2>1, OtherAnswerKeepsInv DEF ReadLinkedBranch
  <2>2. CASE ~(completed = "no" /\ matches)
    BY <1>5, <1>u, <2>2, VerdictKeepsInv DEF ReadLinkedBranch, Made, Unguarded
  <2>. QED  BY <2>1, <2>2
<1>6. CASE ReadIssue
  BY <1>6, <1>u, VerdictKeepsInv DEF ReadIssue, Made, Unguarded
<1>7. CASE ReadEdit
  <2>1. Made => (Marked(hub.marks) <=> ~Incomparable)
    BY <1>0, <1>7, LandedIsCompared DEF ReadEdit, Made, Unguarded
  <2>. QED  BY <1>7, <2>1, VerdictKeepsInv DEF ReadEdit
<1>8. CASE ReadCreated
  <2>1. CASE known = None
    BY <1>8, <2>1, OtherAnswerKeepsInv DEF ReadCreated
  <2>2. CASE known # None
    <3>1. Made => (Marked(hub.made) <=> ~Incomparable)
      BY <1>0, <1>8, LandedIsCompared DEF ReadCreated, Made, Unguarded
    <3>. QED  BY <1>8, <2>2, <3>1, VerdictKeepsInv DEF ReadCreated
  <2>. QED  BY <2>1, <2>2
<1>9. CASE ReadNamed
  <2>1. Made => (Marked(hub.named) <=> ~Incomparable)
    BY <1>0, <1>9, LandedIsCompared DEF ReadNamed, Made, Unguarded
  <2>. QED  BY <1>9, <2>1, VerdictKeepsInv DEF ReadNamed
<1>. QED  BY <1>1, <1>2, <1>3, <1>4, <1>5, <1>6, <1>7, <1>8, <1>9

\* A request of the readback fails.
LEMMA FailReadbackKeepsInv ==
  ASSUME ExactInv, FailReadback
  PROVE  ExactInv'
<1>1. pc \in Readback
  BY DEF FailReadback, Readback
<1>. QED  BY <1>1, AnswerAfter DEF FailReadback, readVars

\* The readback of a release goes on.
LEMMA ReadbackOn ==
  ASSUME ExactInv, pc \in {"find", "tagged"}, pc' \in {"find", "tagged", "latest"},
         UNCHANGED said, Elsewhere, smooth' = smooth, page' \in 1 .. MaxListPages,
         pc' \in {"tagged", "latest"} =>
           /\ found' \in Release
           /\ known # None => found'.id = known
           /\ smooth /\ changes = 0 => found' = hub.releases[1],
         pc' = "latest" => tagged' # None /\ tagged' = hub.tag,
         pc' = "find" /\ smooth /\ changes = 0 => page' = 1
  PROVE  ExactInv'
<1>1. /\ scenario' = scenario /\ completed' = completed /\ known' = known
      /\ hub' = hub /\ live' = live /\ effect' = effect /\ changes' = changes
      /\ garbled' = garbled /\ call' = call
  BY Still
<1>2. said = None /\ call.tool = "release"
  BY DEF ExactInv, TypeOK, StageInv, ReleaseSteps
<1>3. TypeOK'
  BY <1>1, <1>2, NoneIsNothing DEF ExactInv, TypeOK, Steps
<1>4. StageInv'
  BY <1>1, <1>2 DEF ExactInv, StageInv, Before
<1>5. OutcomeInv'
  BY <1>1 DEF ExactInv, OutcomeInv
<1>6. AnswerInv'
  BY <1>1, <1>2, NoneIsNothing DEF AnswerInv
<1>7. GuardInv'
  BY <1>1 DEF ExactInv, GuardInv, Passed
<1>8. MadeInv'
  BY <1>1, <1>2, MadeStays DEF ExactInv, MadeInv, StageInv
<1>9. SmoothInv'
  BY <1>1, <1>2, NoneIsNothing DEF ExactInv, SmoothInv
<1>10. UndisturbedIsVerified'
  BY <1>1, <1>2, NoneIsNothing DEF UndisturbedIsVerified
<1>. QED  BY <1>3, <1>4, <1>5, <1>6, <1>7, <1>8, <1>9, <1>10 DEF ExactInv

\* Undisturbed, it finds the release that was made on the first page.
LEMMA UndisturbedFind ==
  ASSUME ExactInv, pc = "find", smooth, changes = 0
  PROVE  /\ Ours # {} /\ FirstOurs = {hub.releases[1]}
         /\ call.push /\ known # None /\ hub.releases[1].id = known
<1>1. known # None /\ known = effect.id /\ Made /\ page = 1 /\ call.tool = "release"
  BY SmoothReadback DEF ExactInv, StageInv, SmoothInv, Readback, ReleaseSteps
<1>2. ReleaseMade
  BY <1>1 DEF Made
<1>3. /\ call.push /\ hub.releases # <<>> /\ hub.releases[1].ours
      /\ hub.releases[1].id = hub.ids /\ effect.id = hub.ids
  BY <1>2 DEF ReleaseMade
<1>. QED  BY <1>1, <1>3, NewestIsFirst DEF ExactInv

\* The pages of the releases after the write.
LEMMA FindKeepsInv ==
  ASSUME ExactInv, FindRelease
  PROVE  ExactInv'
<1>1. pc = "find" /\ page \in 1 .. MaxListPages /\ MaxListPages \in Nat /\ smooth \in BOOLEAN
  BY ReleaseAssumption DEF FindRelease, ExactInv, TypeOK
<1>2. CASE Ours = {}
  <2>1. page < MaxListPages /\ NextPage
    BY <1>2 DEF FindRelease
  <2>2. /\ page' = page + 1 /\ pc' = pc /\ said' = said /\ found' = found
        /\ smooth' = smooth /\ Elsewhere
    BY <2>1 DEF NextPage
  <2>3. page' \in 1 .. MaxListPages
    BY <1>1, <2>1, <2>2
  <2>4. ~(smooth /\ changes = 0)
    BY <1>1, <1>2, UndisturbedFind
  <2>. QED  BY <1>1, <2>2, <2>3, <2>4, ReadbackOn
<1>3. CASE Ours # {}
  <2>1. PICK first \in FirstOurs :
          /\ known \in {None, first.id} /\ Goto("tagged") /\ found' = first
          /\ UNCHANGED <<page, tagged, smooth>> /\ Elsewhere
    BY <1>3 DEF FindRelease
  <2>2. first \in Release
    BY FirstType DEF ExactInv
  <2>3. smooth /\ changes = 0 => first = hub.releases[1]
    BY <1>1, UndisturbedFind
  <2>4. pc' = "tagged" /\ said' = said
    BY <2>1 DEF Goto
  <2>. QED  BY <1>1, <2>1, <2>2, <2>3, <2>4, ReadbackOn
<1>. QED  BY <1>2, <1>3

\* No release is found, or another.
LEMMA NotFoundKeepsInv ==
  ASSUME ExactInv, NotFound
  PROVE  ExactInv'
<1>1. /\ pc = "find" /\ pc \in Readback /\ Tell("unverified") /\ Elsewhere
      /\ page' = page /\ found' = found /\ smooth' = smooth
      /\ \/ ~call.push
         \/ Ours = {}
         \/ \E first \in FirstOurs : known \notin {None, first.id}
  BY DEF NotFound, readVars, Readback
<1>2. smooth \in BOOLEAN
  BY DEF ExactInv, TypeOK
<1>3. ~(smooth /\ changes = 0)
  BY <1>1, UndisturbedFind
<1>. QED  BY <1>1, <1>2, <1>3, AnswerAfter

\* The tag of the release that was found.
LEMMA TaggedKeepsInv ==
  ASSUME ExactInv, ReadTagged
  PROVE  ExactInv'
<1>1. /\ pc = "tagged" /\ pc \in Readback /\ Elsewhere /\ tagged' = hub.tag
      /\ page' = page /\ found' = found /\ smooth' = smooth
  BY DEF ReadTagged, Readback
<1>2. /\ smooth \in BOOLEAN /\ page \in 1 .. MaxListPages /\ call.tool = "release"
      /\ found \in Release
      /\ known # None => found.id = known
      /\ smooth /\ changes = 0 => found = hub.releases[1]
  BY <1>1 DEF ExactInv, TypeOK, StageInv, OutcomeInv, SmoothInv, ReleaseSteps
<1>3. CASE hub.tag = None
  <2>1. Tell("unverified")
    BY <1>3 DEF ReadTagged
  <2>2. smooth /\ changes = 0 => Incomparable
    BY <1>1, <1>2, <1>3, SmoothReadback DEF Made, ReleaseMade, Incomparable
  <2>. QED  BY <1>1, <1>2, <1>3, <2>1, <2>2, AnswerAfter
<1>4. CASE hub.tag # None
  <2>1. pc' = "latest" /\ said' = said
    BY <1>4 DEF ReadTagged, Goto
  <2>. QED  BY <1>1, <1>2, <1>4, <2>1, ReadbackOn
<1>. QED  BY <1>3, <1>4

\* The latest release, and the verdict.
LEMMA LatestKeepsInv ==
  ASSUME ExactInv, ReadLatest
  PROVE  ExactInv'
<1> DEFINE matches == /\ tagged = call.head
                      /\ found.draft = call.draft /\ found.pre = call.pre
                      /\ (hub.latest = found.id) = call.latest
<1>1. /\ pc = "latest" /\ pc \in Readback /\ Elsewhere /\ Tell(Verdict3(matches))
      /\ page' = page /\ found' = found /\ smooth' = smooth
  BY DEF ReadLatest, readVars, Readback
<1>2. smooth \in BOOLEAN /\ call.tool = "release" /\ tagged # None
  BY <1>1 DEF ExactInv, TypeOK, StageInv, ReleaseSteps
<1>3. smooth /\ changes = 0 => completed = "yes" /\ matches
  <2>1. SUFFICES ASSUME smooth, changes = 0
                 PROVE  completed = "yes" /\ matches
    OBVIOUS
  <2>2. completed = "yes" /\ ReleaseMade
    BY <1>1, <1>2, <2>1, SmoothReadback DEF Made
  <2>3. found = hub.releases[1] /\ tagged = hub.tag
    BY <1>1, <2>1 DEF ExactInv, SmoothInv
  <2>4. found.draft = call.draft /\ found.pre = call.pre /\ found.id = hub.ids
    BY <2>2, <2>3 DEF ReleaseMade
  <2>. QED  BY <1>2, <2>2, <2>3, <2>4 DEF ReleaseMade
<1>6. smooth /\ changes = 0 => ~Incomparable
  BY <1>1, <1>2 DEF ExactInv, SmoothInv, Incomparable, Unguarded
<1> HIDE DEF matches
<1>4. CASE completed = "yes" /\ matches
  <2>1. Tell("done")
    BY <1>1, <1>4 DEF Verdict3
  <2>. QED  BY <1>1, <1>2, <1>4, <1>6, <2>1, AnswerAfter
<1>5. CASE ~(completed = "yes" /\ matches)
  <2>1. Tell("unverified")
    BY <1>1, <1>5 DEF Verdict3
  <2>. QED  BY <1>1, <1>2, <1>3, <1>5, <2>1, AnswerAfter
<1>. QED  BY <1>4, <1>5

-----------------------------------------------------------------------------
\* A call begins with nothing known and nothing written.
LEMMA InitIsExact ==
  ASSUME Init
  PROVE  ExactInv
<1>1. /\ scenario \in Scenarios /\ pc = FirstStep[call.tool]
      /\ page = 1 /\ found = None /\ tagged = None
      /\ completed = "unknown" /\ known = None /\ said = None
      /\ hub = scenario.hub /\ live = FALSE /\ effect = None
      /\ garbled = FALSE /\ smooth = TRUE /\ changes = 0
  BY DEF Init, CallInit
<1>2. /\ call.tool \in Tools /\ scenario.hub \in Hub /\ scenario.changes \in Nat
      /\ MaxListPages \in Nat \ {0}
  BY <1>1, ScenarioFacts, ReleaseAssumption
<1>3. /\ pc \in {"base", "check", "resolve", "target", "write"}
      /\ pc = "target" => call.tool = "release"
      /\ pc = "resolve" => call.tool \in {"edit", "create"}
      /\ pc = "check" => call.tool \in {"merge", "draft", "review", "issue", "branch"}
      /\ pc = "write" => call.tool \in {"milestone", "create_named", "edit_named"}
  BY <1>1, <1>2 DEF FirstStep, Tools, Unguarded
<1>4. TypeOK
  <2>1. hub.ids >= scenario.hub.ids
    <3>1. scenario.hub.ids \in Nat
      BY <1>2 DEF Hub
    <3>2. PICK i \in Nat : i = scenario.hub.ids
      BY <3>1
    <3>3. hub.ids = i
      BY <1>1, <3>2
    <3>. QED  BY <3>2, <3>3
  <2>2. page \in 1 .. MaxListPages /\ changes \in 0 .. scenario.changes
    BY <1>1, <1>2
  <2>. QED  BY <1>1, <1>3, <2>1, <2>2 DEF TypeOK, Steps, Tri
<1>5. StageInv
  BY <1>1, <1>2, <1>3 DEF StageInv, Before, ReleaseSteps
<1>6. OutcomeInv /\ AnswerInv
  BY <1>1, NoneIsNothing DEF OutcomeInv, AnswerInv
<1>7. GuardInv
  BY <1>1, <1>3 DEF GuardInv, Passed, ByHead
<1>8. MadeInv /\ SmoothInv /\ UndisturbedIsVerified
  BY <1>1, <1>3, NoneIsNothing DEF MadeInv, SmoothInv, UndisturbedIsVerified
<1>. QED  BY <1>4, <1>5, <1>6, <1>7, <1>8 DEF ExactInv

\* A step of nobody changes nothing.
LEMMA StutterKeepsInv ==
  ASSUME ExactInv, UNCHANGED vars
  PROVE  ExactInv'
<1>1. /\ scenario' = scenario /\ pc' = pc /\ page' = page /\ found' = found /\ tagged' = tagged
      /\ completed' = completed /\ known' = known /\ said' = said /\ hub' = hub /\ live' = live
      /\ effect' = effect /\ changes' = changes /\ garbled' = garbled /\ smooth' = smooth
      /\ call' = call
  BY DEF vars, readVars, remoteVars, call
<1>2. TypeOK' /\ StageInv'
  <2>1. TypeOK'
    BY <1>1 DEF ExactInv, TypeOK
  <2>2. StageInv'
    BY <1>1 DEF ExactInv, StageInv
  <2>. QED  BY <2>1, <2>2
<1>5. OutcomeInv' /\ AnswerInv'
  BY <1>1 DEF ExactInv, OutcomeInv, AnswerInv
<1>3. GuardInv' /\ SmoothInv' /\ UndisturbedIsVerified'
  BY <1>1 DEF ExactInv, GuardInv, Passed, SmoothInv, UndisturbedIsVerified, Incomparable
<1>4. MadeInv'
  BY <1>1, MadeStays DEF ExactInv, MadeInv, StageInv
<1>. QED  BY <1>2, <1>5, <1>3, <1>4 DEF ExactInv

\* Every action, by the tool that takes it.
LEMMA StepKeepsInv ==
  ASSUME ExactInv, [Next]_vars
  PROVE  ExactInv'
<1>1. CASE PullRequestNext
  BY <1>1, PreconditionKeepsInv, ReadbackKeepsInv DEF PullRequestNext
<1>2. CASE BranchNext
  BY <1>2, PreconditionKeepsInv, ReadbackKeepsInv DEF BranchNext
<1>3. CASE ReleaseNext
  BY <1>3, ReleasePreconditionKeepsInv, ListKeepsInv, FindKeepsInv, NotFoundKeepsInv,
     TaggedKeepsInv, LatestKeepsInv DEF ReleaseNext
<1>4. CASE MetadataNext
  BY <1>4, PreconditionKeepsInv, ReadbackKeepsInv DEF MetadataNext
<1>5. CASE Resolve \/ FailBefore
  BY <1>5, PreconditionKeepsInv, FailBeforeKeepsInv
<1>6. CASE SendWrite \/ RefuseWrite \/ FinishWrite
  BY <1>6, SendKeepsInv, RefuseKeepsInv, FinishKeepsInv
<1>7. CASE FailReadback
  BY <1>7, FailReadbackKeepsInv
<1>8. CASE live /\ Apply(Effects, hub.ids + 1)
  BY <1>8, ApplyKeepsInv
<1>9. CASE Change(Others)
  BY <1>9, ChangeKeepsInv
<1>10. CASE UNCHANGED vars
  BY <1>10, StutterKeepsInv
<1>. QED  BY <1>1, <1>2, <1>3, <1>4, <1>5, <1>6, <1>7, <1>8, <1>9, <1>10 DEF Next

\* The inductive invariant holds of every call.
THEOREM Invariance == Spec => []ExactInv
<1>1. Init => ExactInv
  BY InitIsExact
<1>2. ExactInv /\ [Next]_vars => ExactInv'
  BY StepKeepsInv
<1>. QED  BY <1>1, <1>2, PTL DEF Spec

\* Every call of an exact write tool stays of its type, step by step.
THEOREM TypeCorrect == Spec => []TypeOK
<1>1. ExactInv => TypeOK
  BY DEF ExactInv
<1>. QED  BY <1>1, Invariance, PTL

\* What the caller of any exact write is told is true of GitHub: no attempt means no
\* effect now or later, success means an effect on the head that was named, and what
\* was found is what was made (write_contracts.py and the tools that use it).
THEOREM AnswersTrue == Spec => []AnswersAreTrue
<1>1. ExactInv => AnswersAreTrue
  <2>1. SUFFICES ASSUME ExactInv
                 PROVE  AnswersAreTrue
    OBVIOUS
  <2>2. TypeOK /\ OutcomeInv /\ AnswerInv
    BY <2>1 DEF ExactInv
  <2>. QED  BY <2>2, NoneIsNothing DEF AnswersAreTrue, TypeOK, OutcomeInv, AnswerInv
<1>. QED  BY <1>1, Invariance, PTL

\* A write without failures that nobody disturbed is reported as done exactly when the
\* tool's comparison can tell: not for a draft release without a tag, a pull request
\* that waits in a queue unseen, or a mark spelled in another way than GitHub's and not
\* compared with case folded (matches of each tool).
THEOREM UndisturbedVerified == Spec => []UndisturbedIsVerified
<1>1. ExactInv => UndisturbedIsVerified
  BY DEF ExactInv
<1>. QED  BY <1>1, Invariance, PTL
=============================================================================
