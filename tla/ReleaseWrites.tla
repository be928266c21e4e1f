---------------------------- MODULE ReleaseWrites ----------------------------
(***************************************************************************)
(* gh_create_release_exact (tools/release_exact.py).  That there is no     *)
(* release for the tag can only be seen from the list of all releases,     *)
(* page after page; the release that was created is found in the same way, *)
(* and its tag and the latest release are read after it.  The target is a  *)
(* commit, which exists or not for good.                                   *)
(***************************************************************************)
EXTENDS ExactCall

CONSTANTS
  ReleasesPerPage,  \* _RELEASES_PER_PAGE
  MaxListPages      \* _MAX_RELEASE_LIST_PAGES

ASSUME ReleaseAssumption == ReleasesPerPage \in Nat \ {0} /\ MaxListPages \in Nat \ {0}

\* The step after one of the precondition, or the end.
Go(step, expected) ==
  /\ IF expected THEN Goto(step) ELSE Tell("not attempted")
  /\ UNCHANGED <<readVars, smooth>> /\ Elsewhere

ReadTarget == pc = "target" /\ Go("tag", call.exists)

\* The tag is absent, or, if it may be there, at the target.
ReadTag ==
  /\ pc = "tag"
  /\ Go(IF call.releaseAbsent THEN "list" ELSE "again",
        hub.tag = None \/ (~call.tagAbsent /\ hub.tag = call.head))

ReadTargetAgain == pc = "again" /\ Go("write", call.exists)

ReleasesPage ==
  SubSeq(hub.releases, (page - 1) * ReleasesPerPage + 1,
         IF page * ReleasesPerPage < Len(hub.releases) THEN page * ReleasesPerPage
                                                       ELSE Len(hub.releases))

Ours == {r \in ToSet(ReleasesPage) : r.ours}

\* The first of them, in a set.
FirstOurs ==
  {ReleasesPage[n] : n \in {m \in DOMAIN ReleasesPage :
                             /\ ReleasesPage[m].ours
                             /\ \A l \in 1 .. m - 1 : ~ReleasesPage[l].ours}}

LastPage == Len(ReleasesPage) < ReleasesPerPage

NextPage ==
  /\ page' = page + 1
  /\ UNCHANGED <<pc, said, found, tagged, smooth>> /\ Elsewhere

\* _read_release_by_tag_all_states for the precondition: none may be there, and the
\* list is complete only for somebody who may push.
ListReleases ==
  /\ pc = "list"
  /\ CASE ~call.push \/ Ours # {} -> Go("write", FALSE)
       [] call.push /\ Ours = {} /\ LastPage -> Go("again", TRUE)
       [] call.push /\ Ours = {} /\ ~LastPage /\ page = MaxListPages -> Go("write", FALSE)
       [] OTHER -> NextPage

\* A tag has one published release; the tag is created with it, unless it exists.
CreateRelease(h) ==
  LET id == h.ids + 1
      new == [id |-> id, ours |-> TRUE, draft |-> call.draft, pre |-> call.pre]
      taken == \E r \in ToSet(h.releases) : r.ours /\ ~r.draft
  IN  IF taken \/ ~call.push THEN {}
      ELSE {[h EXCEPT !.releases = <<new>> \o @, !.ids = id,
                      !.tag = IF @ # None \/ call.draft THEN @ ELSE call.head,
                      !.latest = IF call.latest THEN id ELSE @]}

\* Mutant: the first release with the tag is taken for the one that was created.
FindReleaseOfTag ==
  /\ pc = "find"
  /\ IF Ours = {} THEN ~LastPage /\ page < MaxListPages /\ NextPage
     ELSE /\ Goto("tagged")
          /\ found' \in Ours
          /\ UNCHANGED <<page, tagged, smooth>> /\ Elsewhere

\* The same for the readback: the first on its page, which must be the one GitHub
\* named, if it named one.
FindRelease ==
  /\ pc = "find" /\ call.push
  /\ IF Ours = {} THEN ~LastPage /\ page < MaxListPages /\ NextPage
     ELSE \E first \in FirstOurs :
          /\ known \in {None, first.id}
          /\ Goto("tagged")
          /\ found' = first
          /\ UNCHANGED <<page, tagged, smooth>> /\ Elsewhere

\* It is absent, or another: the readback raises.
NotFound ==
  /\ pc = "find"
  /\ \/ ~call.push
     \/ Ours = {} /\ (LastPage \/ page = MaxListPages)
     \/ \E first \in FirstOurs : known \notin {None, first.id}
  /\ Tell("unverified")
  /\ UNCHANGED <<readVars, smooth>> /\ Elsewhere

\* Mutant: a tag that is absent does not raise.
ReadTaggedAbsent ==
  /\ pc = "tagged"
  /\ Goto("latest")
  /\ tagged' = hub.tag
  /\ UNCHANGED <<page, found, smooth>> /\ Elsewhere

\* A tag that is absent raises.
ReadTagged ==
  /\ pc = "tagged"
  /\ IF hub.tag = None THEN Tell("unverified") ELSE Goto("latest")
  /\ tagged' = hub.tag
  /\ UNCHANGED <<page, found, smooth>> /\ Elsewhere

ReadLatest ==
  /\ pc = "latest"
  /\ Tell(Verdict3(/\ tagged = call.head
                   /\ found.draft = call.draft /\ found.pre = call.pre
                   /\ (hub.latest = found.id) = call.latest))
  /\ UNCHANGED <<readVars, smooth>> /\ Elsewhere

\* Other users publish, draft and delete releases, and move tags.
AddRelease(h, o, d) ==
  [h EXCEPT !.releases = <<[id |-> h.ids + 1, ours |-> o, draft |-> d, pre |-> FALSE]>> \o @,
            !.ids = @ + 1,
            !.latest = IF d THEN @ ELSE h.ids + 1]

DeleteRelease(h, k) ==
  [h EXCEPT !.releases = RemoveAt(@, k),
            !.latest = IF @ = h.releases[k].id THEN None ELSE @]

ReleaseChanges(h) ==
  {AddRelease(h, o, d) : o \in BOOLEAN, d \in BOOLEAN}
  \cup {DeleteRelease(h, k) : k \in DOMAIN h.releases}
  \cup {[h EXCEPT !.tag = t] : t \in Sha \cup {None}}

ReleaseNext ==
  \/ ReadTarget \/ ReadTag \/ ListReleases \/ ReadTargetAgain
  \/ FindRelease \/ NotFound \/ ReadTagged \/ ReadLatest
=============================================================================
