--------------------------- MODULE ContentCommit ---------------------------
(***************************************************************************)
(* gh_commit_files and gh_patch_files (content_commit_service.py): build a *)
(* commit on the head the caller expects, move the branch to it with one   *)
(* updateRefs compare-and-swap, and reconcile by at most MaxReads reads of *)
(* the ref, which may still show an earlier head.                          *)
(*                                                                         *)
(* A branch is the log of the heads it has had.  The blobs, the tree and   *)
(* the commit are unreachable until the swap, so building them is one step *)
(* here, in which any of their requests may fail.  A read is served by a   *)
(* replica, which lags but never behind what the call already read.        *)
(***************************************************************************)
EXTENDS GhAttempt, Sequences, SequencesExt

CONSTANTS
  Calls,      \* the commits asked for
  Patches,    \* those asked of gh_patch_files
  Others,     \* stands for every other user who pushes to the branch
  MaxReads,   \* _REF_READBACK_MAX_ATTEMPTS
  MaxIssues,  \* bound: times a caller asks for one commit
  MaxPushes   \* bound: pushes by others

ASSUME CommitAssumption ==
  /\ Patches \subseteq Calls
  /\ Others \notin Calls /\ None \notin Calls
  /\ MaxReads \in Nat \ {0}
  /\ MaxIssues \in Nat /\ MaxPushes \in Nat

\* A commit is named by who made it; every SHA is new.
Commits == (Calls \cup {Others}) \X Nat
Root == <<Others, 0>>
ASSUME RootAssumption == None \notin Commits

VARIABLES
  pc,         \* pc[c]: where the call stands between two awaits
  expected,   \* expected[c]: expected_head_sha, kept when the caller asks again
  floor,      \* floor[c]: the oldest position of the log its reads can show
  commit,     \* commit[c]: commit_sha, or None
  completed,  \* completed[c]: write_completed
  attempts,   \* attempts[c]: readback_attempts
  observed,   \* observed[c]: observed_head_sha, or None
  result,     \* result[c]: what the tool returned, or None
  log,        \* GitHub: the heads of the branch, oldest first
  swaps,      \* GitHub: compare-and-swaps received and not decided
  issues, pushes,
  garbled     \* history: commits whose swap gh confirmed in an unreadable reply

readVars == <<attempts, observed>>
vars == <<pc, expected, floor, commit, completed, readVars, result, log, swaps,
          issues, pushes, garbled>>

Phases == {"idle", "preparing", "rechecking", "building", "ready", "swapping",
           "reading", "answered", "stopped"}
Results == [outcome : Outcomes, ref_updated : Tri]
Swaps == [before : Commits, after : Commits]

Goto(c, phase) == pc' = [pc EXCEPT ![c] = phase]

\* Mutant: the swap is made against the head the branch has by then.
SwapFromCurrentHead(c) == [before |-> Last(log), after |-> commit[c]]

\* The one ref update of cas_payload.
Swap(c) == [before |-> expected[c], after |-> commit[c]]
Installed(h) == h \in Range(log)

Init ==
  /\ pc = [c \in Calls |-> "idle"]
  /\ expected = [c \in Calls |-> Root]
  /\ floor = [c \in Calls |-> 1]
  /\ commit = [c \in Calls |-> None]
  /\ completed = [c \in Calls |-> "unknown"]
  /\ attempts = [c \in Calls |-> 0]
  /\ observed = [c \in Calls |-> None]
  /\ result = [c \in Calls |-> None]
  /\ log = <<Root>>
  /\ swaps = {}
  /\ issues = [c \in Calls |-> 1]
  /\ pushes = 0
  /\ garbled = {}

-----------------------------------------------------------------------------
\* A caller asks for a commit on a head it has read, however long ago.
Ask(c) ==
  /\ pc[c] = "idle"
  /\ Goto(c, "preparing")
  /\ \E i \in DOMAIN log : expected' = [expected EXCEPT ![c] = log[i]]
  /\ UNCHANGED <<floor, commit, completed, readVars, result, log, swaps, issues,
                 pushes, garbled>>

\* Mutant: the head found on the branch is taken as the base, expected or not.
PrepareOnWhatIsThere(c) ==
  /\ pc[c] = "preparing"
  /\ \E i \in DOMAIN log :
        /\ Goto(c, IF c \in Patches THEN "rechecking" ELSE "building")
        /\ expected' = [expected EXCEPT ![c] = log[i]]
        /\ floor' = [floor EXCEPT ![c] = i]
  /\ UNCHANGED <<commit, completed, readVars, result, log, swaps, issues, pushes, garbled>>

\* prepare_content_commit_base: the branch must read as expected; then the
\* repository, the parent commit and, for a patch, the files are read at that
\* immutable commit.  Any failure or refusal stops the call.
Prepare(c) ==
  /\ pc[c] = "preparing"
  /\ \/ \E i \in DOMAIN log :
          /\ log[i] = expected[c]
          /\ Goto(c, IF c \in Patches THEN "rechecking" ELSE "building")
          /\ floor' = [floor EXCEPT ![c] = i]
     \/ Goto(c, "stopped") /\ UNCHANGED floor
  /\ UNCHANGED <<expected, commit, completed, readVars, result, log, swaps, issues,
                 pushes, garbled>>

\* gh_patch_files looks at the head again before it creates any object.
Recheck(c) ==
  /\ pc[c] = "rechecking"
  /\ \/ /\ \E i \in floor[c]..Len(log) : log[i] = expected[c]
        /\ Goto(c, "building")
     \/ Goto(c, "stopped")
  /\ UNCHANGED <<expected, floor, commit, completed, readVars, result, log, swaps,
                 issues, pushes, garbled>>

\* The blobs, the tree and the commit are created, or one request fails, or the
\* tree turns out unchanged, and nothing is reachable.
BuildObjects(c) ==
  /\ pc[c] = "building"
  /\ \/ /\ Goto(c, "ready")
        /\ commit' = [commit EXCEPT ![c] = <<c, issues[c]>>]
     \/ Goto(c, "stopped") /\ UNCHANGED commit
  /\ UNCHANGED <<expected, floor, completed, readVars, result, log, swaps, issues,
                 pushes, garbled>>

\* write_ref sends the swap, or the governor refuses it while a cooldown lasts.
SendSwap(c) ==
  /\ pc[c] = "ready"
  /\ Goto(c, "swapping")
  /\ swaps' = swaps \cup {Swap(c)}
  /\ UNCHANGED <<expected, floor, commit, completed, readVars, result, log, issues,
                 pushes, garbled>>

RefuseSwap(c) ==
  /\ pc[c] = "ready"
  /\ Goto(c, "reading")
  /\ completed' = [completed EXCEPT ![c] = "no"]
  /\ UNCHANGED <<expected, floor, commit, readVars, result, log, swaps, issues, pushes,
                 garbled>>

\* GitHub decides a swap: before or after gh stopped waiting for the answer.
DecideSwap(s) ==
  /\ s \in swaps
  /\ swaps' = swaps \ {s}
  /\ log' = IF Last(log) = s.before THEN Append(log, s.after) ELSE log
  /\ UNCHANGED <<pc, expected, floor, commit, completed, readVars, result, issues,
                 pushes, garbled>>

\* The gh process ends.  A GraphQL error body in a successful reply is an
\* ambiguous failure (write_ref).
FinishSwap(c) ==
  /\ pc[c] = "swapping"
  /\ \/ \E end \in ApiWriteEnds :
          /\ end.fate = "applied" <=> Installed(commit[c])
          /\ swaps' = IF end.fate = "rejected" THEN swaps \ {Swap(c)} ELSE swaps
          /\ completed' = [completed EXCEPT ![c] = WriteCompleted(end.verdict)]
          /\ garbled' = IF end.confirmed /\ end.verdict.failed
                        THEN garbled \cup {commit[c]} ELSE garbled
     \/ /\ completed' = [completed EXCEPT ![c] = "unknown"]
        /\ UNCHANGED <<swaps, garbled>>
  /\ Goto(c, "reading")
  /\ UNCHANGED <<expected, floor, commit, readVars, result, log, issues, pushes>>

-----------------------------------------------------------------------------
\* ref_updated, from what execute_write_readback reported.
RefUpdated(read, matches) ==
  CASE matches = "yes" -> "yes"
    [] read /\ matches = "no" -> "no"
    [] OTHER -> "unknown"

Conclude(c, read, matches) ==
  /\ Goto(c, "answered")
  /\ result' = [result EXCEPT ![c] =
       [outcome |-> [write_completed |-> completed[c],
                     readback_completed |-> read,
                     state_matches_requested |-> matches],
        ref_updated |-> RefUpdated(read, matches)]]

\* Mutant: the last head read is conclusive, the pre-write head included.
ConclusiveAtOnce(c, head) == TRUE

\* readback_ref returns a head that cannot be a stale view of the old one, or
\* the old one when the swap is known to have failed.
Conclusive(c, head) == head # expected[c] \/ completed[c] = "no"

\* Mutant: one read too many before giving up.
LastReadOffByOne(c) == attempts[c] = MaxReads

LastRead(c) == attempts[c] + 1 = MaxReads

\* One exact-ref read of readback_ref; short of a conclusion it sleeps and
\* reads again, and at the bound it gives up with nothing established.
ReadRef(c) ==
  /\ pc[c] = "reading"
  /\ attempts' = [attempts EXCEPT ![c] = @ + 1]
  /\ \E i \in floor[c]..Len(log) :
        /\ observed' = [observed EXCEPT ![c] = log[i]]
        /\ \/ /\ Conclusive(c, log[i])
              /\ Conclude(c, TRUE, IF log[i] = commit[c] THEN "yes" ELSE "no")
           \/ /\ ~Conclusive(c, log[i])
              /\ LastRead(c)
              /\ Conclude(c, FALSE, "unknown")
           \/ /\ ~Conclusive(c, log[i])
              /\ ~LastRead(c)
              /\ UNCHANGED <<pc, result>>
  /\ UNCHANGED <<expected, floor, commit, completed, log, swaps, issues, pushes, garbled>>

\* A read fails or is malformed: the reconciliation ends there.
FailReadRef(c) ==
  /\ pc[c] = "reading"
  /\ attempts' = [attempts EXCEPT ![c] = @ + 1]
  /\ Conclude(c, FALSE, "unknown")
  /\ UNCHANGED <<expected, floor, commit, completed, observed, log, swaps, issues,
                 pushes, garbled>>

\* The call is cancelled at an await.
Abandon(c) ==
  /\ pc[c] \notin {"idle", "answered", "stopped"}
  /\ Goto(c, "stopped")
  /\ UNCHANGED <<expected, floor, commit, completed, readVars, result, log, swaps,
                 issues, pushes, garbled>>

\* The worst of callers asks for the same change on the same head again,
\* whatever the warnings say.
AskAgain(c) ==
  /\ pc[c] \in {"answered", "stopped"}
  /\ issues[c] < MaxIssues
  /\ Goto(c, "preparing")
  /\ issues' = [issues EXCEPT ![c] = @ + 1]
  /\ floor' = [floor EXCEPT ![c] = 1]
  /\ commit' = [commit EXCEPT ![c] = None]
  /\ completed' = [completed EXCEPT ![c] = "unknown"]
  /\ attempts' = [attempts EXCEPT ![c] = 0]
  /\ observed' = [observed EXCEPT ![c] = None]
  /\ result' = [result EXCEPT ![c] = None]
  /\ UNCHANGED <<expected, log, swaps, pushes, garbled>>

\* Another user pushes a new commit, forced or not.
Push ==
  /\ pushes < MaxPushes
  /\ pushes' = pushes + 1
  /\ log' = Append(log, <<Others, pushes + 1>>)
  /\ UNCHANGED <<pc, expected, floor, commit, completed, readVars, result, swaps,
                 issues, garbled>>

Step(c) ==
  \/ Ask(c) \/ Prepare(c) \/ Recheck(c) \/ BuildObjects(c)
  \/ SendSwap(c) \/ RefuseSwap(c) \/ FinishSwap(c) \/ ReadRef(c) \/ FailReadRef(c)

Next ==
  \/ \E c \in Calls : Step(c) \/ Abandon(c) \/ AskAgain(c)
  \/ \E s \in swaps : DecideSwap(s)
  \/ Push

Spec == Init /\ [][Next]_vars

-----------------------------------------------------------------------------
\* Every variable stays in the range the code gives it.
TypeOK ==
  /\ pc \in [Calls -> Phases]
  /\ expected \in [Calls -> Commits]
  /\ floor \in [Calls -> Nat \ {0}]
  /\ commit \in [Calls -> Commits \cup {None}]
  /\ completed \in [Calls -> Tri]
  /\ attempts \in [Calls -> 0..MaxReads]
  /\ observed \in [Calls -> Commits \cup {None}]
  /\ result \in [Calls -> Results \cup {None}]
  /\ log \in Seq(Commits)
  /\ swaps \subseteq Swaps
  /\ issues \in [Calls -> Nat]
  /\ pushes \in Nat
  /\ garbled \subseteq Commits

\* A commit of this server is only ever installed directly on the head its
\* caller named, so no push that came between, in any order with the checks
\* and the object creation, is lost (beforeOid, force False).
CommitsFollowExpectedHead ==
  \A i \in 2..Len(log) : log[i][1] \in Calls => log[i - 1] = expected[log[i][1]]

\* Asking again for the same change on the same head, however blindly and
\* while an earlier swap may still be decided, never lands it twice.
ChangeLandsOnce ==
  \A i, j \in DOMAIN log : log[i][1] \in Calls /\ log[i][1] = log[j][1] => i = j

\* A verdict on the branch stays true however late GitHub decides a swap:
\* ref_updated True, the commit was installed; False, the branch is not at it
\* and never comes to be.  A stale read of the old head proves neither.
RefVerdict(c) == IF result[c] = None THEN "unknown" ELSE result[c].ref_updated

VerdictsStayTrue ==
  \A c \in Calls :
    /\ RefVerdict(c) = "yes" => Installed(commit[c])
    /\ RefVerdict(c) = "no" /\ commit[c] \notin garbled => Last(log) # commit[c]
=============================================================================
