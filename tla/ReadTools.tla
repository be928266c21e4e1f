----------------------------- MODULE ReadTools -----------------------------
(***************************************************************************)
(* One call of a read tool, or for lists one call for each page, while     *)
(* what it reads goes on: logs, jobs, runs, artifacts and their contents,  *)
(* the end of a run; what belongs to a pull request; lists and searches of *)
(* a repository; single objects and what lies between two commits.         *)
(***************************************************************************)
EXTENDS LogReads, RunLists, RunWatch, ArchiveReads,
        PullRequestReads, ExactReads

FirstRequest ==
  [job_logs |-> "job", run_logs |-> "attempt", failed_logs |-> "resolve",
   list_runs |-> "items", list_jobs |-> "pin", list_artifacts |-> "pin",
   archive_files |-> "artifact", read_file |-> "artifact", watch |-> "poll",
   list_all |-> "whole", search |-> "matches",
   pr_diff |-> "look", list_files |-> "look", list_commits |-> "look",
   list_reviews |-> "look", get_thread |-> "look",
   get_ref |-> "lookup", get_commit |-> "lookup", list_tree |-> "lookup", compare |-> "compare"]

ASSUME ToolAssumption == \A s \in Scenarios : s.call.tool \in DOMAIN FirstRequest

runReadVars == <<attempt, runVars, logVars, watchVars, archiveVars>>
vars == <<scenario, replyVars, changes, runReadVars, listVars, pullVars, exactVars>>

Init ==
  /\ ReadInit(FirstRequest)
  /\ RunInit /\ LogInit /\ WatchInit /\ ArchiveInit
  /\ ListInit(IF call.tool = "list_jobs" THEN ToSet(listed[1]) ELSE ToSet(items))
  /\ PullInit /\ ExactInit

\* The call moves; GitHub does not.
Step ==
  /\ \/ LogNext /\ UNCHANGED <<runVars, listVars, watchVars, archiveVars, pullVars, exactVars>>
     \/ RunListNext /\ UNCHANGED <<runVars, logVars, watchVars, archiveVars, pullVars, exactVars>>
     \/ WatchNext /\ UNCHANGED <<runVars, logVars, listVars, archiveVars, pullVars, exactVars>>
     \/ ArchiveNext /\ UNCHANGED <<runVars, logVars, listVars, watchVars, pullVars, exactVars>>
     \/ RepositoryListNext /\ UNCHANGED <<runReadVars, pullVars, exactVars>>
     \/ PullNext /\ UNCHANGED <<runReadVars, exactVars>>
     \/ ExactNext /\ UNCHANGED <<runReadVars, listVars, pullVars>>
     \/ RequestFails /\ UNCHANGED <<runReadVars, listVars, pullVars, exactVars>>
  /\ UNCHANGED <<scenario, changes>>

Elsewhere ==
  \/ GitHub /\ UNCHANGED <<logVars, watchVars, archiveVars, listVars, pullVars, exactVars>>
  \/ ListGitHub /\ UNCHANGED <<runReadVars, pullVars, exactVars>>
  \/ PullGitHub /\ UNCHANGED <<runReadVars, exactVars>>
  \/ ExactGitHub /\ UNCHANGED <<runReadVars, listVars, pullVars>>

Next == Step \/ Elsewhere

Of(A) == A /\ UNCHANGED <<scenario, changes, runVars, logVars, listVars, archiveVars, pullVars, exactVars>>

\* gh answers or is killed at its timeout, sleeps end, and time passes.
Fairness ==
  WF_vars(Of(Poll)) /\ WF_vars(Of(AnswerPoll)) /\ WF_vars(Of(Wake)) /\ WF_vars(Of(Tick))

Spec == Init /\ [][Next]_vars /\ Fairness

-----------------------------------------------------------------------------
\* Every variable has its type.
TypeOK ==
  /\ RunTypeOK
  /\ changes \in 0..scenario.changes
  /\ round \in {"before", "after"} /\ firstLog \in BOOLEAN
  /\ page \in Nat \ {0} /\ total \in Nat \cup {None}
  /\ before \in Seq(Job) /\ queue \in Seq(Job)
  /\ acc.seen \in Seq(Char) /\ acc.kept \in Seq(Char)
  /\ pending \in Seq(Char \X (1..4)) /\ wire \in Seq(Char \X (1..4))
  /\ items \in Seq(Item) /\ listPage \in Nat \ {0}
  /\ flagged \in BOOLEAN /\ deleted \in BOOLEAN
  /\ now \in 0..MaxNow /\ wakeAt \in 0..MaxNow
  /\ headers \in BOOLEAN /\ saved \in Seq({"b"})
  /\ snapshot \in Snapshot \cup {None} /\ cameBack \in BOOLEAN
  /\ present \subseteq Object /\ missing \subseteq Object
  /\ {empty, access, regained} \subseteq BOOLEAN

(***************************************************************************)
(* However a log is cut into chunks, within markers and within characters, *)
(* what has been selected of it so far is what the reference selects from  *)
(* all of it: the chunks cannot be told from the result.                   *)
(***************************************************************************)
SelectionMatchesWhole ==
  call.tool \in {"job_logs", "run_logs"} =>
    Finish(acc, call.sel) = Selection(acc.seen, call.sel)

\* The logs of jobs, one after the other.
Joined(ids) ==
  FlattenSeq([k \in DOMAIN ids |->
                (IF k = 1 THEN <<>> ELSE <<Newline>>) \o Decoded(scenario.log[ids[k]])])

(***************************************************************************)
(* Log evidence that was returned was, and stays, taken from the whole and *)
(* final log of the job; or of every job of the attempt that has one, once *)
(* each, in the order of their ids: also when jobs were queued, completed  *)
(* or run again during the read, and later on.                             *)
(***************************************************************************)
LogsAreWholeAndFinal ==
  pc = "delivered" /\ call.tool \in {"job_logs", "run_logs"} =>
    LET logged == {j \in Job : done[j] # "skipped"}
        ids == IF call.tool = "job_logs" THEN <<call.job>>
               ELSE KeepOnly(Sorted(listed[call.attempt], Smaller), logged)
    IN  /\ \A j \in ToSet(ids) : done[j] # None
        /\ acc.seen = Inert(Joined(ids))

\* What is returned for an attempt is of that attempt.
AttemptPinned ==
  /\ call.attempt # None => attempt = call.attempt
  /\ pc = "delivered" /\ call.tool = "job_logs" => call.job \in ToSet(scenario.jobs[result.attempt])
  /\ pc = "delivered" /\ call.tool = "failed_logs" =>
       ToSet(queue) \subseteq ToSet(scenario.jobs[result.attempt])
  /\ call.tool = "list_jobs" =>
       /\ collected \subseteq UNION {ToSet(scenario.jobs[a]) : a \in pinnedTo}
       /\ pc = "verify" => ToSet(read.page) \subseteq ToSet(scenario.jobs[attempt])

\* What is returned for a base and a head is of these, unless they went and came back.
SnapshotPinned ==
  /\ call.tool \in {"pr_diff", "list_files", "list_commits"} /\ ~cameBack =>
       \A i \in collected : i[1] = i[2][1]
  /\ pc = "delivered" /\ call.tool = "get_thread" /\ result.exact =>
       /\ result.head = call.head
       /\ ~cameBack => result.thread.outdated = (call.head # scenario.anchor)

(***************************************************************************)
(* Evidence is of what it names.  Logs and jobs that are returned for an   *)
(* attempt are of that attempt, which is the one asked for if there was    *)
(* one, although a rerun may add another at any time.  Files, commits and  *)
(* a thread that are returned for a base and a head are of these, although *)
(* GitHub reads them by the number of a pull request whose head is pushed  *)
(* and whose base moves between any two requests; unless the pair goes and *)
(* comes back within a call, which the comparison cannot see.              *)
(***************************************************************************)
EvidenceIsPinned == AttemptPinned /\ SnapshotPinned

-----------------------------------------------------------------------------
Paged == Shrinking \cup {"list_reviews"}

\* The pages a caller got, when it was told of nothing more and nothing incomplete.
PagesCoverList ==
  pc = "delivered" /\ ~flagged =>
    /\ call.tool \in Paged /\ ~deleted => atFirst \subseteq collected
    /\ call.tool = "list_jobs" /\ pinnedTo = {1} => atFirst \subseteq collected
    /\ call.tool \in {"pr_diff", "list_files", "list_commits"} /\ ~cameBack =>
         \A s \in pinnedTo :
           pinnedTo = {s} => collected = {<<s, <<s, k>>>> : k \in 1..scenario.size[s]}

\* What is said to be complete, of commits, files and entries, is all there is.
RecordsAreComplete ==
  pc = "delivered" /\ call.tool \in {"compare", "list_tree"} /\ result.missing = {} =>
    IF call.tool = "list_tree" THEN result.complete => result.entries = scenario.listing
    ELSE /\ result.commitsComplete => result.commits = scenario.commits
         /\ result.filesComplete => result.files = scenario.files
         /\ result.filesTotal \in {None, scenario.files}

\* What is said to be missing was missing at some moment of the call.
AbsenceIsReal ==
  pc = "delivered" /\ call.tool \in ExactTools /\ ~regained => result.missing \subseteq absent

(***************************************************************************)
(* Nothing is missed: what complete evidence does not hold was not there.  *)
(* A caller that goes on for as long as it is told that there is more, and *)
(* is told of nothing incomplete, ends with all there was when it began,   *)
(* although more is added meanwhile; unless something was deleted, which   *)
(* moves the rest, or the pages were of several attempts or snapshots, as  *)
(* they say.  Records said to be complete are, below and at the limits     *)
(* where GitHub cuts them.  An object said to be missing was, and not only *)
(* hidden from the caller, unless the right to see it came in between.     *)
(***************************************************************************)
NothingIsMissed == PagesCoverList /\ RecordsAreComplete /\ AbsenceIsReal

(***************************************************************************)
(* The archive that is inspected is the whole of what GitHub sent behind   *)
(* the headers, within the limit; it is accepted exactly if it is a tree   *)
(* of files, in whatever order its entries come; and a file that is listed *)
(* is one of them.                                                         *)
(***************************************************************************)
ArchiveIsTree ==
  /\ pc = "inspect" =>
       /\ saved = KeepOnly(scenario.response, {"b"})
       /\ Len(saved) <= MaxArchiveBytes
       /\ Inspected(scenario.entries) # None <=> IsFileTree(scenario.entries)
  /\ pc = "delivered" /\ call.tool = "archive_files" =>
       \A p \in ToSet(result.files) :
         \E e \in ToSet(scenario.entries) : e.kind = "file" /\ NormalPath(e) = p

\* gh_watch_run ends, whatever the run does: with its completion, with an error,
\* or after the deadline.
WatchEnds == (call.tool = "watch") ~> (pc \in Ended)
=============================================================================
