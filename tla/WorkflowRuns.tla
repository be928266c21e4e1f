---------------------------- MODULE WorkflowRuns ----------------------------
(***************************************************************************)
(* What the read tools for GitHub Actions share: the workflow run on       *)
(* GitHub that a call looks at, request by request, while it goes on.  A run has attempts; each lists jobs in the order in which *)
(* they were queued; a job has a log, which is final when the job is       *)
(* completed.  A rerun adds an attempt with jobs of its own.  The head SHA *)
(* of a run is the same in all attempts, so the tools' comparisons of it   *)
(* never fail and are left out.                                            *)
(***************************************************************************)
EXTENDS ReadCall

CONSTANTS
  Job,          \* job ids, which are positive numbers
  MaxAttempts,  \* bound: attempts of the run
  JobsPerPage   \* _GITHUB_JOBS_PER_PAGE_MAX

Attempt == 1..MaxAttempts
Conclusion == {"success", "failure", "skipped"}

(***************************************************************************)
(* jobs: those of each attempt, in the order in which they will be queued; *)
(* queued: how many of the first attempt's are.  done: the conclusion of   *)
(* each job that is completed, else None.  status: of the first attempt.   *)
(* log: the bytes of each job's log.                                       *)
(***************************************************************************)
ASSUME RunAssumption ==
  /\ Job \subseteq Nat \ {0} /\ None \notin Nat /\ MaxAttempts \in Nat \ {0}
  /\ JobsPerPage \in Nat \ {0}
  /\ \A s \in Scenarios :
       /\ s.jobs \in [Attempt -> Seq(Job)] /\ s.queued \in 0..Len(s.jobs[1])
       /\ IsInjective(FlattenSeq(s.jobs))
       /\ s.call.attempt \in Attempt \cup {None}
       /\ s.done \in [Job -> Conclusion \cup {None}]
       /\ s.status \in {"in_progress", "completed"}
       /\ s.status = "completed" =>
            s.queued = Len(s.jobs[1]) /\ \A j \in ToSet(s.jobs[1]) : s.done[j] # None

VARIABLES
  attempt,   \* the attempt the call reads, once it is known
  latest,    \* GitHub: the latest attempt
  status,    \* GitHub: status[a]: of an attempt
  listed,    \* GitHub: listed[a]: jobs of an attempt
  done       \* GitHub: done[j]: conclusion of a job, None while it goes on

callVars == <<pc, attempt, result>>
runVars == <<latest, status, listed, done>>

Raise == Raises /\ UNCHANGED attempt
Deliver(value) == Returns(value) /\ UNCHANGED attempt
Goto(step) == Then(step) /\ UNCHANGED attempt

RunInit ==
  /\ attempt = call.attempt
  /\ latest = 1
  /\ status = [a \in Attempt |-> IF a = 1 THEN scenario.status ELSE "absent"]
  /\ listed = [a \in Attempt |->
                 IF a = 1 THEN SubSeq(scenario.jobs[1], 1, scenario.queued) ELSE <<>>]
  /\ done = scenario.done

-----------------------------------------------------------------------------
(* GitHub. *)

\* run.conclusion
RunConclusion(a) ==
  IF \E j \in ToSet(listed[a]) : done[j] = "failure" THEN "failure" ELSE "success"

\* One page of the jobs of an attempt.
JobsPage(a, page, perPage) ==
  SubSeq(listed[a], (page - 1) * perPage + 1, Min({page * perPage, Len(listed[a])}))

RunTools == {"job_logs", "run_logs", "failed_logs", "list_jobs", "list_artifacts", "watch"}
RunChange == Change(RunTools) /\ UNCHANGED attempt

JobAppears(a) ==
  /\ status[a] = "in_progress"
  /\ Len(listed[a]) < Len(scenario.jobs[a])
  /\ listed' = [listed EXCEPT ![a] = Append(@, scenario.jobs[a][Len(@) + 1])]
  /\ RunChange
  /\ UNCHANGED <<latest, status, done>>

JobCompletes(a, j, c) ==
  /\ j \in ToSet(listed[a]) /\ done[j] = None
  /\ done' = [done EXCEPT ![j] = c]
  /\ RunChange
  /\ UNCHANGED <<latest, status, listed>>

AttemptCompletes(a) ==
  /\ status[a] = "in_progress"
  /\ \A j \in ToSet(listed[a]) : done[j] # None
  /\ status' = [status EXCEPT ![a] = "completed"]
  /\ RunChange
  /\ UNCHANGED <<latest, listed, done>>

Rerun ==
  /\ status[latest] = "completed" /\ latest < MaxAttempts
  /\ latest' = latest + 1
  /\ status' = [status EXCEPT ![latest + 1] = "in_progress"]
  /\ RunChange
  /\ UNCHANGED <<listed, done>>

GitHub ==
  \/ \E a \in Attempt : JobAppears(a) \/ AttemptCompletes(a)
  \/ \E a \in Attempt, j \in Job, c \in Conclusion : JobCompletes(a, j, c)
  \/ Rerun

RunTypeOK ==
  /\ attempt \in Attempt \cup {None}
  /\ latest \in Attempt
  /\ status \in [Attempt -> {"absent", "in_progress", "completed"}]
  /\ \A a \in Attempt : IsPrefix(listed[a], scenario.jobs[a])
  /\ done \in [Job -> Conclusion \cup {None}]
=============================================================================
