------------------------------ MODULE RunLists ------------------------------
(***************************************************************************)
(* The tools that list, a page for each call: gh_list_runs and             *)
(* gh_list_run_jobs (tools/actions.py), gh_list_run_artifacts              *)
(* (tools/artifacts.py).  The caller goes on to the next page for as long  *)
(* as it is told that there is one.                                        *)
(***************************************************************************)
EXTENDS WorkflowRuns, PagedReads

CONSTANT SearchWindow  \* _GITHUB_FILTERED_RUNS_MAX

ASSUME WindowAssumption == SearchWindow \in Nat

-----------------------------------------------------------------------------
(* A page. *)

Answer(page, count) == read' = [page |-> page, total |-> count]

\* GitHub's page of the items it lets a search reach, or the beginning of it.
ReadItems ==
  /\ pc = "items"
  /\ LET per == PageLimit
         reach == IF call.filtered THEN Min({SearchWindow, Len(items)}) ELSE Len(items)
         last == Min({listPage * per, reach})
     IN  \E n \in 0..1 :
           /\ n = 0 \/ last - n >= (listPage - 1) * per
           /\ Answer(SubSeq(items, (listPage - 1) * per + 1, last - n), Len(items))
  /\ Goto(IF call.tool = "list_runs" THEN "names" ELSE "verify")
  /\ UNCHANGED <<cursorVars, seen>>

\* The next page is of the attempt asked for, or the latest then.
PageDone(ids, more, incomplete, of) ==
  /\ HandOver(ids, more, incomplete, of, IF call.tool = "list_runs" THEN "items" ELSE "pin")
  /\ attempt' = IF more THEN call.attempt ELSE attempt

\* Mutant: a search is as complete as its total says.
ListRunsUnbounded ==
  /\ pc = "names"
  /\ LET per == PageLimit
         accessible == IF call.filtered THEN Min({read.total, SearchWindow}) ELSE read.total
         page == PageEvidence(listPage, call.perPage, HardPerPage, accessible, Len(read.page))
     IN  IF ~Plausible(listPage, per, accessible, Len(read.page)) THEN Raise /\ UNCHANGED listVars
         ELSE PageDone(read.page, page.hasMore, page.truncated, {})

\* The names of the page's workflows have been looked up, which says nothing of
\* the list; the rest of gh_list_runs.
ListRuns ==
  /\ pc = "names"
  /\ LET per == PageLimit
         accessible == IF call.filtered THEN Min({read.total, SearchWindow}) ELSE read.total
         page == PageEvidence(listPage, call.perPage, HardPerPage, accessible, Len(read.page))
         uncertain == call.filtered /\ read.total >= SearchWindow
     IN  IF ~Plausible(listPage, per, accessible, Len(read.page)) THEN Raise /\ UNCHANGED listVars
         ELSE PageDone(read.page, page.hasMore, page.truncated \/ uncertain, {})

\* gh_list_run_jobs resolves its attempt anew for each page; artifacts are of the
\* run, whose latest attempt is noted.
PinRun ==
  /\ pc = "pin"
  /\ IF call.tool = "list_jobs"
     THEN LET a == IF call.attempt = None THEN latest ELSE call.attempt IN
          IF status[a] = "absent" THEN Raise /\ UNCHANGED listVars
          ELSE /\ attempt' = a /\ pc' = "jobs" /\ UNCHANGED <<result, listVars>>
     ELSE Goto("items") /\ seen' = latest /\ UNCHANGED <<cursorVars, read>>

\* Mutant: the jobs of the run's latest attempt.
ReadJobsOfLatest ==
  /\ pc = "jobs"
  /\ Answer(JobsPage(latest, listPage, PageLimit), Len(listed[latest]))
  /\ Goto("verify")
  /\ UNCHANGED <<cursorVars, seen>>

ReadJobs ==
  /\ pc = "jobs"
  /\ Answer(JobsPage(attempt, listPage, PageLimit), Len(listed[attempt]))
  /\ Goto("verify")
  /\ UNCHANGED <<cursorVars, seen>>

\* The second look of gh_list_run_jobs finds the attempt it asks for.
ListJobs ==
  /\ pc = "verify" /\ call.tool = "list_jobs"
  /\ PageDone(read.page, listPage * PageLimit < read.total, FALSE, {attempt})

\* The second look of gh_list_run_artifacts may find a later attempt.
ListArtifacts ==
  /\ pc = "verify" /\ call.tool = "list_artifacts"
  /\ LET per == PageLimit
         page == PageEvidence(listPage, call.perPage, HardPerPage, read.total, Len(read.page))
     IN  IF latest # seen \/ ~Plausible(listPage, per, read.total, Len(read.page))
         THEN Raise /\ UNCHANGED listVars
         ELSE PageDone(read.page, page.hasMore, page.truncated, {seen})

-----------------------------------------------------------------------------
RunListNext ==
  \/ ReadItems \/ ListRuns \/ PinRun \/ ReadJobs \/ ListJobs \/ ListArtifacts
=============================================================================
