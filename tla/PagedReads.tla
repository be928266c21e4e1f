----------------------------- MODULE PagedReads -----------------------------
(***************************************************************************)
(* A list on GitHub, and a caller who reads it with one call for each      *)
(* page, for as long as the tool says that there is another; and the       *)
(* lists and searches that are read once, up to a limit.                   *)
(***************************************************************************)
EXTENDS ReadCall, PageEvidence

CONSTANTS
  Item,        \* what is listed
  HardPerPage  \* the hard limit on a page, at most GitHub's own

ListTools ==
  {"list_runs", "list_jobs", "list_artifacts", "list_all", "search",
   "pr_diff", "list_files", "list_commits", "list_reviews", "get_thread"}

ASSUME ListAssumption ==
  /\ HardPerPage \in Nat \ {0}
  /\ \A s \in Scenarios :
       /\ s.items \in Seq(Item)
       /\ s.call.tool \in ListTools => s.call.perPage \in Nat \ {0}

VARIABLES
  items,      \* GitHub: the list
  listPage,   \* the page the caller asks for
  seen,       \* what the call's first look found, or None
  read,       \* what GitHub answered with since, or None
  collected,  \* what the caller has been given
  flagged,    \* it has been told that something is incomplete
  pinnedTo,   \* what its pages were said to be of
  deleted,    \* history: something was deleted since it began
  atFirst     \* history: what there was when it began

listVars == <<items, listPage, seen, read, collected, flagged, pinnedTo, deleted, atFirst>>
cursorVars == <<items, listPage, collected, flagged, pinnedTo, deleted, atFirst>>

ListInit(whole) ==
  /\ items = scenario.items
  /\ listPage = 1
  /\ seen = None /\ read = None
  /\ collected = {} /\ flagged = FALSE /\ pinnedTo = {}
  /\ deleted = FALSE
  /\ atFirst = whole

PageLimit == PerPage(call.perPage, HardPerPage)
Page(list) ==
  SubSeq(list, (listPage - 1) * PageLimit + 1, Min({listPage * PageLimit, Len(list)}))

-----------------------------------------------------------------------------
(* GitHub: runs, artifacts and matches appear in front and are deleted;    *)
(* reviews appear at the end and stay.                                     *)

Shrinking == {"list_runs", "list_artifacts", "search", "list_all"}

ItemAppears(i) ==
  /\ i \notin ToSet(items) \cup atFirst
  /\ items' = IF call.tool = "list_reviews" THEN items \o <<i>> ELSE <<i>> \o items
  /\ Change(Shrinking \cup {"list_reviews"})
  /\ UNCHANGED <<listPage, seen, read, collected, flagged, pinnedTo, deleted, atFirst>>

ItemDeleted(i) ==
  /\ i \in ToSet(items)
  /\ items' = KeepOnly(items, Item \ {i})
  /\ deleted' = TRUE
  /\ Change(Shrinking)
  /\ UNCHANGED <<listPage, seen, read, collected, flagged, pinnedTo, atFirst>>

ListGitHub == \E i \in Item : ItemAppears(i) \/ ItemDeleted(i)

-----------------------------------------------------------------------------
\* The caller has a page: it asks for the next, from the first request on, or is done.
HandOver(ids, more, incomplete, of, first) ==
  /\ collected' = collected \cup ToSet(ids)
  /\ flagged' = (flagged \/ incomplete)
  /\ pinnedTo' = pinnedTo \cup of
  /\ IF more THEN listPage' = listPage + 1 /\ Then(first)
     ELSE Returns([collected |-> collected', flagged |-> flagged']) /\ UNCHANGED listPage
  /\ read' = None /\ seen' = None
  /\ UNCHANGED <<items, deleted, atFirst>>

-----------------------------------------------------------------------------
(* The lists that are read once, up to a limit: of pull requests, issues,  *)
(* labels, milestones, releases and repositories; and the searches         *)
(* (tools/discovery.py), whose matches are counted by a second request.    *)

\* A list up to the limit: a full one may go on.
ListAll ==
  /\ pc = "whole"
  /\ HandOver(Page(items), FALSE, Len(Page(items)) >= PageLimit, {}, "whole")

\* gh search: the matches up to the limit, or those found before GitHub gave up.
SearchItems ==
  /\ pc = "matches"
  /\ \E n \in 0..Len(Page(items)) : read' = SubSeq(items, 1, n)
  /\ Then("count")
  /\ UNCHANGED <<cursorVars, seen>>

\* _search_count_evidence for a reply, and what the tool says of the list then.
SearchCount ==
  /\ pc = "count"
  /\ \E incomplete \in BOOLEAN, count \in 0..Len(items) :
       /\ incomplete \/ count = Len(items)
       /\ LET total == Max({count, Len(read)})
          IN  HandOver(read, FALSE, incomplete \/ count < Len(read) \/ Len(read) < total, {},
                       "matches")

RepositoryListNext == ListAll \/ SearchItems \/ SearchCount
=============================================================================
