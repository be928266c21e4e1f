---------------------------- MODULE MCReadTools ----------------------------
(***************************************************************************)
(* Six groups of scenarios: the log of one completed job, every text of up *)
(* to five characters under many selections; the logs, jobs, failed steps  *)
(* and end of a run of two attempts that goes on; lists that grow and      *)
(* shrink; archives of up to three entries; a pull request with four       *)
(* snapshots; two objects that may be there and be seen, or not.           *)
(***************************************************************************)
EXTENDS ReadTools

MCJob == 1..5
MCItem == 11..14
MCWidth ==
  [c \in {"a", "b", "x", "w", "esc", "nl", "rep"} |->
     CASE c = "w" -> 2 [] c = "rep" -> 3 [] OTHER -> 1]
MCVisible == [c \in DOMAIN MCWidth |-> IF c = "esc" THEN <<"x", "b">> ELSE <<c>>]

NoSel == [max |-> None, tail |-> None, start |-> None, end |-> None]
NoCall ==
  [tool |-> "watch", attempt |-> None, job |-> None, sel |-> NoSel, page |-> None, perPage |-> None,
   filtered |-> FALSE, path |-> None, exitStatus |-> FALSE, object |-> "o1", head |-> None]

\* A completed run of one job, then one of two attempts whose first goes on.
Quiet ==
  [call |-> NoCall, jobs |-> <<<<1>>, <<>>>>, queued |-> 1, status |-> "completed",
   done |-> [j \in MCJob |-> IF j = 1 THEN "success" ELSE None],
   log |-> [j \in MCJob |-> <<>>], items |-> <<>>, changes |-> 0,
   response |-> <<>>, declared |-> 0, expired |-> FALSE, entries |-> <<>>,
   first |-> <<"b1", "h1">>, size |-> None, anchor |-> None, comments |-> 0,
   present |-> {}, empty |-> FALSE, access |-> TRUE, related |-> TRUE,
   commits |-> 0, files |-> 0, longMessage |-> FALSE, listing |-> 0]
Busy ==
  [Quiet EXCEPT
     !.jobs = <<<<2, 1, 3>>, <<5, 4>>>>, !.queued = 2, !.status = "in_progress",
     !.done = [j \in MCJob |-> IF j = 1 THEN "skipped" ELSE IF j = 2 THEN "failure" ELSE None],
     !.log = [j \in MCJob |-> Encode(CASE j = 2 -> <<"a">> [] j = 3 -> <<"w", "b">> [] OTHER -> <<"x">>)],
     !.changes = 3]

-----------------------------------------------------------------------------
(* One log. *)

Texts ==
  {Encode(t) : t \in BoundedSeq({"a", "b"}, 5) \cup BoundedSeq({"a", "w", "esc"}, 3)}
  \cup {SubSeq(Encode(t \o <<"w">>), 1, Len(Encode(t)) + 1) : t \in BoundedSeq({"a", "w"}, 2)}

Markers ==
  {[NoSel EXCEPT !.start = s, !.end = e, !.max = m] :
     s \in {None, <<"a">>, <<"a", "a", "b">>}, e \in {None, <<"b">>, <<"b", "a">>}, m \in {None, 2}}
  \cup {[NoSel EXCEPT !.start = <<"esc">>, !.end = <<"b", "w">>, !.max = 4]}
Tails == {[NoSel EXCEPT !.tail = n, !.max = m] : n \in {1, 3}, m \in {None, 2}}

OneLog ==
  {[Quiet EXCEPT !.log[1] = t,
                 !.call = [NoCall EXCEPT !.tool = "job_logs", !.attempt = 1, !.job = 1, !.sel = s]] :
     t \in Texts, s \in Markers \cup Tails}

-----------------------------------------------------------------------------
(* A run that goes on. *)

Complete3 ==
  [Busy EXCEPT !.queued = 3, !.status = "completed", !.done[3] = "success"]

RunCalls ==
  {[NoCall EXCEPT !.tool = "job_logs", !.attempt = a, !.job = j] : a \in 1..2, j \in {1, 3, 4}}
  \cup {[NoCall EXCEPT !.tool = "run_logs", !.attempt = 1, !.sel = s] :
          s \in {NoSel, [NoSel EXCEPT !.tail = 2], [NoSel EXCEPT !.start = <<"a", "nl">>, !.end = <<"w">>]}}
  \cup {[NoCall EXCEPT !.tool = "failed_logs", !.attempt = a, !.sel.max = 2] : a \in {None, 1, 2}}
  \cup {[NoCall EXCEPT !.tool = "list_jobs", !.attempt = a, !.perPage = n] : a \in {None, 1}, n \in {1, 3}}
  \cup {[NoCall EXCEPT !.tool = "watch", !.exitStatus = e] : e \in BOOLEAN}

Runs ==
  {[s EXCEPT !.call = c] : s \in {Busy, [Busy EXCEPT !.done[2] = None], Complete3}, c \in RunCalls}
  \cup {[Busy EXCEPT !.jobs = <<<<2, 1, 3, 5>>, <<4>>>>, !.queued = 3,
                     !.call = [NoCall EXCEPT !.tool = "job_logs", !.attempt = 1, !.job = 3]]}
  \cup {[Complete3 EXCEPT !.jobs = <<<<2, 1, 3, 5>>, <<4>>>>, !.queued = 4, !.done[5] = "success",
                          !.call = [NoCall EXCEPT !.tool = t, !.attempt = 1, !.job = 5]] :
          t \in {"job_logs", "run_logs"}}

-----------------------------------------------------------------------------
(* Lists. *)

Lists ==
  {[Quiet EXCEPT !.items = SubSeq(<<11, 12, 13>>, 1, n), !.changes = 2,
                 !.call = [NoCall EXCEPT !.tool = t, !.filtered = f, !.perPage = p]] :
     n \in 0..3, t \in {"list_runs", "list_artifacts"}, f \in BOOLEAN, p \in {1, 3}}
  \cup {[Quiet EXCEPT !.items = SubSeq(<<11, 12, 13>>, 1, n), !.changes = 2,
                      !.call = [NoCall EXCEPT !.tool = t, !.perPage = p]] :
           n \in 0..3, t \in {"list_all", "search"}, p \in 1..2}

-----------------------------------------------------------------------------
(* Archives. *)

File(parts, n) ==
  [absolute |-> FALSE, parts |-> parts, special |-> FALSE, kind |-> "file", size |-> n,
   text |-> <<"a">>]
PoolEntries ==
  {File(<<1>>, 1), File(<<1, 2>>, 1), File(<<0, 1, 0, 2>>, 2), File(<<1, 2, 3>>, 1),
   [File(<<1, 0>>, 0) EXCEPT !.kind = "directory"],
   [File(<<2>>, 1) EXCEPT !.text = None]}
Oddities ==
  {[File(<<1>>, 1) EXCEPT !.absolute = TRUE], File(<<1, -1, 2>>, 1),
   [File(<<3>>, 1) EXCEPT !.special = TRUE], File(<<0>>, 0)}

Archives ==
  {[Quiet EXCEPT !.response = <<"h", "s", "b">>, !.entries = es,
                 !.call = [NoCall EXCEPT !.tool = "archive_files", !.page = 1, !.perPage = 1]] :
     es \in BoundedSeq(PoolEntries, 3)}
  \cup {[Quiet EXCEPT !.response = r, !.declared = d, !.expired = x, !.entries = es,
                      !.call = [NoCall EXCEPT !.tool = t, !.path = <<1>>, !.sel.max = 1, !.page = 2,
                                              !.perPage = 3]] :
          r \in {<<"h">>, <<"h", "s">>, <<"h", "s", "b", "b", "b">>, <<"h", "s", "b", "b", "b", "b">>},
          d \in {3, 4}, x \in BOOLEAN, t \in {"archive_files", "read_file"},
          es \in {<<File(<<1>>, 1)>>, <<File(<<2>>, 1)>>, <<File(<<1>>, 2)>>,
                  <<File(<<2>>, 1), File(<<1>>, 1), File(<<3>>, 1), File(<<4>>, 0)>>}
                 \cup {<<e>> : e \in Oddities}}

-----------------------------------------------------------------------------
(* A pull request. *)

MCBase == {"b1", "b2"}
MCHead == {"h1", "h2"}
Size == [s \in MCBase \X MCHead |->
           CASE s = <<"b1", "h1">> -> 3 [] s = <<"b1", "h2">> -> 2 [] s = <<"b2", "h1">> -> 1 [] OTHER -> 0]
Pull == [Quiet EXCEPT !.size = Size, !.anchor = "h1", !.comments = 2, !.changes = 3]

Pulls ==
  {[Pull EXCEPT !.call = [NoCall EXCEPT !.tool = t, !.perPage = p], !.first = s] :
     t \in {"pr_diff", "list_files", "list_commits"}, p \in {1, 3},
     s \in {<<"b1", "h1">>, <<"b1", "h2">>}}
  \cup {[Pull EXCEPT !.call = [NoCall EXCEPT !.tool = "list_reviews", !.perPage = p],
                     !.items = SubSeq(<<11, 12, 13>>, 1, n), !.changes = 2] : p \in {1, 2, 3}, n \in 0..3}
  \cup {[Pull EXCEPT !.call = [NoCall EXCEPT !.tool = "get_thread", !.perPage = 2, !.head = h],
                     !.comments = n] : h \in MCHead, n \in 2..3}

-----------------------------------------------------------------------------
(* Objects. *)

MCObject == {"o1", "o2"}
Repositories ==
  {[Quiet EXCEPT !.present = p, !.access = a, !.changes = 2, !.files = 1, !.commits = 1, !.listing = 2] :
     p \in SUBSET MCObject, a \in BOOLEAN}
  \cup {[Quiet EXCEPT !.empty = TRUE, !.changes = 2]}

Objects ==
  {[r EXCEPT !.call = [NoCall EXCEPT !.tool = t, !.perPage = 3]] :
     r \in Repositories, t \in {"get_ref", "get_commit", "list_tree"}}
  \cup {[r EXCEPT !.call = [NoCall EXCEPT !.tool = "compare", !.perPage = 3, !.head = h], !.related = s] :
           r \in Repositories, h \in MCObject, s \in BOOLEAN}
  \cup {[Quiet EXCEPT !.present = MCObject, !.commits = c, !.files = f, !.longMessage = l, !.listing = f,
                      !.call = [NoCall EXCEPT !.tool = t, !.perPage = p, !.head = "o2"]] :
           c \in 0..4, f \in 0..5, l \in BOOLEAN, p \in {1, 4}, t \in {"compare", "list_tree"}}

MCScenarios == OneLog \cup Runs \cup Lists \cup Archives \cup Pulls \cup Objects
=============================================================================
