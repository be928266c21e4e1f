------------------------------ MODULE LogReads ------------------------------
(***************************************************************************)
(* The tools that read logs: gh_get_job_logs and gh_get_run_logs stream    *)
(* the log of one job, or of every job of an attempt, into a selection,    *)
(* between two looks at the identity of what they read                     *)
(* (tools/action_logs.py); gh_get_failed_run_logs takes the text of the    *)
(* failed steps in one piece (tools/actions.py).                           *)
(***************************************************************************)
EXTENDS WorkflowRuns

CONSTANTS
  Newline,     \* the character between the logs of two jobs
  ChunkBytes,  \* _STREAM_CHUNK_BYTES
  MaxLogJobs   \* MCP_GH_MAX_ACTION_LOG_JOBS

LogTools == {"job_logs", "run_logs", "failed_logs"}

\* What action_logs.py lets a caller ask for, and what a log holds.
ASSUME LogReadsAssumption ==
  /\ Newline \in Char /\ ChunkBytes \in Nat \ {0} /\ MaxLogJobs \in Nat
  /\ \A s \in Scenarios :
       /\ s.log \in [Job -> Seq(Char \X (1..4))] /\ \A j \in Job : IsEncoding(s.log[j])
       /\ s.call.tool \in LogTools =>
            /\ {s.call.sel.max, s.call.sel.tail} \subseteq (Nat \ {0}) \cup {None}
            /\ {s.call.sel.start, s.call.sel.end} \subseteq (Seq(Char) \ {<<>>}) \cup {None}
            /\ s.call.sel.tail # None => s.call.sel.start = None /\ s.call.sel.end = None
       /\ s.call.tool = "job_logs" => s.call.job \in Job
       /\ s.call.tool \in {"job_logs", "run_logs"} => s.call.attempt # None

VARIABLES
  round,      \* the first look at the identity, or the second
  seenDone,   \* the conclusion of the job (status of the attempt) at the first look
  page,       \* of the jobs, that is read next
  total,      \* total_count on the first page, or None
  scanned,    \* jobs read so far: their ids and conclusions
  before,     \* ids of the jobs of the attempt at the first look
  queue,      \* jobs whose logs are still to be read
  firstLog,   \* none has been read
  wire,       \* bytes of the log being read that are still to come
  pending,    \* bytes of an incomplete character
  acc         \* the accumulator

pageVars == <<page, total, scanned>>
streamVars == <<firstLog, wire, pending, acc>>
logVars == <<round, seenDone, pageVars, before, queue, streamVars>>

LogInit ==
  /\ round = "before" /\ seenDone = None
  /\ page = 1 /\ total = None /\ scanned = <<>>
  /\ before = <<>> /\ queue = <<>>
  /\ firstLog = TRUE /\ wire = <<>> /\ pending = <<>>
  /\ acc = NewEvidence(call.sel)

Stop == Raise /\ UNCHANGED logVars
\* Mutant: pages are counted from 0.
FirstPageZero == page' = 0 /\ total' = None /\ scanned' = <<>>

FirstPage == page' = 1 /\ total' = None /\ scanned' = <<>>

Entries(ids) == [k \in DOMAIN ids |-> [id |-> ids[k], done |-> done[ids[k]]]]
Ids(entries) == [k \in DOMAIN entries |-> entries[k].id]

-----------------------------------------------------------------------------
(* The identity of what is read. *)

\* _get_job_snapshot, up to the attempt: the job as it is now.
ReadJob ==
  /\ pc = "job"
  /\ IF \A a \in Attempt : call.job \notin ToSet(listed[a]) THEN Stop
     ELSE /\ Goto("attempt")
          /\ seenDone' = IF round = "before" THEN done[call.job] ELSE seenDone
          /\ UNCHANGED <<round, pageVars, before, queue, streamVars>>

\* _get_run_attempt_snapshot, and that a run whose logs are read is completed.
ReadAttempt ==
  /\ pc = "attempt"
  /\ IF \/ status[attempt] = "absent"
        \/ call.tool = "run_logs" /\ round = "before" /\ status[attempt] # "completed"
     THEN Stop
     ELSE /\ Goto(IF call.tool = "job_logs" THEN "member" ELSE "list")
          /\ FirstPage
          /\ UNCHANGED <<round, seenDone, before, queue, streamVars>>

\* finish, which raises when a marker is missing.
DeliverEvidence ==
  /\ IF Finish(acc, call.sel) = None THEN Raise
     ELSE Deliver([attempt |-> attempt, evidence |-> Finish(acc, call.sel)])
  /\ UNCHANGED logVars

\* _verify_job_membership, a page at a time, and what the tool does next.
ReadMember ==
  /\ pc = "member"
  /\ LET ids == JobsPage(attempt, page, JobsPerPage)
         count == Len(listed[attempt])
         seen == Len(scanned) + Len(ids)
     IN  CASE total \notin {None, count} -> Stop
           [] total \in {None, count} /\ call.job \in ToSet(ids) ->
                CASE round = "after" -> DeliverEvidence
                  [] round = "before" /\ seenDone = None -> Stop
                  [] OTHER -> /\ Goto("open") /\ queue' = <<call.job>>
                              /\ UNCHANGED <<round, seenDone, pageVars, before, streamVars>>
           [] OTHER ->
                IF seen >= count \/ seen >= MaxLogJobs \/ ids = <<>> THEN Stop
                ELSE /\ total' = count /\ page' = page + 1
                     /\ scanned' = scanned \o Entries(ids)
                     /\ UNCHANGED <<callVars, round, seenDone, before, queue, streamVars>>

\* The order of ids.
Smaller == {p \in Job \X Job : p[1] < p[2]}

\* The jobs of an attempt, once they have all been read.
WithAllJobs(entries) ==
  LET ids == Sorted(Ids(entries), Smaller)
      Finished(e) == e.done # None
      withLog == {e.id : e \in {e \in ToSet(entries) : e.done # "skipped"}}
      distinct == IsInjective(Ids(entries))
  IN  CASE ~distinct -> Stop
        [] distinct /\ round = "after" /\ ids # before -> Stop
        [] distinct /\ round = "after" /\ ids = before -> DeliverEvidence
        [] distinct /\ round = "before" /\ \E e \in ToSet(entries) : ~Finished(e) -> Stop
        [] OTHER ->
             LET logged == KeepOnly(ids, withLog) IN
             /\ before' = ids /\ queue' = logged
             /\ round' = IF logged = <<>> THEN "after" ELSE "before"
             /\ Goto(IF logged = <<>> THEN "attempt" ELSE "open")
             /\ UNCHANGED <<seenDone, pageVars, streamVars>>

\* _list_attempt_jobs, a page at a time.
ReadList ==
  /\ pc = "list"
  /\ LET ids == JobsPage(attempt, page, JobsPerPage)
         count == Len(listed[attempt])
         all == scanned \o Entries(ids)
     IN  CASE total \notin {None, count} \/ (total = None /\ count > MaxLogJobs) -> Stop
           [] OTHER ->
                CASE Len(all) = count -> WithAllJobs(all)
                  [] Len(all) > count \/ (Len(all) < count /\ ids = <<>>) -> Stop
                  [] OTHER ->
                       /\ total' = count /\ page' = page + 1 /\ scanned' = all
                       /\ UNCHANGED <<callVars, round, seenDone, before, queue, streamVars>>

-----------------------------------------------------------------------------
(* The streams (_stream_text_once). *)

\* The bytes of a job's log so far; a skipped job has none.
OpenLog ==
  /\ pc = "open"
  /\ LET j == Head(queue) IN
     IF done[j] = "skipped" THEN Stop
     ELSE /\ \E n \in (IF done[j] = None THEN 0 ELSE Len(scenario.log[j]))..Len(scenario.log[j]) :
               wire' = SubSeq(scenario.log[j], 1, n)
          /\ acc' = IF firstLog THEN acc ELSE AddText(acc, <<Newline>>, call.sel)
          /\ pending' = <<>>
          /\ Goto("stream")
          /\ UNCHANGED <<round, seenDone, pageVars, before, queue, firstLog>>

\* A chunk arrives: whole characters reach on_chunk.
TakeChunk ==
  /\ pc = "stream"
  /\ \E n \in 1..Min({ChunkBytes, Len(wire)}) :
       LET decoded == Complete(pending \o SubSeq(wire, 1, n)) IN
       /\ wire' = SubSeq(wire, n + 1, Len(wire))
       /\ pending' = decoded.rest
       /\ acc' = AddText(acc, decoded.text, call.sel)
  /\ UNCHANGED <<callVars, round, seenDone, pageVars, before, queue, firstLog>>

\* The stream ends and gh exits 0: the next log, or the second look.
EndStream ==
  /\ pc = "stream" /\ wire = <<>>
  /\ acc' = AddText(acc, Flush(pending), call.sel)
  /\ pending' = <<>> /\ firstLog' = FALSE
  /\ queue' = Tail(queue)
  /\ round' = IF Tail(queue) = <<>> THEN "after" ELSE "before"
  /\ Goto(IF Tail(queue) # <<>> THEN "open"
          ELSE IF call.tool = "job_logs" THEN "job" ELSE "attempt")
  /\ UNCHANGED <<seenDone, pageVars, before, wire>>

\* Mutant: a stream is retried like any read.
StreamRetrySafeMutant == TRUE

\* The policy of a stream: the sink may already have consumed a part of it.
StreamRetrySafe == FALSE

\* gh fails or is killed in the middle; were the stream retry-safe, the governor
\* would run it again.
StreamFails ==
  /\ pc = "stream"
  /\ IF StreamRetrySafe
     THEN /\ wire' = scenario.log[Head(queue)] /\ pending' = <<>>
          /\ UNCHANGED <<callVars, round, seenDone, pageVars, before, queue, firstLog, acc>>
     ELSE Stop

-----------------------------------------------------------------------------
(* The failed steps of a run. *)

\* _get_run_snapshot for the attempt asked for, or the latest.
ResolveFailed ==
  /\ pc = "resolve"
  /\ LET a == IF attempt = None THEN latest ELSE attempt IN
     IF status[a] = "absent" THEN Raise /\ UNCHANGED logVars
     ELSE /\ attempt' = a /\ seenDone' = status[a]
          /\ pc' = "failed" /\ UNCHANGED result
          /\ UNCHANGED <<round, pageVars, before, queue, streamVars>>

\* The jobs of an attempt that have failed.
FailedJobs(a) == KeepOnly(listed[a], {j \in Job : done[j] = "failure"})

\* What gh run view --log-failed prints for an attempt.
FailedText(a) ==
  LET ids == FailedJobs(a)
  IN  FlattenSeq([k \in DOMAIN ids |-> Decoded(scenario.log[ids[k]])])

\* Mutant: the attempt is left to gh, which takes the latest.
ReadFailedLatest ==
  /\ pc = "failed"
  /\ acc' = [acc EXCEPT !.seen = FailedText(latest)]
  /\ queue' = FailedJobs(latest)
  /\ Goto("again")
  /\ UNCHANGED <<round, seenDone, pageVars, before, firstLog, wire, pending>>

\* queue: the jobs the text is of.
ReadFailed ==
  /\ pc = "failed"
  /\ acc' = [acc EXCEPT !.seen = FailedText(attempt)]
  /\ queue' = FailedJobs(attempt)
  /\ Goto("again")
  /\ UNCHANGED <<round, seenDone, pageVars, before, firstLog, wire, pending>>

\* The attempt is looked at again; it exists, so it is the same.
VerifyFailed ==
  /\ pc = "again"
  /\ Deliver([attempt |-> attempt, status |-> seenDone,
              evidence |-> Bounded(acc.seen, Limit(call.sel))])
  /\ UNCHANGED logVars

-----------------------------------------------------------------------------
LogNext ==
  \/ ReadJob \/ ReadAttempt \/ ReadMember \/ ReadList
  \/ OpenLog \/ TakeChunk \/ EndStream \/ StreamFails
  \/ ResolveFailed \/ ReadFailed \/ VerifyFailed
=============================================================================
