------------------------------ MODULE RunWatch ------------------------------
(***************************************************************************)
(* gh_watch_run (tools/actions.py): the status of a run is polled until it *)
(* is completed or a deadline has passed.  The deadline is tested after a  *)
(* poll only, and a poll may wait behind the governor's lock.              *)
(***************************************************************************)
EXTENDS WorkflowRuns

CONSTANTS Interval, Timeout  \* seconds between polls, and to the deadline

ASSUME WatchAssumption == Interval \in Nat \ {0} /\ Timeout \in Nat \ {0}

VARIABLES
  now,     \* the loop's clock, in seconds since the call
  wakeAt,  \* end of the sleep between polls
  polled   \* the status and conclusion the last poll found

watchVars == <<now, wakeAt, polled>>

\* Bound: the clock stops once nothing waits for it any more.
MaxNow == Timeout + Interval

WatchInit == now = 0 /\ wakeAt = 0 /\ polled = None

\* gh run view looks at the latest attempt.
Poll ==
  /\ pc = "poll"
  /\ polled' = [status |-> status[latest], conclusion |-> RunConclusion(latest)]
  /\ Goto("answer")
  /\ UNCHANGED <<now, wakeAt>>

\* Mutant: a run that is not completed is polled again, whatever the time.
AnswerPollForever ==
  /\ pc = "answer"
  /\ CASE polled.status = "completed" -> Deliver(polled) /\ UNCHANGED watchVars
       [] OTHER -> Goto("sleep") /\ wakeAt' = now + Interval /\ UNCHANGED <<now, polled>>

AnswerPoll ==
  /\ pc = "answer"
  /\ CASE polled.status = "completed" ->
            /\ IF call.exitStatus /\ polled.conclusion # "success" THEN Raise ELSE Deliver(polled)
            /\ UNCHANGED watchVars
       [] polled.status # "completed" /\ now >= Timeout -> Raise /\ UNCHANGED watchVars
       [] OTHER -> Goto("sleep") /\ wakeAt' = now + Interval /\ UNCHANGED <<now, polled>>

Wake == pc = "sleep" /\ now >= wakeAt /\ Goto("poll") /\ UNCHANGED watchVars

Tick ==
  /\ pc \in {"poll", "answer", "sleep"} /\ now < MaxNow
  /\ now' = now + 1
  /\ UNCHANGED <<callVars, wakeAt, polled>>

WatchNext == Poll \/ AnswerPoll \/ Wake \/ Tick
=============================================================================
