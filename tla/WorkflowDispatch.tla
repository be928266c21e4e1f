-------------------------- MODULE WorkflowDispatch --------------------------
(***************************************************************************)
(* gh_run_workflow_exact (tools/workflow_dispatch.py) for one duplicate    *)
(* identity: one workflow at one expected head SHA.  A call, under a       *)
(* process-wide asyncio.Lock, reconciles the reservation an earlier call   *)
(* left, runs the duplicate gate on run counts, checks the ref again,      *)
(* POSTs once and reads the run back.                                      *)
(*                                                                         *)
(* GitHub lists a run some time after it creates it; reads of a run by its *)
(* ID are current.  Other users dispatch, delete and move the ref at any   *)
(* await, runs complete, a cancelled call's POST may be decided later, and *)
(* the process may restart, which forgets the reservations.                *)
(***************************************************************************)
EXTENDS GhAttempt, FiniteSets

CONSTANTS
  Calls,       \* invocations of the tool
  Others,      \* stands for every other user who dispatches the workflow
  Runs,        \* run IDs GitHub may give, within and beyond this identity
  HistoryMax,  \* _GITHUB_FILTERED_RUNS_MAX: what a filtered count saturates at
  MaxMoves     \* bound: times the ref moves

Reservation == [run : Runs \cup {None}, unknown : BOOLEAN]

ASSUME DispatchAssumption ==
  /\ None \notin Calls /\ Others \notin Calls \cup {None}
  /\ Runs \cap {None, "malformed"} = {} /\ None \notin Reservation \cup {"malformed"}
  /\ HistoryMax \in Nat \ {0} /\ MaxMoves \in Nat

VARIABLES
  pc,           \* pc[c]: where call c stands
  holder,       \* holder of _WORKFLOW_DISPATCH_LOCK
  reservation,  \* the entry of _WORKFLOW_DISPATCH_RESERVATIONS, or None
  gate,         \* locals of the holder: why it counts, and its counts so far
  receipt,      \* dispatch_receipt: a run, None, or "malformed" (receipt_warning)
  written,      \* write_completed as the holder knows it
  outcome,      \* outcome[c]: what the call returned, or None
  status,       \* GitHub: status[r]
  maker,        \* GitHub: maker[r], who dispatched run r
  exact,        \* GitHub: the runs at the expected head
  listed,       \* GitHub: the runs the list shows
  posts,        \* GitHub: calls whose POST is received and not decided
  refExact,     \* GitHub: whether the ref is at the expected head
  moves,
  past,         \* history: calls of an earlier process
  garbled,      \* history: calls whose POST gh confirmed in an unreadable reply
  counted,      \* history: the runs listed at the all-status count
  newcomers     \* history: runs listed since that count

callVars   == <<gate, receipt, written>>
runVars    == <<status, maker, exact, listed>>
remoteVars == <<runVars, posts, refExact, moves>>
history    == <<past, garbled, counted, newcomers>>
vars == <<pc, holder, reservation, callVars, outcome, remoteVars, history>>

Inside ==
  {"reading reservation", "checking ref", "counting completed", "counting all", "recounting",
   "rechecking ref", "checking workflow", "ready", "posting", "reading"}
Purposes == {"dispatch", "deleted run", "unresolved"}
NoGate == [purpose |-> "dispatch", completed |-> 0, all |-> 0]

Results == [outcome : Outcomes, run : Runs \cup {None}]

Goto(c, step) == pc' = [pc EXCEPT ![c] = step]

Matching(states) == {r \in listed \cap exact : status[r] \in states}
Count(states) ==
  IF Cardinality(Matching(states)) < HistoryMax THEN Cardinality(Matching(states)) ELSE HistoryMax
Existing == {"active", "completed"}

Init ==
  /\ pc = [c \in Calls |-> "idle"]
  /\ holder = None
  /\ reservation = None
  /\ gate = NoGate
  /\ receipt = None
  /\ written = "unknown"
  /\ outcome = [c \in Calls |-> None]
  /\ status = [r \in Runs |-> "none"]
  /\ maker = [r \in Runs |-> None]
  /\ exact = {}
  /\ listed = {}
  /\ posts = {}
  /\ refExact = TRUE
  /\ moves = 0
  /\ past = {}
  /\ garbled = {}
  /\ counted = {}
  /\ newcomers = 0

-----------------------------------------------------------------------------
\* The lock is granted and _require_no_local_reservation starts.
Enter(c) ==
  /\ holder = None
  /\ pc[c] = "idle"
  /\ holder' = c
  /\ \/ reservation = None /\ Goto(c, "checking ref") /\ UNCHANGED gate
     \/ /\ reservation # None /\ reservation.run # None
        /\ Goto(c, "reading reservation")
        /\ UNCHANGED gate
     \/ /\ reservation # None /\ reservation.run = None
        /\ Goto(c, "counting completed")
        /\ gate' = [gate EXCEPT !.purpose = "unresolved"]
  /\ UNCHANGED <<reservation, receipt, written, outcome, remoteVars, history>>

\* The critical section ends; the locals of the call are gone.
Leave(c) ==
  /\ Goto(c, "done")
  /\ holder' = None
  /\ gate' = NoGate
  /\ receipt' = None
  /\ written' = "unknown"
  /\ counted' = {}
  /\ newcomers' = 0
  /\ UNCHANGED <<past, garbled>>

\* A read fails, a precondition does not hold, or the call is cancelled: it
\* raises out of the section, and the reservation stays as it is.
Raise(c) ==
  /\ pc[c] \in Inside
  /\ Leave(c)
  /\ UNCHANGED <<reservation, outcome, remoteVars>>

\* The reserved run is read by its ID: gone (404), it must be missing from the
\* list too; completed, it is released; nonterminal, the call is a duplicate;
\* at another head, the call is refused whatever the run's status.
ReadReservation(c) ==
  /\ pc[c] = "reading reservation"
  /\ \/ /\ status[reservation.run] = "deleted"
        /\ Goto(c, "counting completed")
        /\ gate' = [gate EXCEPT !.purpose = "deleted run"]
        /\ UNCHANGED <<holder, reservation, receipt, written, history>>
     \/ /\ status[reservation.run] = "completed" /\ reservation.run \in exact
        /\ reservation' = None
        /\ Goto(c, "checking ref")
        /\ UNCHANGED <<holder, callVars, history>>
     \/ /\ status[reservation.run] = "active" \/ reservation.run \notin exact
        /\ status[reservation.run] # "deleted"
        /\ Leave(c)
        /\ UNCHANGED reservation
  /\ UNCHANGED <<outcome, remoteVars>>

CheckRef(c) ==
  /\ pc[c] = "checking ref"
  /\ refExact
  /\ Goto(c, "counting completed")
  /\ gate' = [gate EXCEPT !.purpose = "dispatch"]
  /\ UNCHANGED <<holder, reservation, receipt, written, outcome, remoteVars, history>>

\* _require_no_matching_dispatch: the completed runs, all the runs, and the
\* completed runs again, each count possibly at its bound.
CountCompleted(c) ==
  /\ pc[c] = "counting completed"
  /\ gate' = [gate EXCEPT !.completed = Count({"completed"})]
  /\ Goto(c, "counting all")
  /\ UNCHANGED <<holder, reservation, receipt, written, outcome, remoteVars, history>>

\* The gate lets the call go on: to the POST, or to forget a deleted run and
\* start over.  For an unresolved reservation it never does.
PassGate(c) ==
  \/ /\ gate.purpose = "dispatch"
     /\ Goto(c, "rechecking ref")
     /\ UNCHANGED reservation
  \/ /\ gate.purpose = "deleted run"
     /\ Goto(c, "checking ref")
     /\ reservation' = None

\* Mutant: a count is trusted at the bound of what GitHub reports.
CountAllSaturated(c) ==
  /\ pc[c] = "counting all"
  /\ Count(Existing) = gate.completed
  /\ gate' = [gate EXCEPT !.all = Count(Existing)]
  /\ counted' = Matching(Existing)
  /\ newcomers' = 0
  /\ \/ Count(Existing) = 0 /\ PassGate(c)
     \/ Count(Existing) > 0 /\ Goto(c, "recounting") /\ UNCHANGED reservation
  /\ UNCHANGED <<holder, receipt, written, outcome, remoteVars, past, garbled>>

CountAll(c) ==
  /\ pc[c] = "counting all"
  /\ gate.completed < HistoryMax
  /\ Count(Existing) < HistoryMax
  /\ Count(Existing) = gate.completed
  /\ gate' = [gate EXCEPT !.all = Count(Existing)]
  /\ counted' = Matching(Existing)
  /\ newcomers' = 0
  /\ \/ Count(Existing) = 0 /\ PassGate(c)
     \/ Count(Existing) > 0 /\ Goto(c, "recounting") /\ UNCHANGED reservation
  /\ UNCHANGED <<holder, receipt, written, outcome, remoteVars, past, garbled>>

\* Mutant: the completed runs are not counted again.
RecountUnread(c) ==
  /\ pc[c] = "recounting"
  /\ PassGate(c)
  /\ UNCHANGED <<holder, callVars, outcome, remoteVars, history>>

Recount(c) ==
  /\ pc[c] = "recounting"
  /\ Count({"completed"}) < HistoryMax
  /\ Count({"completed"}) = gate.completed
  /\ PassGate(c)
  /\ UNCHANGED <<holder, callVars, outcome, remoteVars, history>>

\* No tag shares the branch's name, and the ref is still at the expected head.
RecheckRef(c) ==
  /\ pc[c] = "rechecking ref"
  /\ refExact
  /\ Goto(c, "checking workflow")
  /\ UNCHANGED <<holder, reservation, callVars, outcome, remoteVars, history>>

\* Mutant: the reservation is only made once GitHub has answered.
CheckWorkflowUnreserved(c) ==
  /\ pc[c] = "checking workflow"
  /\ Goto(c, "ready")
  /\ UNCHANGED <<holder, reservation, callVars, outcome, remoteVars, history>>

\* The workflow is active; write() reserves before its first await.
CheckWorkflow(c) ==
  /\ pc[c] = "checking workflow"
  /\ Goto(c, "ready")
  /\ reservation' = [run |-> None, unknown |-> TRUE]
  /\ UNCHANGED <<holder, callVars, outcome, remoteVars, history>>

SendPost(c) ==
  /\ pc[c] = "ready"
  /\ Goto(c, "posting")
  /\ posts' = posts \cup {c}
  /\ UNCHANGED <<holder, reservation, callVars, outcome, runVars, refExact, moves, history>>

\* The governor refuses the POST while a cooldown lasts.
RefusePost(c) ==
  /\ pc[c] = "ready"
  /\ Goto(c, "reading")
  /\ written' = "no"
  /\ UNCHANGED <<holder, reservation, gate, receipt, outcome, remoteVars, history>>

\* The gh process ends.  A success names the run, unless its details are malformed.
FinishPost(c) ==
  /\ pc[c] = "posting"
  /\ \E end \in ApiWriteEnds :
        /\ end.fate = "applied" <=> \E r \in Runs : maker[r] = c
        /\ posts' = IF end.fate = "rejected" THEN posts \ {c} ELSE posts
        /\ written' = WriteCompleted(end.verdict)
        /\ garbled' = IF end.confirmed /\ end.verdict.failed THEN garbled \cup {c} ELSE garbled
        /\ \/ /\ end.verdict.failed
              /\ UNCHANGED <<reservation, receipt>>
           \/ /\ ~end.verdict.failed
              /\ receipt' \in {r \in Runs : maker[r] = c} \cup {"malformed"}
              /\ reservation' = [run |-> IF receipt' \in Runs THEN receipt' ELSE None,
                                 unknown |-> FALSE]
  /\ Goto(c, "reading")
  /\ UNCHANGED <<holder, gate, outcome, runVars, refExact, moves, past, counted, newcomers>>

\* execute_write_readback returns; the reservation is settled and the lock released.
Report(c, read, matches, run) ==
  /\ outcome' = [outcome EXCEPT ![c] =
       [outcome |-> [write_completed |-> written,
                     readback_completed |-> read,
                     state_matches_requested |-> matches],
        run |-> run]]
  /\ reservation' = IF written = "no" THEN None
                    ELSE [run |-> IF receipt \in Runs THEN receipt ELSE None,
                          unknown |-> written = "unknown"]
  /\ Leave(c)
  /\ UNCHANGED remoteVars

YesOrNo(b) == IF b THEN "yes" ELSE "no"

ReadOwnRun(c) ==
  /\ pc[c] = "reading"
  /\ receipt \in Runs
  /\ status[receipt] # "deleted"
  /\ Report(c, TRUE, YesOrNo(receipt \in exact), receipt)

\* Mutant: the list answers for a POST that named no run, old runs or not.
ReadListRegardless(c) ==
  /\ pc[c] = "reading"
  /\ receipt = None
  /\ \/ /\ Count(Existing) = 1
        /\ \E r \in Matching(Existing) : Report(c, TRUE, "yes", r)
     \/ /\ Count(Existing) # 1
        /\ Report(c, TRUE, "no", None)

\* Without a receipt the list answers, if the gate found it empty.
ReadList(c) ==
  /\ pc[c] = "reading"
  /\ receipt = None
  /\ gate.all = 0
  /\ \/ /\ Count(Existing) = 1
        /\ \E r \in Matching(Existing) : Report(c, TRUE, "yes", r)
     \/ /\ Count(Existing) # 1
        /\ Report(c, TRUE, "no", None)

\* The readback raises: a failed read, a malformed receipt, or a list that
\* could not tell a new run from the old ones.
FailReadback(c) ==
  /\ pc[c] = "reading"
  /\ Report(c, FALSE, "unknown", None)

-----------------------------------------------------------------------------
\* GitHub and its other users.
Unused == {r \in Runs : status[r] = "none"}

CreateRun(who) ==
  /\ Unused # {}
  /\ LET r == CHOOSE unused \in Unused : TRUE IN
       /\ status' = [status EXCEPT ![r] = "active"]
       /\ maker' = [maker EXCEPT ![r] = who]
       /\ exact' = IF refExact THEN exact \cup {r} ELSE exact
  /\ UNCHANGED <<pc, holder, reservation, callVars, outcome, listed, refExact, moves, history>>

\* A POST is decided: before gh ends, or after its call was given up.
ApplyPost(c) == c \in posts /\ posts' = posts \ {c} /\ CreateRun(c)

\* Runs that others make at another head do not concern this identity.
DispatchByOthers == refExact /\ CreateRun(Others) /\ UNCHANGED posts

ListRun(r) ==
  /\ status[r] \in Existing /\ r \notin listed
  /\ listed' = listed \cup {r}
  /\ newcomers' = IF holder # None /\ r \in exact THEN newcomers + 1 ELSE newcomers
  /\ UNCHANGED <<pc, holder, reservation, callVars, outcome, status, maker, exact, posts,
                 refExact, moves, past, garbled, counted>>

EndRun(r) ==
  /\ \/ /\ status[r] = "active"
        /\ status' = [status EXCEPT ![r] = "completed"]
        /\ UNCHANGED listed
     \/ /\ status[r] \in Existing
        /\ status' = [status EXCEPT ![r] = "deleted"]
        /\ listed' = listed \ {r}
  /\ UNCHANGED <<pc, holder, reservation, callVars, outcome, maker, exact, posts,
                 refExact, moves, history>>

MoveRef ==
  /\ moves < MaxMoves
  /\ moves' = moves + 1
  /\ refExact' = ~refExact
  /\ UNCHANGED <<pc, holder, reservation, callVars, outcome, runVars, posts, history>>

\* The server restarts: the dictionary of reservations starts empty.
Restart ==
  /\ past' = {c \in Calls : pc[c] # "idle"}
  /\ past' # past
  /\ pc' = [c \in Calls |-> IF pc[c] = "idle" THEN "idle" ELSE "done"]
  /\ holder' = None
  /\ reservation' = None
  /\ gate' = NoGate
  /\ receipt' = None
  /\ written' = "unknown"
  /\ counted' = {}
  /\ newcomers' = 0
  /\ outcome' = [c \in Calls |-> None]
  /\ UNCHANGED <<remoteVars, garbled>>

Next ==
  \/ \E c \in Calls :
       \/ Enter(c) \/ Raise(c) \/ ReadReservation(c) \/ CheckRef(c)
       \/ CountCompleted(c) \/ CountAll(c) \/ Recount(c)
       \/ RecheckRef(c) \/ CheckWorkflow(c)
       \/ SendPost(c) \/ RefusePost(c) \/ FinishPost(c)
       \/ ReadOwnRun(c) \/ ReadList(c) \/ FailReadback(c)
       \/ ApplyPost(c)
  \/ \E r \in Runs : ListRun(r) \/ EndRun(r)
  \/ DispatchByOthers \/ MoveRef \/ Restart

Spec == Init /\ [][Next]_vars

-----------------------------------------------------------------------------
\* Every variable stays in the range the code gives it.
TypeOK ==
  /\ pc \in [Calls -> Inside \cup {"idle", "done"}]
  /\ holder \in Calls \cup {None}
  /\ reservation \in Reservation \cup {None}
  /\ gate \in [purpose : Purposes, completed : 0..HistoryMax, all : 0..(HistoryMax - 1)]
  /\ receipt \in Runs \cup {None, "malformed"}
  /\ written \in Tri
  /\ outcome \in [Calls -> Results \cup {None}]
  /\ status \in [Runs -> {"none", "deleted"} \cup Existing]
  /\ maker \in [Runs -> Calls \cup {Others, None}]
  /\ exact \subseteq Runs /\ listed \subseteq Runs
  /\ posts \subseteq Calls
  /\ refExact \in BOOLEAN
  /\ moves \in Nat
  /\ past \subseteq Calls /\ garbled \subseteq Calls
  /\ counted \subseteq Runs
  /\ newcomers \in Nat

StartsPosting(c) == pc[c] # "posting" /\ pc'[c] = "posting"

\* The process never dispatches again while an earlier dispatch of its own is
\* undecided or its run not terminal, however late the list shows it, whatever
\* became of the earlier call, and whoever deletes runs meanwhile
\* (_WORKFLOW_DISPATCH_RESERVATIONS).  Only a POST whose confirmation gh could
\* not parse is forgotten.
Pending(d) == d \in posts \/ \E r \in Runs : maker[r] = d /\ status[r] = "active"

NoDispatchWhilePending ==
  [][\A c \in Calls : StartsPosting(c) =>
       \A d \in Calls \ (past \cup garbled) : ~Pending(d)]_vars

\* The nonterminal runs a dispatch is sent beside are at most those the list
\* gained after the all-status count: no deletion, completion or replacement
\* during the three counts hides an older one, nor does a saturated count.
OnlyNewcomersSlipIn ==
  [][\A c \in Calls : StartsPosting(c) =>
       Cardinality(Matching({"active"})) <= newcomers]_vars

\* A run is reported for a call only if the call made it or, when its POST
\* named none, if the list gained it after the gate had counted.
ReportedRunIsNew ==
  [][\A c \in Calls : outcome[c] = None /\ outcome'[c] # None /\ outcome'[c].run # None =>
       IF written = "yes" THEN maker[outcome'[c].run] = c
       ELSE outcome'[c].run \notin counted]_vars

\* docs/workflow-dispatch-exact.md: "once its status is `completed`, the local
\* reservation is released".  It does not hold for a run GitHub created at
\* another head because the ref moved: _require_no_local_reservation raises
\* before it looks at the status, now and for every later call.
CompletedRunIsReleased ==
  [][\A c \in Calls :
       ReadReservation(c) /\ status[reservation.run] = "completed" => reservation' = None]_vars
=============================================================================
