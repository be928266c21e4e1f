----------------------- MODULE WorkflowDispatchProofs -----------------------
(***************************************************************************)
(* Proofs, for any number of invocations, runs and users, that the process *)
(* dispatches nothing beside a pending dispatch of its own, that only runs *)
(* listed after the count are overlooked, and that a run that is reported  *)
(* is new.  The invariant follows a POST from the reservation that is made *)
(* before it to the call that releases it, and the two counts.             *)
(***************************************************************************)
EXTENDS WorkflowDispatch, FiniteSetTheorems, TLAPS

Counting == {"counting completed", "counting all", "recounting"}
Counted  == {"rechecking ref", "checking workflow", "ready"}

Made(c) == \E r \in Runs : maker[r] = c

\* The lock is held exactly by the call inside the critical section.
LockInv == \A c \in Calls : pc[c] \in Inside <=> holder = c

\* The calls of an earlier process are over.
PastInv == \A c \in past : pc[c] = "done"

\* The list is finite and shows runs there are; a run that was never made has no maker.
ListInv ==
  /\ IsFiniteSet(listed)
  /\ \A r \in listed : status[r] \in Existing
  /\ \A r \in Runs : status[r] = "none" => maker[r] = None

\* A call that has sent its POST makes one run at most, and none while GitHub
\* has still to decide.
PostInv ==
  \A c \in Calls :
    /\ c \in posts => ~Made(c)
    /\ c \in posts \/ Made(c) => pc[c] \in {"posting", "reading", "done"}
    /\ \A r, s \in Runs : maker[r] = c /\ maker[s] = c => r = s

\* What the holder knows of its POST is so.
ReceiptInv ==
  /\ (\A c \in Calls : pc[c] # "reading") => receipt = None /\ written = "unknown"
  /\ \A c \in Calls : pc[c] = "reading" =>
       /\ written = "yes" <=> receipt # None
       /\ receipt # None => c \notin posts
       /\ receipt \in Runs => maker[receipt] = c
       /\ written = "no" /\ c \notin garbled => c \notin posts /\ ~Made(c)

\* The reservation that belongs to where the holder stands.
ReservationInv ==
  \A c \in Calls :
    /\ pc[c] \in {"ready", "posting"} => reservation # None /\ reservation.run = None
    /\ pc[c] = "reading" =>
         reservation # None /\ (reservation.run # None => reservation.run = receipt)
    /\ pc[c] = "reading reservation" => reservation # None /\ reservation.run \in Runs
    /\ pc[c] \in Counting /\ gate.purpose = "deleted run" =>
         reservation # None /\ reservation.run \in Runs /\ status[reservation.run] = "deleted"

\* The call has established that no dispatch of the process is pending.
Cleared(c) ==
  \/ pc[c] \in {"checking ref"} \cup Counted
  \/ pc[c] \in Counting /\ gate.purpose = "dispatch"

\* A pending dispatch is that of the holder, or it is reserved: under its run if
\* that is known, and nobody goes on beside it.
ReservedInv(d) ==
  /\ pc[d] = "done"
  /\ reservation # None
  /\ reservation.run # None => maker[reservation.run] = d /\ d \notin posts
  /\ \A c \in Calls : ~Cleared(c) /\ pc[c] \notin {"posting", "reading"}

PendingInv ==
  \A d \in Calls \ (past \cup garbled) :
    Pending(d) => pc[d] \in {"posting", "reading"} \/ ReservedInv(d)

\* What is listed beyond what was counted are newcomers, and once the completed
\* runs have been counted again so are the active ones.
CountInv ==
  /\ gate.all = 0 <=> counted = {}
  /\ \A c \in Calls :
       /\ pc[c] = "recounting" =>
            /\ gate.all = gate.completed
            /\ Cardinality(Matching(Existing)) <= gate.all + newcomers
       /\ pc[c] \in Counted => Cardinality(Matching({"active"})) <= newcomers

IInv ==
  /\ TypeOK /\ LockInv /\ PastInv /\ ListInv /\ PostInv /\ ReceiptInv
  /\ ReservationInv /\ PendingInv /\ CountInv

-----------------------------------------------------------------------------
\* Success means applied; a failure that is neither ambiguous nor a confirmation
\* gh garbled means rejected (_run_once, for gh api and for gh subcommands).
LEMMA AttemptIsTruthful ==
  ASSUME NEW end \in ApiWriteEnds \cup TextWriteEnds
  PROVE  /\ end.fate \in {"applied", "rejected", "open"}
         /\ ~end.verdict.failed => end.fate = "applied"
         /\ end.verdict.failed /\ ~end.verdict.ambiguous /\ ~end.confirmed =>
              end.fate = "rejected"
<1>1. PICK json \in BOOLEAN, r \in WriteReplies : \E f \in Fates(r) : end = WriteEnd(json, r, f)
  BY DEF ApiWriteEnds, TextWriteEnds
<1>2. PICK f \in Fates(r) : end = WriteEnd(json, r, f)
  BY <1>1
<1>3. r \in Reply /\ r.exit \in {"timeout", "zero", "unexpected"}
  BY DEF WriteReplies, Reply
<1>4. QED  BY <1>2, <1>3 DEF WriteEnd, Fates, Verdict, Failure, Ambiguous

\* Counting matching runs, up to the bound.
LEMMA MatchingIsFinite ==
  ASSUME TypeOK, ListInv, NEW states
  PROVE  /\ IsFiniteSet(Matching(states)) /\ Matching(states) \subseteq Runs
         /\ Cardinality(Matching(states)) \in Nat
         /\ Count(states) \in 0..HistoryMax
         /\ Count(states) < HistoryMax => Count(states) = Cardinality(Matching(states))
<1>1. Matching(states) \in SUBSET listed
  BY DEF Matching
<1>2. IsFiniteSet(Matching(states))
  BY <1>1, FS_Subset DEF ListInv
<1>3. Cardinality(Matching(states)) \in Nat
  BY <1>2, FS_CardinalityType
<1>4. Matching(states) \subseteq Runs
  BY <1>1 DEF TypeOK
<1>5. QED BY <1>2, <1>3, <1>4, DispatchAssumption DEF Count

\* The ends of a readback report something well formed and change nothing else.
LEMMA ReadbackReports ==
  ASSUME TypeOK, NEW c \in Calls, ReadOwnRun(c) \/ ReadList(c) \/ FailReadback(c)
  PROVE  /\ pc[c] = "reading"
         /\ \E read \in BOOLEAN, matches \in Tri, run \in Runs \cup {None} :
              (read <=> matches # "unknown") /\ Report(c, read, matches, run)
<1> USE DEF Tri, YesOrNo
<1>1. CASE ReadOwnRun(c)
  <2>1. pc[c] = "reading" /\ receipt \in Runs
        /\ Report(c, TRUE, YesOrNo(receipt \in exact), receipt)
    BY <1>1, Zenon DEF ReadOwnRun
  <2>2. YesOrNo(receipt \in exact) \in {"yes", "no"}
    OBVIOUS
  <2>3. QED BY <2>1, <2>2
<1>2. CASE ReadList(c)
  <2>1. pc[c] = "reading"
        /\ \/ \E r \in Matching(Existing) : Report(c, TRUE, "yes", r)
           \/ Report(c, TRUE, "no", None)
    BY <1>2, Zenon DEF ReadList
  <2>2. Matching(Existing) \subseteq Runs
    BY DEF Matching, TypeOK
  <2>3. QED BY <2>1, <2>2
<1>3. CASE FailReadback(c)
  BY <1>3, Zenon DEF FailReadback
<1>4. QED BY <1>1, <1>2, <1>3

\* What the end of a gh process says of the POST, and what it leaves.
LEMMA FinishEstablishes ==
  ASSUME NEW c \in Calls, FinishPost(c)
  PROVE  /\ pc[c] = "posting" /\ Goto(c, "reading")
         /\ UNCHANGED <<holder, gate, outcome, runVars, refExact, moves, past, counted, newcomers>>
         /\ garbled \subseteq garbled' /\ garbled' \subseteq garbled \cup {c}
         /\ \/ /\ written' = "yes" /\ Made(c) /\ posts' = posts
               /\ receipt' \in {r \in Runs : maker[r] = c} \cup {"malformed"}
               /\ reservation' = [run |-> IF receipt' \in Runs THEN receipt' ELSE None,
                                  unknown |-> FALSE]
            \/ /\ written' \in {"no", "unknown"} /\ posts' \in {posts, posts \ {c}}
               /\ written' = "no" /\ c \notin garbled' => ~Made(c) /\ posts' = posts \ {c}
               /\ UNCHANGED <<reservation, receipt>>
<1>1. PICK end \in ApiWriteEnds :
        /\ end.fate = "applied" <=> \E r \in Runs : maker[r] = c
        /\ posts' = IF end.fate = "rejected" THEN posts \ {c} ELSE posts
        /\ written' = WriteCompleted(end.verdict)
        /\ garbled' = IF end.confirmed /\ end.verdict.failed THEN garbled \cup {c} ELSE garbled
        /\ \/ /\ end.verdict.failed
              /\ UNCHANGED <<reservation, receipt>>
           \/ /\ ~end.verdict.failed
              /\ receipt' \in {r \in Runs : maker[r] = c} \cup {"malformed"}
              /\ reservation' = [run |-> IF receipt' \in Runs THEN receipt' ELSE None,
                                 unknown |-> FALSE]
  BY Zenon DEF FinishPost
<1>2. /\ pc[c] = "posting" /\ Goto(c, "reading")
      /\ UNCHANGED <<holder, gate, outcome, runVars, refExact, moves, past, counted, newcomers>>
  BY Zenon DEF FinishPost
<1>3. /\ end.fate \in {"applied", "rejected", "open"}
      /\ ~end.verdict.failed => end.fate = "applied"
      /\ end.verdict.failed /\ ~end.verdict.ambiguous /\ ~end.confirmed => end.fate = "rejected"
  BY AttemptIsTruthful
<1>4. CASE ~end.verdict.failed
  <2>1. written' = "yes"
    BY <1>1, <1>4 DEF WriteCompleted
  <2>2. QED BY <1>1, <1>2, <1>3, <1>4, <2>1 DEF Made
<1>5. CASE end.verdict.failed
  <2>1. written' \in {"no", "unknown"} /\ (written' = "no" => ~end.verdict.ambiguous)
    BY <1>1, <1>5 DEF WriteCompleted
  <2>2. c \notin garbled' => ~end.confirmed
    BY <1>1, <1>5
  <2>3. QED BY <1>1, <1>2, <1>3, <1>5, <2>1, <2>2 DEF Made
<1>6. QED BY <1>4, <1>5

\* What is new about a run that is made.
LEMMA CreateRunMakes ==
  ASSUME TypeOK, ListInv, NEW who \in Calls \cup {Others}, CreateRun(who)
  PROVE  \E r \in Runs :
           /\ status[r] = "none" /\ maker[r] = None /\ r \notin listed
           /\ status' = [status EXCEPT ![r] = "active"]
           /\ maker' = [maker EXCEPT ![r] = who]
           /\ exact' \in {exact, exact \cup {r}}
<1> DEFINE r == CHOOSE unused \in Unused : TRUE
<1>1. r \in Unused
  BY DEF CreateRun
<1>2. r \in Runs /\ status[r] = "none"
  BY <1>1 DEF Unused
<1>3. maker[r] = None /\ r \notin listed
  BY <1>2 DEF ListInv, Existing
<1>4. /\ status' = [status EXCEPT ![r] = "active"]
      /\ maker' = [maker EXCEPT ![r] = who]
      /\ exact' \in {exact, exact \cup {r}}
  BY DEF CreateRun
<1> HIDE DEF r
<1>5. QED BY <1>2, <1>3, <1>4

\* A step is one of these.
LEMMA StepCases ==
  ASSUME [Next]_vars
  PROVE  \/ \E c \in Calls :
              \/ Enter(c) \/ Raise(c) \/ ReadReservation(c) \/ CheckRef(c)
              \/ CountCompleted(c) \/ CountAll(c) \/ Recount(c)
              \/ RecheckRef(c) \/ CheckWorkflow(c)
              \/ SendPost(c) \/ RefusePost(c) \/ FinishPost(c)
              \/ (ReadOwnRun(c) \/ ReadList(c) \/ FailReadback(c))
              \/ ApplyPost(c)
         \/ \E r \in Runs : ListRun(r) \/ EndRun(r)
         \/ DispatchByOthers \/ MoveRef \/ Restart
         \/ UNCHANGED vars
BY Zenon DEF Next

-----------------------------------------------------------------------------
\* Every step keeps the types.
LEMMA TypeStep == TypeOK /\ ListInv /\ [Next]_vars => TypeOK'
<1> SUFFICES ASSUME TypeOK, ListInv, [Next]_vars PROVE TypeOK'
  OBVIOUS
<1> USE DEF TypeOK, callVars, runVars, remoteVars, history, Goto
<1>0. /\ NoGate \in [purpose : Purposes, completed : 0..HistoryMax, all : 0..(HistoryMax - 1)]
      /\ "unknown" \in Tri /\ "no" \in Tri /\ "done" \in Inside \cup {"idle", "done"}
  <2>1. 0 \in 0..HistoryMax /\ 0 \in 0..(HistoryMax - 1)
    BY DispatchAssumption
  <2>2. QED BY <2>1 DEF NoGate, Purposes, Tri
<1>1. ASSUME NEW c \in Calls, Enter(c) PROVE TypeOK'
  BY <1>1 DEF Enter, Inside, Purposes
<1>2. ASSUME NEW c \in Calls, Raise(c) PROVE TypeOK'
  BY <1>0, <1>2 DEF Raise, Leave
<1>3. ASSUME NEW c \in Calls, ReadReservation(c) PROVE TypeOK'
  <2>1. UNCHANGED <<outcome, remoteVars>>
    BY <1>3 DEF ReadReservation
  <2>2. CASE Leave(c) /\ UNCHANGED reservation
    BY <1>0, <2>1, <2>2 DEF Leave
  <2>3. CASE /\ Goto(c, "counting completed")
             /\ gate' = [gate EXCEPT !.purpose = "deleted run"]
             /\ UNCHANGED <<holder, reservation, receipt, written, history>>
    BY <2>1, <2>3 DEF Inside, Purposes
  <2>4. CASE /\ reservation' = None /\ Goto(c, "checking ref")
             /\ UNCHANGED <<holder, callVars, history>>
    BY <2>1, <2>4 DEF Inside
  <2>5. QED BY <1>3, <2>2, <2>3, <2>4 DEF ReadReservation
<1>4. ASSUME NEW c \in Calls, CheckRef(c) PROVE TypeOK'
  BY <1>4 DEF CheckRef, Inside, Purposes
<1>5. ASSUME NEW c \in Calls, CountCompleted(c) PROVE TypeOK'
  <2>1. Count({"completed"}) \in 0..HistoryMax
    BY MatchingIsFinite
  <2>2. QED BY <1>5, <2>1 DEF CountCompleted, Inside
<1>6. ASSUME NEW c \in Calls, CountAll(c) PROVE TypeOK'
  <2>1. Count(Existing) \in 0..HistoryMax /\ Matching(Existing) \subseteq Runs
    BY MatchingIsFinite
  <2>2. Count(Existing) < HistoryMax
    BY <1>6 DEF CountAll
  <2>3. Count(Existing) \in 0..(HistoryMax - 1)
    BY <2>1, <2>2, DispatchAssumption
  <2>4. QED BY <1>6, <2>1, <2>3 DEF CountAll, PassGate, Inside
<1>7. ASSUME NEW c \in Calls, Recount(c) PROVE TypeOK'
  BY <1>7 DEF Recount, PassGate, Inside
<1>8. ASSUME NEW c \in Calls, RecheckRef(c) PROVE TypeOK'
  BY <1>8 DEF RecheckRef, Inside
<1>9. ASSUME NEW c \in Calls, CheckWorkflow(c) PROVE TypeOK'
  BY <1>9 DEF CheckWorkflow, Inside, Reservation
<1>10. ASSUME NEW c \in Calls, SendPost(c) PROVE TypeOK'
  BY <1>10 DEF SendPost, Inside
<1>11. ASSUME NEW c \in Calls, RefusePost(c) PROVE TypeOK'
  BY <1>0, <1>11 DEF RefusePost, Inside
<1>12. ASSUME NEW c \in Calls, FinishPost(c) PROVE TypeOK'
  <2>1. written' \in Tri /\ receipt' \in Runs \cup {None, "malformed"}
        /\ reservation' \in Reservation \cup {None}
    <3>1. CASE /\ written' = "yes" /\ receipt' \in Runs \cup {"malformed"}
               /\ reservation' = [run |-> IF receipt' \in Runs THEN receipt' ELSE None,
                                  unknown |-> FALSE]
      BY <3>1 DEF Tri, Reservation
    <3>2. CASE written' \in {"no", "unknown"} /\ UNCHANGED <<reservation, receipt>>
      BY <3>2 DEF Tri
    <3>3. QED BY <1>12, <3>1, <3>2, FinishEstablishes
  <2>2. posts' \subseteq Calls /\ garbled' \subseteq Calls
    BY <1>12, FinishEstablishes
  <2>3. pc' \in [Calls -> Inside \cup {"idle", "done"}]
    <3>1. pc' = [pc EXCEPT ![c] = "reading"]
      BY <1>12, FinishEstablishes
    <3>2. QED BY <3>1 DEF Inside
  <2>4. UNCHANGED <<holder, gate, outcome, runVars, refExact, moves, past, counted, newcomers>>
    BY <1>12, FinishEstablishes
  <2>5. QED BY <2>1, <2>2, <2>3, <2>4
<1>13. ASSUME NEW c \in Calls, ReadOwnRun(c) \/ ReadList(c) \/ FailReadback(c) PROVE TypeOK'
  <2>1. PICK read \in BOOLEAN, matches \in Tri, run \in Runs \cup {None} :
          (read <=> matches # "unknown") /\ Report(c, read, matches, run)
    BY <1>13, ReadbackReports
  <2> DEFINE result == [outcome |-> [write_completed |-> written, readback_completed |-> read,
                                     state_matches_requested |-> matches],
                        run |-> run]
  <2>2. result \in Results
    BY <2>1 DEF Results, Outcomes, Tri
  <2>3. outcome' = [outcome EXCEPT ![c] = result]
    BY <2>1 DEF Report
  <2> HIDE DEF result
  <2>4. outcome' \in [Calls -> Results \cup {None}]
    BY <2>2, <2>3
  <2>5. reservation' \in Reservation \cup {None}
    BY <2>1 DEF Report, Reservation
  <2>6. Leave(c) /\ UNCHANGED remoteVars
    BY <2>1 DEF Report
  <2>7. QED BY <1>0, <2>4, <2>5, <2>6 DEF Leave
<1>14. ASSUME NEW c \in Calls, ApplyPost(c) PROVE TypeOK'
  <2>1. CreateRun(c) /\ posts' \subseteq Calls
    BY <1>14 DEF ApplyPost
  <2>2. PICK r \in Runs :
          /\ status' = [status EXCEPT ![r] = "active"]
          /\ maker' = [maker EXCEPT ![r] = c]
          /\ exact' \in {exact, exact \cup {r}}
    BY <2>1, CreateRunMakes
  <2>3. /\ status' \in [Runs -> {"none", "deleted"} \cup Existing]
        /\ maker' \in [Runs -> Calls \cup {Others, None}]
        /\ exact' \subseteq Runs
    BY <2>2 DEF Existing
  <2>4. QED BY <2>1, <2>3 DEF CreateRun
<1>15. ASSUME NEW r \in Runs, ListRun(r) PROVE TypeOK'
  BY <1>15 DEF ListRun
<1>16. ASSUME NEW r \in Runs, EndRun(r) PROVE TypeOK'
  BY <1>16 DEF EndRun, Existing
<1>17. CASE DispatchByOthers
  <2>1. CreateRun(Others) /\ posts' \subseteq Calls
    BY <1>17 DEF DispatchByOthers
  <2>2. PICK r \in Runs :
          /\ status' = [status EXCEPT ![r] = "active"]
          /\ maker' = [maker EXCEPT ![r] = Others]
          /\ exact' \in {exact, exact \cup {r}}
    BY <2>1, CreateRunMakes
  <2>3. /\ status' \in [Runs -> {"none", "deleted"} \cup Existing]
        /\ maker' \in [Runs -> Calls \cup {Others, None}]
        /\ exact' \subseteq Runs
    BY <2>2 DEF Existing
  <2>4. QED BY <2>1, <2>3 DEF CreateRun
<1>18. CASE MoveRef
  BY <1>18 DEF MoveRef
<1>19. CASE Restart
  <2>1. pc' \in [Calls -> {"idle", "done"}] /\ outcome' \in [Calls -> {None}]
    BY <1>19 DEF Restart
  <2>2. past' \subseteq Calls
    BY <1>19 DEF Restart
  <2>3. QED BY <1>0, <1>19, <2>1, <2>2 DEF Restart
<1>20. CASE UNCHANGED vars
  BY <1>20 DEF vars
<1>21. QED
  BY <1>1, <1>2, <1>3, <1>4, <1>5, <1>6, <1>7, <1>8, <1>9, <1>10, <1>11, <1>12, <1>13, <1>14,
     <1>15, <1>16, <1>17, <1>18, <1>19, <1>20, StepCases

-----------------------------------------------------------------------------
\* The lock is taken on entering the section and released on leaving it.
LEMMA LockStep == TypeOK /\ LockInv /\ [Next]_vars => LockInv'
<1> SUFFICES ASSUME TypeOK, LockInv, [Next]_vars PROVE LockInv'
  OBVIOUS
<1>0. pc \in [Calls -> Inside \cup {"idle", "done"}]
  BY DEF TypeOK
<1> USE DispatchAssumption DEF LockInv, Inside, callVars, history, Goto
<1>1. ASSUME NEW c \in Calls, Enter(c) PROVE LockInv'
  BY <1>0, <1>1 DEF Enter
<1>2. ASSUME NEW c \in Calls, Raise(c) PROVE LockInv'
  BY <1>0, <1>2 DEF Raise, Leave
<1>3. ASSUME NEW c \in Calls, ReadReservation(c) PROVE LockInv'
  <2>1. \/ Leave(c)
        \/ pc' = [pc EXCEPT ![c] = "counting completed"] /\ holder' = holder
        \/ pc' = [pc EXCEPT ![c] = "checking ref"] /\ holder' = holder
    BY <1>3 DEF ReadReservation
  <2>2. pc[c] = "reading reservation"
    BY <1>3 DEF ReadReservation
  <2>3. QED BY <1>0, <2>1, <2>2 DEF Leave
<1>4. ASSUME NEW c \in Calls, CheckRef(c) PROVE LockInv'
  BY <1>0, <1>4 DEF CheckRef
<1>5. ASSUME NEW c \in Calls, CountCompleted(c) PROVE LockInv'
  BY <1>0, <1>5 DEF CountCompleted
<1>6. ASSUME NEW c \in Calls, CountAll(c) PROVE LockInv'
  BY <1>0, <1>6 DEF CountAll, PassGate
<1>7. ASSUME NEW c \in Calls, Recount(c) PROVE LockInv'
  BY <1>0, <1>7 DEF Recount, PassGate
<1>8. ASSUME NEW c \in Calls, RecheckRef(c) PROVE LockInv'
  BY <1>0, <1>8 DEF RecheckRef
<1>9. ASSUME NEW c \in Calls, CheckWorkflow(c) PROVE LockInv'
  BY <1>0, <1>9 DEF CheckWorkflow
<1>10. ASSUME NEW c \in Calls, SendPost(c) PROVE LockInv'
  BY <1>0, <1>10 DEF SendPost
<1>11. ASSUME NEW c \in Calls, RefusePost(c) PROVE LockInv'
  BY <1>0, <1>11 DEF RefusePost
<1>12. ASSUME NEW c \in Calls, FinishPost(c) PROVE LockInv'
  <2>1. pc[c] = "posting" /\ pc' = [pc EXCEPT ![c] = "reading"] /\ holder' = holder
    BY <1>12, FinishEstablishes
  <2>2. QED BY <1>0, <2>1
<1>13. ASSUME NEW c \in Calls, ReadOwnRun(c) \/ ReadList(c) \/ FailReadback(c) PROVE LockInv'
  <2>1. pc[c] = "reading" /\ Leave(c)
    BY <1>13, ReadbackReports DEF Report
  <2>2. QED BY <1>0, <2>1 DEF Leave
<1>14. ASSUME NEW c \in Calls, ApplyPost(c) PROVE LockInv'
  BY <1>14 DEF ApplyPost, CreateRun
<1>15. ASSUME NEW r \in Runs, ListRun(r) PROVE LockInv'
  BY <1>15 DEF ListRun
<1>16. ASSUME NEW r \in Runs, EndRun(r) PROVE LockInv'
  BY <1>16 DEF EndRun
<1>17. CASE DispatchByOthers
  BY <1>17 DEF DispatchByOthers, CreateRun
<1>18. CASE MoveRef
  BY <1>18 DEF MoveRef
<1>19. CASE Restart
  BY <1>19 DEF Restart
<1>20. CASE UNCHANGED vars
  BY <1>20 DEF vars
<1>21. QED
  BY <1>1, <1>2, <1>3, <1>4, <1>5, <1>6, <1>7, <1>8, <1>9, <1>10, <1>11, <1>12, <1>13, <1>14,
     <1>15, <1>16, <1>17, <1>18, <1>19, <1>20, StepCases

\* Where a call may go: only the holder of the lock moves, unless the process restarts.
LEMMA OneMoves ==
  ASSUME TypeOK, LockInv, [Next]_vars
  PROVE  \/ UNCHANGED pc
         \/ \E c \in Calls, step \in Inside \cup {"done"} :
              /\ Goto(c, step)
              /\ past' = past
              /\ pc[c] = "idle" \/ pc[c] \in Inside
              /\ step = "posting" => SendPost(c)
              /\ step = "reading" => pc[c] \in {"ready", "posting"}
              /\ pc[c] \in {"posting", "reading"} => step \in {"reading", "done"}
         \/ Restart
<1> USE DEF callVars, history, Inside
<1> DEFINE Moves(c, step) == /\ Goto(c, step)
                             /\ past' = past
                             /\ pc[c] = "idle" \/ pc[c] \in Inside
                             /\ pc[c] \in {"posting", "reading"} => step \in {"reading", "done"}
<1>1. ASSUME NEW c \in Calls, Enter(c) \/ ReadReservation(c) \/ CheckRef(c) \/ CountCompleted(c)
      PROVE  \E step \in (Inside \cup {"done"}) \ {"posting", "reading"} : Moves(c, step)
  <2>1. CASE Enter(c)
    <3>1. Goto(c, "checking ref") \/ Goto(c, "reading reservation") \/ Goto(c, "counting completed")
      BY <2>1 DEF Enter
    <3>2. past' = past /\ pc[c] = "idle"
      BY <2>1 DEF Enter
    <3>3. QED BY <3>1, <3>2
  <2>2. CASE ReadReservation(c)
    <3>1. Goto(c, "checking ref") \/ Goto(c, "done") \/ Goto(c, "counting completed")
      BY <2>2 DEF ReadReservation, Leave
    <3>2. past' = past /\ pc[c] = "reading reservation"
      BY <2>2 DEF ReadReservation, Leave
    <3>3. QED BY <3>1, <3>2
  <2>3. CASE CheckRef(c)
    <3>1. Goto(c, "counting completed") /\ past' = past /\ pc[c] = "checking ref"
      BY <2>3 DEF CheckRef
    <3>2. QED BY <3>1
  <2>4. CASE CountCompleted(c)
    <3>1. Goto(c, "counting all") /\ past' = past /\ pc[c] = "counting completed"
      BY <2>4 DEF CountCompleted
    <3>2. QED BY <3>1
  <2>5. QED BY <1>1, <2>1, <2>2, <2>3, <2>4
<1>2. ASSUME NEW c \in Calls, CountAll(c) \/ Recount(c) \/ RecheckRef(c) \/ CheckWorkflow(c)
      PROVE  \E step \in (Inside \cup {"done"}) \ {"posting", "reading"} : Moves(c, step)
  <2>1. CASE CountAll(c) \/ Recount(c)
    <3>1. Goto(c, "recounting") \/ Goto(c, "rechecking ref") \/ Goto(c, "checking ref")
      BY <2>1 DEF CountAll, Recount, PassGate
    <3>2. past' = past /\ pc[c] \in {"counting all", "recounting"}
      BY <2>1 DEF CountAll, Recount
    <3>3. QED BY <3>1, <3>2
  <2>2. CASE RecheckRef(c)
    <3>1. Goto(c, "checking workflow") /\ past' = past /\ pc[c] = "rechecking ref"
      BY <2>2 DEF RecheckRef
    <3>2. QED BY <3>1
  <2>3. CASE CheckWorkflow(c)
    <3>1. Goto(c, "ready") /\ past' = past /\ pc[c] = "checking workflow"
      BY <2>3 DEF CheckWorkflow
    <3>2. QED BY <3>1
  <2>4. QED BY <1>2, <2>1, <2>2, <2>3
<1>3. ASSUME NEW c \in Calls, SendPost(c)
      PROVE  Goto(c, "posting") /\ past' = past /\ pc[c] = "ready"
  BY <1>3 DEF SendPost
<1>4. ASSUME NEW c \in Calls, RefusePost(c) \/ FinishPost(c)
      PROVE  Goto(c, "reading") /\ past' = past /\ pc[c] \in {"ready", "posting"}
  BY <1>4, FinishEstablishes DEF RefusePost
<1>5. ASSUME NEW c \in Calls, Raise(c) \/ ReadOwnRun(c) \/ ReadList(c) \/ FailReadback(c)
      PROVE  Goto(c, "done") /\ past' = past /\ pc[c] \in Inside
  <2>1. pc[c] \in Inside /\ Leave(c)
    BY <1>5, ReadbackReports DEF Raise, Report
  <2>2. QED BY <2>1 DEF Leave
<1>6. ASSUME \/ \E c \in Calls : ApplyPost(c)
             \/ \E r \in Runs : ListRun(r) \/ EndRun(r)
             \/ DispatchByOthers \/ MoveRef \/ UNCHANGED vars
      PROVE  UNCHANGED pc
  BY <1>6 DEF ApplyPost, DispatchByOthers, CreateRun, ListRun, EndRun, MoveRef, vars
<1>7. SUFFICES ASSUME ~Restart, pc' # pc
               PROVE  \E c \in Calls, step \in Inside \cup {"done"} :
                        /\ Moves(c, step)
                        /\ step = "posting" => SendPost(c)
                        /\ step = "reading" => pc[c] \in {"ready", "posting"}
  OBVIOUS
<1>8. PICK c \in Calls :
        \/ Enter(c) \/ ReadReservation(c) \/ CheckRef(c) \/ CountCompleted(c)
        \/ CountAll(c) \/ Recount(c) \/ RecheckRef(c) \/ CheckWorkflow(c)
        \/ SendPost(c)
        \/ RefusePost(c) \/ FinishPost(c)
        \/ Raise(c) \/ ReadOwnRun(c) \/ ReadList(c) \/ FailReadback(c)
  BY <1>6, <1>7, StepCases
<1>9. ASSUME NEW step \in (Inside \cup {"done"}) \ {"posting", "reading"}, Moves(c, step)
      PROVE  \E s \in Inside \cup {"done"} :
               /\ Moves(c, s)
               /\ s = "posting" => SendPost(c)
               /\ s = "reading" => pc[c] \in {"ready", "posting"}
  BY <1>9
<1>10. CASE Enter(c) \/ ReadReservation(c) \/ CheckRef(c) \/ CountCompleted(c)
  BY <1>1, <1>9, <1>10, Zenon
<1>11. CASE CountAll(c) \/ Recount(c) \/ RecheckRef(c) \/ CheckWorkflow(c)
  BY <1>2, <1>9, <1>11, Zenon
<1>12. CASE SendPost(c)
  <2>1. Moves(c, "posting") /\ "posting" \in Inside \cup {"done"}
    BY <1>3, <1>12
  <2>2. QED BY <2>1, <1>12
<1>13. CASE RefusePost(c) \/ FinishPost(c)
  BY <1>4, <1>13
<1>14. CASE Raise(c) \/ ReadOwnRun(c) \/ ReadList(c) \/ FailReadback(c)
  <2>1. Moves(c, "done") /\ "done" \in Inside \cup {"done"}
    BY <1>5, <1>14
  <2> HIDE DEF Moves
  <2>2. QED BY <2>1
<1>15. QED BY <1>8, <1>10, <1>11, <1>12, <1>13, <1>14

\* A call that is over stays so.
LEMMA PastStep == TypeOK /\ LockInv /\ PastInv /\ [Next]_vars => PastInv'
<1> SUFFICES ASSUME TypeOK, LockInv, PastInv, [Next]_vars PROVE PastInv'
  OBVIOUS
<1>0. pc \in [Calls -> Inside \cup {"idle", "done"}] /\ past \subseteq Calls
  BY DEF TypeOK
<1>1. CASE UNCHANGED pc /\ past' = past
  BY <1>1 DEF PastInv
<1>2. ASSUME NEW c \in Calls, NEW step, Goto(c, step), past' = past,
             pc[c] = "idle" \/ pc[c] \in Inside
      PROVE  PastInv'
  BY <1>0, <1>2 DEF PastInv, Goto, Inside
<1>3. CASE Restart
  BY <1>0, <1>3 DEF PastInv, Restart
<1>4. UNCHANGED past \/ Restart
  <2>1. ASSUME NEW c \in Calls,
               Enter(c) \/ ReadReservation(c) \/ CheckRef(c) \/ CountCompleted(c) \/ CountAll(c)
                 \/ Recount(c) \/ RecheckRef(c) \/ CheckWorkflow(c) \/ SendPost(c)
                 \/ RefusePost(c) \/ FinishPost(c) \/ ApplyPost(c)
        PROVE  UNCHANGED past
    BY <2>1, FinishEstablishes
       DEF Enter, ReadReservation, CheckRef, CountCompleted, CountAll, Recount, RecheckRef,
           CheckWorkflow, SendPost, RefusePost, ApplyPost, CreateRun, Leave, history
  <2>2. ASSUME NEW c \in Calls, Raise(c) \/ ReadOwnRun(c) \/ ReadList(c) \/ FailReadback(c)
        PROVE  UNCHANGED past
    BY <2>2, ReadbackReports DEF Raise, Report, Leave
  <2>3. ASSUME \/ \E r \in Runs : ListRun(r) \/ EndRun(r)
               \/ DispatchByOthers \/ MoveRef \/ UNCHANGED vars
        PROVE  UNCHANGED past
    BY <2>3 DEF DispatchByOthers, CreateRun, ListRun, EndRun, MoveRef, vars, history
  <2>4. QED BY <2>1, <2>2, <2>3, StepCases
<1>5. QED BY <1>1, <1>2, <1>3, <1>4, OneMoves

-----------------------------------------------------------------------------
\* Only the POST, its decision and its end touch what GitHub knows of it.
LEMMA RemoteUnchanged ==
  ASSUME TypeOK, NEW c \in Calls,
         \/ Enter(c) \/ Raise(c) \/ ReadReservation(c) \/ CheckRef(c)
         \/ CountCompleted(c) \/ CountAll(c) \/ Recount(c)
         \/ RecheckRef(c) \/ CheckWorkflow(c) \/ RefusePost(c)
         \/ ReadOwnRun(c) \/ ReadList(c) \/ FailReadback(c)
  PROVE  UNCHANGED remoteVars /\ UNCHANGED garbled
<1>1. CASE ReadOwnRun(c) \/ ReadList(c) \/ FailReadback(c)
  BY <1>1, ReadbackReports DEF Report, Leave
<1>2. CASE Enter(c) \/ Raise(c) \/ ReadReservation(c)
  BY <1>2 DEF Enter, Raise, ReadReservation, Leave, history
<1>3. CASE CheckRef(c) \/ CountCompleted(c) \/ CountAll(c) \/ Recount(c)
  BY <1>3 DEF CheckRef, CountCompleted, CountAll, Recount, history
<1>4. CASE RecheckRef(c) \/ CheckWorkflow(c) \/ RefusePost(c)
  BY <1>4 DEF RecheckRef, CheckWorkflow, RefusePost, history
<1>5. QED BY <1>1, <1>2, <1>3, <1>4

\* Runs are made once, listed when they are there, and gone when they are deleted.
LEMMA ListStep == TypeOK /\ ListInv /\ [Next]_vars => ListInv'
<1> SUFFICES ASSUME TypeOK, ListInv, [Next]_vars PROVE ListInv'
  OBVIOUS
<1> USE DEF ListInv, Existing
<1>0. status \in [Runs -> {"none", "deleted", "active", "completed"}] /\ listed \subseteq Runs
      /\ maker \in [Runs -> Calls \cup {Others, None}]
  BY DEF TypeOK
<1>1. CASE UNCHANGED <<status, maker, listed>>
  BY <1>1
<1>2. ASSUME NEW who \in Calls \cup {Others}, CreateRun(who) PROVE ListInv'
  <2>1. PICK r \in Runs :
          /\ r \notin listed
          /\ status' = [status EXCEPT ![r] = "active"]
          /\ maker' = [maker EXCEPT ![r] = who]
    BY <1>2, CreateRunMakes
  <2>2. listed' = listed
    BY <1>2 DEF CreateRun
  <2>3. QED BY <1>0, <2>1, <2>2
<1>3. ASSUME NEW r \in Runs, ListRun(r) PROVE ListInv'
  <2>1. listed' = listed \cup {r} /\ status' = status /\ maker' = maker /\ status[r] \in Existing
    BY <1>3 DEF ListRun
  <2>2. IsFiniteSet(listed')
    BY <2>1, FS_AddElement
  <2>3. QED BY <1>0, <2>1, <2>2
<1>4. ASSUME NEW r \in Runs, EndRun(r) PROVE ListInv'
  <2>1. /\ maker' = maker /\ status[r] \in Existing
        /\ \/ status' = [status EXCEPT ![r] = "completed"] /\ listed' = listed
           \/ status' = [status EXCEPT ![r] = "deleted"] /\ listed' = listed \ {r}
    BY <1>4 DEF EndRun
  <2>2. IsFiniteSet(listed')
    BY <2>1, FS_RemoveElement
  <2>3. QED BY <1>0, <2>1, <2>2
<1>5. ASSUME NEW c \in Calls, SendPost(c) \/ FinishPost(c) PROVE UNCHANGED <<status, maker, listed>>
  BY <1>5, FinishEstablishes DEF SendPost, runVars
<1>6. CASE MoveRef \/ Restart \/ UNCHANGED vars
  BY <1>6 DEF MoveRef, Restart, vars, remoteVars, runVars
<1>7. QED
  BY <1>1, <1>2, <1>3, <1>4, <1>5, <1>6, RemoteUnchanged, StepCases
     DEF remoteVars, runVars, ApplyPost, DispatchByOthers

\* A POST is decided once.
LEMMA PostStep ==
  TypeOK /\ LockInv /\ ListInv /\ PostInv /\ [Next]_vars => PostInv'
<1> SUFFICES ASSUME TypeOK, LockInv, ListInv, PostInv, [Next]_vars PROVE PostInv'
  OBVIOUS
<1>0. /\ pc \in [Calls -> Inside \cup {"idle", "done"}]
      /\ maker \in [Runs -> Calls \cup {Others, None}]
  BY DEF TypeOK
<1>a. \A c \in Calls : pc[c] \in {"posting", "reading", "done"} =>
                       pc'[c] \in {"posting", "reading", "done"}
  BY <1>0, OneMoves DEF Goto, Restart, Inside
<1>1. CASE UNCHANGED <<maker, posts>>
  BY <1>1, <1>a DEF PostInv, Made
<1>2. ASSUME NEW c \in Calls, SendPost(c) PROVE PostInv'
  <2>1. pc[c] = "ready" /\ pc' = [pc EXCEPT ![c] = "posting"] /\ posts' = posts \cup {c}
        /\ maker' = maker
    BY <1>2 DEF SendPost, Goto, runVars
  <2>2. ~Made(c)
    BY <2>1 DEF PostInv
  <2>3. QED BY <1>0, <1>a, <2>1, <2>2 DEF PostInv, Made
<1>3. ASSUME NEW c \in Calls, FinishPost(c) PROVE PostInv'
  <2>1. maker' = maker /\ posts' \subseteq posts
    BY <1>3, FinishEstablishes DEF runVars
  <2>2. QED BY <1>a, <2>1 DEF PostInv, Made
<1>4. ASSUME NEW who \in Calls \cup {Others}, CreateRun(who),
             posts' = posts \ {who}, who \in Calls => who \in posts
      PROVE  PostInv'
  <2>1. PICK r \in Runs : maker[r] = None /\ maker' = [maker EXCEPT ![r] = who]
    BY <1>4, CreateRunMakes
  <2>2. pc' = pc
    BY <1>4 DEF CreateRun
  <2>3. who \in Calls => ~Made(who) /\ pc[who] \in {"posting", "reading", "done"}
    BY <1>4 DEF PostInv
  <2>4. QED BY <1>0, <1>4, <2>1, <2>2, <2>3, DispatchAssumption DEF PostInv, Made
<1>5. ASSUME NEW c \in Calls, ApplyPost(c) PROVE PostInv'
  BY <1>4, <1>5 DEF ApplyPost
<1>6. CASE DispatchByOthers
  <2>1. Others \notin posts
    BY DispatchAssumption DEF TypeOK
  <2>2. QED BY <1>4, <1>6, <2>1, DispatchAssumption DEF DispatchByOthers
<1>7. CASE \/ \E r \in Runs : ListRun(r) \/ EndRun(r)
           \/ MoveRef \/ Restart \/ UNCHANGED vars
  BY <1>1, <1>7 DEF ListRun, EndRun, MoveRef, Restart, vars, remoteVars, runVars
<1>8. QED
  BY <1>1, <1>2, <1>3, <1>5, <1>6, <1>7, RemoteUnchanged, StepCases DEF remoteVars, runVars

-----------------------------------------------------------------------------
\* Leaving the section leaves nobody inside.
LEMMA LeaveEmpties ==
  ASSUME TypeOK, LockInv, NEW c \in Calls, pc[c] \in Inside, Leave(c)
  PROVE  \A d \in Calls : /\ pc'[d] \notin Inside
                          /\ d # c => pc'[d] = pc[d] /\ pc[d] \notin Inside
<1>1. pc' = [pc EXCEPT ![c] = "done"] /\ pc \in [Calls -> Inside \cup {"idle", "done"}]
  BY DEF Leave, Goto, TypeOK
<1>2. QED BY <1>1 DEF LockInv, Inside

\* What the holder knows comes from the end of its own POST.
LEMMA ReceiptStep ==
  TypeOK /\ LockInv /\ ListInv /\ PostInv /\ ReceiptInv /\ [Next]_vars => ReceiptInv'
<1> SUFFICES ASSUME TypeOK, LockInv, ListInv, PostInv, ReceiptInv, [Next]_vars PROVE ReceiptInv'
  OBVIOUS
<1>0. /\ pc \in [Calls -> Inside \cup {"idle", "done"}]
      /\ maker \in [Runs -> Calls \cup {Others, None}]
      /\ holder \in Calls \cup {None}
  BY DEF TypeOK
<1>1. ASSUME NEW c \in Calls, NEW step, Goto(c, step), pc[c] \in Inside \ {"reading"} \/ holder = None,
             step # "reading", UNCHANGED <<receipt, written>>
      PROVE  ReceiptInv'
  <2>1. \A d \in Calls : pc[d] # "reading" /\ pc'[d] # "reading"
    BY <1>0, <1>1, DispatchAssumption DEF LockInv, Inside, Goto
  <2>2. QED BY <1>1, <2>1 DEF ReceiptInv
<1>2. ASSUME NEW c \in Calls, pc[c] \in Inside, Leave(c) PROVE ReceiptInv'
  <2>1. \A d \in Calls : pc'[d] # "reading"
    BY <1>2, LeaveEmpties DEF Inside
  <2>2. receipt' = None /\ written' = "unknown"
    BY <1>2 DEF Leave
  <2>3. QED BY <2>1, <2>2 DEF ReceiptInv
<1>3. ASSUME NEW c \in Calls, RefusePost(c) PROVE ReceiptInv'
  <2>1. /\ pc[c] = "ready" /\ pc' = [pc EXCEPT ![c] = "reading"]
        /\ receipt' = receipt /\ written' = "no" /\ posts' = posts /\ maker' = maker
    BY <1>3 DEF RefusePost, Goto, remoteVars, runVars
  <2>2. \A d \in Calls : pc[d] # "reading" /\ (pc'[d] = "reading" => d = c)
    BY <1>0, <2>1 DEF LockInv, Inside
  <2>3. receipt' = None
    BY <2>1, <2>2 DEF ReceiptInv
  <2>4. c \notin posts' /\ ~Made(c)'
    BY <2>1 DEF PostInv, Made
  <2>5. pc'[c] = "reading" /\ None \notin Runs
    BY <1>0, <2>1, DispatchAssumption
  <2>6. QED BY <2>1, <2>2, <2>3, <2>4, <2>5 DEF ReceiptInv
<1>4. ASSUME NEW c \in Calls, FinishPost(c) PROVE ReceiptInv'
  <2>1. pc[c] = "posting" /\ pc' = [pc EXCEPT ![c] = "reading"] /\ maker' = maker
    BY <1>4, FinishEstablishes DEF Goto, runVars
  <2>2. \A d \in Calls : pc[d] # "reading" /\ (pc'[d] = "reading" => d = c)
    BY <1>0, <2>1 DEF LockInv, Inside
  <2>3. receipt = None /\ pc'[c] = "reading"
    BY <1>0, <2>1, <2>2 DEF ReceiptInv
  <2>4. CASE /\ written' = "yes" /\ Made(c) /\ posts' = posts
             /\ receipt' \in {r \in Runs : maker[r] = c} \cup {"malformed"}
    <3>1. receipt' # None /\ "malformed" \notin Runs
      BY <2>4, DispatchAssumption
    <3>2. c \notin posts'
      BY <2>4 DEF PostInv
    <3>3. receipt' \in Runs => maker'[receipt'] = c
      BY <2>1, <2>4, <3>1
    <3>4. QED BY <2>2, <2>3, <2>4, <3>1, <3>2, <3>3 DEF ReceiptInv
  <2>5. CASE /\ written' \in {"no", "unknown"}
             /\ written' = "no" /\ c \notin garbled' => ~Made(c) /\ posts' = posts \ {c}
             /\ receipt' = receipt
    <3>1. receipt' = None /\ None \notin Runs
      BY <2>3, <2>5, DispatchAssumption
    <3>2. written' = "no" /\ c \notin garbled' => c \notin posts' /\ ~Made(c)'
      BY <2>1, <2>5 DEF Made
    <3>3. QED BY <2>2, <2>3, <2>5, <3>1, <3>2 DEF ReceiptInv
  <2>6. QED BY <1>4, <2>4, <2>5, FinishEstablishes
<1>5. ASSUME UNCHANGED <<pc, receipt, written, posts, maker, garbled>> PROVE ReceiptInv'
  BY <1>5 DEF ReceiptInv, Made
<1>6. ASSUME NEW who \in Calls \cup {Others}, CreateRun(who),
             posts' = posts \ {who}, who \in Calls => who \in posts
      PROVE  ReceiptInv'
  <2>1. PICK r \in Runs : maker[r] = None /\ maker' = [maker EXCEPT ![r] = who]
    BY <1>6, CreateRunMakes
  <2>2. UNCHANGED <<pc, receipt, written, garbled>>
    BY <1>6 DEF CreateRun, callVars, history
  <2>3. ASSUME NEW c \in Calls, pc[c] = "reading"
        PROVE  /\ receipt # None => c \notin posts'
               /\ receipt \in Runs => maker'[receipt] = c
               /\ written = "no" /\ c \notin garbled => c \notin posts' /\ ~Made(c)'
    BY <1>0, <1>6, <2>1, <2>3, DispatchAssumption DEF ReceiptInv, Made
  <2>4. QED BY <2>2, <2>3 DEF ReceiptInv
<1>7. ASSUME NEW c \in Calls, ApplyPost(c) PROVE ReceiptInv'
  BY <1>6, <1>7 DEF ApplyPost
<1>8. CASE DispatchByOthers
  <2>1. Others \notin posts
    BY DispatchAssumption DEF TypeOK
  <2>2. QED BY <1>6, <1>8, <2>1, DispatchAssumption DEF DispatchByOthers
<1>9. CASE Restart
  <2>1. (\A c \in Calls : pc'[c] # "reading") /\ receipt' = None /\ written' = "unknown"
    BY <1>9 DEF Restart
  <2>2. QED BY <2>1 DEF ReceiptInv
<1>10. CASE \/ \E r \in Runs : ListRun(r) \/ EndRun(r)
            \/ MoveRef \/ UNCHANGED vars
  BY <1>5, <1>10 DEF ListRun, EndRun, MoveRef, vars, remoteVars, runVars, callVars, history
<1>11. ASSUME NEW c \in Calls, Enter(c) PROVE ReceiptInv'
  <2>1. /\ holder = None /\ UNCHANGED <<receipt, written>>
        /\ \/ Goto(c, "checking ref") \/ Goto(c, "reading reservation")
           \/ Goto(c, "counting completed")
    BY <1>11 DEF Enter
  <2>2. QED BY <1>1, <2>1
<1>12. ASSUME NEW c \in Calls, ReadReservation(c) PROVE ReceiptInv'
  <2>1. /\ pc[c] = "reading reservation"
        /\ \/ Leave(c)
           \/ /\ Goto(c, "checking ref") \/ Goto(c, "counting completed")
              /\ UNCHANGED <<receipt, written>>
    BY <1>12 DEF ReadReservation, callVars
  <2>2. QED BY <1>1, <1>2, <2>1 DEF Inside
<1>13. ASSUME NEW c \in Calls, CheckRef(c) \/ CountCompleted(c) PROVE ReceiptInv'
  <2>1. /\ pc[c] \in {"checking ref", "counting completed"} /\ UNCHANGED <<receipt, written>>
        /\ Goto(c, "counting completed") \/ Goto(c, "counting all")
    BY <1>13 DEF CheckRef, CountCompleted
  <2>2. QED BY <1>1, <2>1 DEF Inside
<1>14. ASSUME NEW c \in Calls, CountAll(c) \/ Recount(c) PROVE ReceiptInv'
  <2>1. /\ pc[c] \in {"counting all", "recounting"} /\ UNCHANGED <<receipt, written>>
        /\ Goto(c, "recounting") \/ Goto(c, "rechecking ref") \/ Goto(c, "checking ref")
    BY <1>14 DEF CountAll, Recount, PassGate, callVars
  <2>2. QED BY <1>1, <2>1 DEF Inside
<1>15. ASSUME NEW c \in Calls, RecheckRef(c) \/ CheckWorkflow(c) \/ SendPost(c) PROVE ReceiptInv'
  <2>1. /\ pc[c] \in {"rechecking ref", "checking workflow", "ready"}
        /\ UNCHANGED <<receipt, written>>
        /\ Goto(c, "checking workflow") \/ Goto(c, "ready") \/ Goto(c, "posting")
    BY <1>15 DEF RecheckRef, CheckWorkflow, SendPost, callVars
  <2>2. QED BY <1>1, <2>1 DEF Inside
<1>16. ASSUME NEW c \in Calls, Raise(c) \/ ReadOwnRun(c) \/ ReadList(c) \/ FailReadback(c)
       PROVE  ReceiptInv'
  <2>1. pc[c] \in Inside /\ Leave(c)
    BY <1>16, ReadbackReports DEF Raise, Report, Inside
  <2>2. QED BY <1>2, <2>1
<1>17. QED
  BY <1>3, <1>4, <1>7, <1>8, <1>9, <1>10, <1>11, <1>12, <1>13, <1>14, <1>15, <1>16, StepCases

\* The reservation follows the holder, and a run that is deleted stays so.
LEMMA ReservationStep ==
  TypeOK /\ LockInv /\ ListInv /\ ReceiptInv /\ ReservationInv /\ [Next]_vars => ReservationInv'
<1> SUFFICES ASSUME TypeOK, LockInv, ListInv, ReceiptInv, ReservationInv, [Next]_vars
             PROVE  ReservationInv'
  OBVIOUS
<1>0. /\ pc \in [Calls -> Inside \cup {"idle", "done"}]
      /\ reservation \in Reservation \cup {None}
      /\ status \in [Runs -> {"none", "deleted"} \cup Existing]
      /\ holder \in Calls \cup {None}
      /\ gate \in [purpose : Purposes, completed : 0..HistoryMax, all : 0..(HistoryMax - 1)]
  BY DEF TypeOK
<1>r. \A x \in Runs \cup {None}, u \in BOOLEAN : [run |-> x, unknown |-> u] # None
  BY DispatchAssumption DEF Reservation
\* It is enough to look at the call that has moved.
<1>m. ASSUME NEW c \in Calls, NEW step \in Inside, Goto(c, step), pc[c] \in Inside \/ holder = None
      PROVE  \A d \in Calls : pc'[d] \in Inside => d = c /\ pc'[d] = step
  BY <1>0, <1>m, DispatchAssumption DEF LockInv, Inside, Goto
<1> USE DEF ReservationInv, Counting
<1>1. ASSUME NEW c \in Calls, Enter(c) PROVE ReservationInv'
  <2>1. \/ Goto(c, "checking ref")
        \/ Goto(c, "reading reservation") /\ reservation # None /\ reservation.run # None
        \/ Goto(c, "counting completed") /\ gate' = [gate EXCEPT !.purpose = "unresolved"]
    BY <1>1 DEF Enter
  <2>2. holder = None /\ reservation' = reservation
    BY <1>1 DEF Enter
  <2>3. CASE Goto(c, "checking ref")
    <3>1. \A d \in Calls : pc'[d] \in Inside => pc'[d] = "checking ref"
      BY <1>m, <2>2, <2>3 DEF Inside
    <3>2. QED BY <3>1 DEF Inside
  <2>4. CASE Goto(c, "reading reservation") /\ reservation # None /\ reservation.run # None
    <3>1. \A d \in Calls : pc'[d] \in Inside => pc'[d] = "reading reservation"
      BY <1>m, <2>2, <2>4 DEF Inside
    <3>2. reservation.run \in Runs
      BY <1>0, <2>4 DEF Reservation
    <3>3. QED BY <2>2, <2>4, <3>1, <3>2 DEF Inside
  <2>5. CASE Goto(c, "counting completed") /\ gate' = [gate EXCEPT !.purpose = "unresolved"]
    <3>1. \A d \in Calls : pc'[d] \in Inside => pc'[d] = "counting completed"
      BY <1>m, <2>2, <2>5 DEF Inside
    <3>2. gate'.purpose = "unresolved"
      BY <1>0, <2>5
    <3>3. QED BY <3>1, <3>2 DEF Inside
  <2>6. QED BY <2>1, <2>3, <2>4, <2>5
<1>2. ASSUME NEW c \in Calls, pc[c] \in Inside, Leave(c) PROVE ReservationInv'
  BY <1>2, LeaveEmpties DEF Inside
<1>3. ASSUME NEW c \in Calls, ReadReservation(c) PROVE ReservationInv'
  <2>1. pc[c] = "reading reservation" /\ reservation # None /\ reservation.run \in Runs
        /\ status' = status
    BY <1>3 DEF ReadReservation, remoteVars, runVars
  <2>2. \/ Leave(c)
        \/ Goto(c, "checking ref")
        \/ /\ Goto(c, "counting completed") /\ reservation' = reservation
           /\ status[reservation.run] = "deleted"
    BY <1>3 DEF ReadReservation
  <2>3. CASE Goto(c, "checking ref")
    <3>1. \A d \in Calls : pc'[d] \in Inside => pc'[d] = "checking ref"
      BY <1>m, <2>1, <2>3 DEF Inside
    <3>2. QED BY <3>1 DEF Inside
  <2>4. CASE /\ Goto(c, "counting completed") /\ reservation' = reservation
             /\ status[reservation.run] = "deleted"
    <3>1. \A d \in Calls : pc'[d] \in Inside => pc'[d] = "counting completed"
      BY <1>m, <2>1, <2>4 DEF Inside
    <3>2. QED BY <2>1, <2>4, <3>1 DEF Inside
  <2>5. QED BY <1>2, <2>1, <2>2, <2>3, <2>4 DEF Inside
<1>4. ASSUME NEW c \in Calls, CheckRef(c) PROVE ReservationInv'
  <2>1. pc[c] = "checking ref" /\ Goto(c, "counting completed")
        /\ gate' = [gate EXCEPT !.purpose = "dispatch"]
    BY <1>4 DEF CheckRef
  <2>2. \A d \in Calls : pc'[d] \in Inside => pc'[d] = "counting completed"
    BY <1>m, <2>1 DEF Inside
  <2>3. gate'.purpose = "dispatch"
    BY <1>0, <2>1
  <2>4. QED BY <2>2, <2>3 DEF Inside
<1>5. ASSUME NEW c \in Calls, CountCompleted(c) PROVE ReservationInv'
  <2>1. pc[c] = "counting completed" /\ Goto(c, "counting all") /\ reservation' = reservation
        /\ status' = status /\ gate' = [gate EXCEPT !.completed = Count({"completed"})]
    BY <1>5 DEF CountCompleted, remoteVars, runVars
  <2>2. \A d \in Calls : pc'[d] \in Inside => pc'[d] = "counting all"
    BY <1>m, <2>1 DEF Inside
  <2>3. gate'.purpose = gate.purpose
    BY <1>0, <2>1
  <2>4. QED BY <2>1, <2>2, <2>3 DEF Inside
<1>6. ASSUME NEW c \in Calls, PassGate(c), pc[c] \in Inside PROVE ReservationInv'
  <2>1. Goto(c, "rechecking ref") \/ Goto(c, "checking ref")
    BY <1>6 DEF PassGate
  <2>2. \A d \in Calls : pc'[d] \in Inside => pc'[d] \in {"rechecking ref", "checking ref"}
    BY <1>6, <1>m, <2>1 DEF Inside
  <2>3. QED BY <2>2 DEF Inside
<1>7. ASSUME NEW c \in Calls, CountAll(c) PROVE ReservationInv'
  <2>1. /\ pc[c] = "counting all" /\ status' = status
        /\ gate' = [gate EXCEPT !.all = Count(Existing)]
        /\ PassGate(c) \/ (Goto(c, "recounting") /\ reservation' = reservation)
    BY <1>7 DEF CountAll, remoteVars, runVars
  <2>2. CASE Goto(c, "recounting") /\ reservation' = reservation
    <3>1. \A d \in Calls : pc'[d] \in Inside => pc'[d] = "recounting"
      BY <1>m, <2>1, <2>2 DEF Inside
    <3>2. gate'.purpose = gate.purpose
      BY <1>0, <2>1
    <3>3. QED BY <2>1, <2>2, <3>1, <3>2 DEF Inside
  <2>3. QED BY <1>6, <2>1, <2>2 DEF Inside
<1>8. ASSUME NEW c \in Calls, Recount(c) PROVE ReservationInv'
  BY <1>6, <1>8 DEF Recount, Inside
<1>9. ASSUME NEW c \in Calls, RecheckRef(c) PROVE ReservationInv'
  <2>1. pc[c] = "rechecking ref" /\ Goto(c, "checking workflow")
    BY <1>9 DEF RecheckRef
  <2>2. \A d \in Calls : pc'[d] \in Inside => pc'[d] = "checking workflow"
    BY <1>m, <2>1 DEF Inside
  <2>3. QED BY <2>2 DEF Inside
<1>10. ASSUME NEW c \in Calls, CheckWorkflow(c) PROVE ReservationInv'
  <2>1. pc[c] = "checking workflow" /\ Goto(c, "ready")
        /\ reservation' = [run |-> None, unknown |-> TRUE]
    BY <1>10 DEF CheckWorkflow
  <2>2. \A d \in Calls : pc'[d] \in Inside => pc'[d] = "ready"
    BY <1>m, <2>1 DEF Inside
  <2>3. QED BY <1>r, <2>1, <2>2 DEF Inside
<1>11. ASSUME NEW c \in Calls, SendPost(c) PROVE ReservationInv'
  <2>1. pc[c] = "ready" /\ Goto(c, "posting") /\ reservation' = reservation
    BY <1>11 DEF SendPost
  <2>2. \A d \in Calls : pc'[d] \in Inside => pc'[d] = "posting"
    BY <1>m, <2>1 DEF Inside
  <2>3. QED BY <2>1, <2>2 DEF Inside
<1>12. ASSUME NEW c \in Calls, RefusePost(c) PROVE ReservationInv'
  <2>1. pc[c] = "ready" /\ Goto(c, "reading") /\ reservation' = reservation
    BY <1>12 DEF RefusePost
  <2>2. \A d \in Calls : pc'[d] \in Inside => pc'[d] = "reading"
    BY <1>m, <2>1 DEF Inside
  <2>3. QED BY <2>1, <2>2 DEF Inside
<1>13. ASSUME NEW c \in Calls, FinishPost(c) PROVE ReservationInv'
  <2>1. pc[c] = "posting" /\ Goto(c, "reading")
    BY <1>13, FinishEstablishes
  <2>2. \A d \in Calls : pc'[d] \in Inside => pc'[d] = "reading"
    BY <1>m, <2>1 DEF Inside
  <2>3. reservation' # None /\ (reservation'.run # None => reservation'.run = receipt')
    <3>1. CASE reservation' = [run |-> IF receipt' \in Runs THEN receipt' ELSE None,
                               unknown |-> FALSE]
      BY <1>r, <3>1
    <3>2. CASE reservation' = reservation
      BY <2>1, <3>2
    <3>3. QED BY <1>13, <3>1, <3>2, FinishEstablishes
  <2>4. QED BY <2>2, <2>3 DEF Inside
<1>14. ASSUME NEW c \in Calls, Raise(c) \/ ReadOwnRun(c) \/ ReadList(c) \/ FailReadback(c)
       PROVE  ReservationInv'
  <2>1. pc[c] \in Inside /\ Leave(c)
    BY <1>14, ReadbackReports DEF Raise, Report, Inside
  <2>2. QED BY <1>2, <2>1
<1>15. ASSUME UNCHANGED <<pc, reservation, gate, receipt>>,
              \A r \in Runs : status[r] = "deleted" => status'[r] = "deleted"
       PROVE  ReservationInv'
  BY <1>15
<1>16. ASSUME NEW who \in Calls \cup {Others}, CreateRun(who) PROVE ReservationInv'
  <2>1. PICK r \in Runs : status[r] = "none" /\ status' = [status EXCEPT ![r] = "active"]
    BY <1>16, CreateRunMakes
  <2>2. UNCHANGED <<pc, reservation, gate, receipt>>
    BY <1>16 DEF CreateRun, callVars
  <2>3. QED BY <1>0, <1>15, <2>1, <2>2
<1>17. ASSUME NEW r \in Runs, ListRun(r) \/ EndRun(r) PROVE ReservationInv'
  <2>1. UNCHANGED <<pc, reservation, gate, receipt>>
    BY <1>17 DEF ListRun, EndRun, callVars
  <2>2. \A s \in Runs : status[s] = "deleted" => status'[s] = "deleted"
    BY <1>0, <1>17 DEF ListRun, EndRun
  <2>3. QED BY <1>15, <2>1, <2>2
<1>18. CASE MoveRef \/ UNCHANGED vars
  BY <1>15, <1>18 DEF MoveRef, vars, remoteVars, runVars, callVars
<1>19. CASE Restart
  <2>1. \A d \in Calls : pc'[d] \notin Inside
    BY <1>19 DEF Restart, Inside
  <2>2. QED BY <2>1 DEF Inside
<1>20. QED
  BY <1>1, <1>3, <1>4, <1>5, <1>7, <1>8, <1>9, <1>10, <1>11, <1>12, <1>13, <1>14, <1>16, <1>17,
     <1>18, <1>19, StepCases DEF ApplyPost, DispatchByOthers

-----------------------------------------------------------------------------
\* A run comes into a count only by being listed, which makes it a newcomer.
LEMMA MatchingGrows ==
  ASSUME TypeOK, ListInv, holder # None, NEW states \in {Existing, {"active"}},
         \/ \E c \in Calls : ApplyPost(c)
         \/ \E r \in Runs : ListRun(r) \/ EndRun(r)
         \/ DispatchByOthers
  PROVE  /\ Cardinality(Matching(states)') \in Nat
         /\ Cardinality(Matching(states)') + newcomers <= Cardinality(Matching(states)) + newcomers'
<1> DEFINE M == Matching(states)
<1>0. /\ IsFiniteSet(M) /\ Cardinality(M) \in Nat /\ newcomers \in Nat
      /\ status \in [Runs -> {"none", "deleted"} \cup Existing]
      /\ listed \subseteq Runs
  BY MatchingIsFinite DEF TypeOK
<1>1. ASSUME Matching(states)' \subseteq M, newcomers' = newcomers
      PROVE  /\ Cardinality(Matching(states)') \in Nat
             /\ Cardinality(Matching(states)') + newcomers <= Cardinality(M) + newcomers'
  <2>1. IsFiniteSet(Matching(states)') /\ Cardinality(Matching(states)') <= Cardinality(M)
    BY <1>0, <1>1, FS_Subset
  <2>2. Cardinality(Matching(states)') \in Nat
    BY <2>1, FS_CardinalityType
  <2>3. QED BY <1>0, <1>1, <2>1, <2>2
<1>2. ASSUME NEW who \in Calls \cup {Others}, CreateRun(who)
      PROVE  Matching(states)' \subseteq M /\ newcomers' = newcomers
  <2>1. PICK r \in Runs : /\ r \notin listed
                          /\ status' = [status EXCEPT ![r] = "active"]
                          /\ exact' \in {exact, exact \cup {r}}
    BY <1>2, CreateRunMakes
  <2>2. listed' = listed /\ newcomers' = newcomers
    BY <1>2 DEF CreateRun, history
  <2>3. QED BY <1>0, <2>1, <2>2 DEF Matching
<1>3. ASSUME NEW r \in Runs, EndRun(r)
      PROVE  Matching(states)' \subseteq M /\ newcomers' = newcomers
  <2>1. /\ exact' = exact /\ newcomers' = newcomers
        /\ \/ /\ status[r] = "active" /\ status' = [status EXCEPT ![r] = "completed"]
              /\ listed' = listed
           \/ /\ status' = [status EXCEPT ![r] = "deleted"]
              /\ listed' = listed \ {r}
    BY <1>3 DEF EndRun, history
  <2>2. ASSUME NEW x \in Matching(states)' PROVE x \in M
    <3>1. x \in listed /\ x \in exact /\ status'[x] \in states
      BY <2>1, <2>2 DEF Matching
    <3>2. CASE x = r
      <4>1. status[r] = "active" /\ status'[r] = "completed"
        BY <1>0, <2>1, <2>2, <3>1, <3>2 DEF Matching, Existing
      <4>2. states = Existing
        BY <3>1, <3>2, <4>1
      <4>3. QED BY <3>1, <3>2, <4>1, <4>2 DEF Matching, Existing
    <3>3. CASE x # r
      <4>1. status'[x] = status[x]
        BY <1>0, <2>1, <3>1, <3>3
      <4>2. QED BY <3>1, <4>1 DEF Matching
    <3>4. QED BY <3>2, <3>3
  <2>3. QED BY <2>1, <2>2
<1>4. ASSUME NEW r \in Runs, ListRun(r)
      PROVE  /\ Cardinality(Matching(states)') \in Nat
             /\ Cardinality(Matching(states)') + newcomers <= Cardinality(M) + newcomers'
  <2>1. /\ listed' = listed \cup {r} /\ status' = status /\ exact' = exact
        /\ newcomers' = IF r \in exact THEN newcomers + 1 ELSE newcomers
    BY <1>4 DEF ListRun
  <2>2. CASE r \in exact /\ status[r] \in states
    <3>1. Matching(states)' = M \cup {r}
      BY <2>1, <2>2 DEF Matching
    <3>2. Cardinality(M \cup {r}) \in Nat /\ Cardinality(M \cup {r}) <= Cardinality(M) + 1
      BY <1>0, FS_AddElement
    <3>3. QED BY <1>0, <2>1, <2>2, <3>1, <3>2
  <2>3. CASE ~(r \in exact /\ status[r] \in states)
    <3>1. Matching(states)' = M
      BY <2>1, <2>3 DEF Matching
    <3>2. newcomers' \in Nat /\ newcomers <= newcomers'
      BY <1>0, <2>1
    <3>3. QED BY <1>0, <3>1, <3>2
  <2>4. QED BY <2>2, <2>3
<1>5. QED BY <1>1, <1>2, <1>3, <1>4 DEF ApplyPost, DispatchByOthers

\* Counting the completed runs again leaves only newcomers to be active.
LEMMA RecountBounds ==
  ASSUME TypeOK, ListInv, CountInv, NEW c \in Calls, Recount(c)
  PROVE  Cardinality(Matching({"active"})) <= newcomers
<1> DEFINE E == Matching(Existing)
           A == Matching({"active"})
           C == Matching({"completed"})
<1>1. IsFiniteSet(A) /\ Cardinality(A) \in Nat /\ IsFiniteSet(C) /\ Cardinality(C) \in Nat
      /\ Cardinality(E) \in Nat
  BY MatchingIsFinite
<1>2. /\ gate.all = gate.completed /\ Cardinality(E) <= gate.all + newcomers
      /\ gate.completed = Cardinality(C)
  BY MatchingIsFinite DEF Recount, CountInv
<1>3. E = A \cup C /\ A \cap C = {}
  BY DEF Matching, Existing
<1>4. Cardinality(E) = Cardinality(A) + Cardinality(C) - Cardinality({})
  BY <1>1, <1>3, FS_Union
<1>5. Cardinality({}) = 0
  BY FS_EmptySet
<1>6. newcomers \in Nat
  BY DEF TypeOK
<1>7. QED BY <1>1, <1>2, <1>4, <1>5, <1>6

\* The counts hold from the gate to the POST.
LEMMA CountStep ==
  TypeOK /\ LockInv /\ ListInv /\ CountInv /\ [Next]_vars => CountInv'
<1> SUFFICES ASSUME TypeOK, LockInv, ListInv, CountInv, [Next]_vars PROVE CountInv'
  OBVIOUS
<1>0. /\ pc \in [Calls -> Inside \cup {"idle", "done"}]
      /\ holder \in Calls \cup {None} /\ newcomers \in Nat
      /\ gate \in [purpose : Purposes, completed : 0..HistoryMax, all : 0..(HistoryMax - 1)]
  BY DEF TypeOK
<1>m. ASSUME NEW c \in Calls, NEW step \in Inside, Goto(c, step), pc[c] \in Inside \/ holder = None
      PROVE  \A d \in Calls : pc'[d] \in Inside => d = c /\ pc'[d] = step
  BY <1>0, <1>m, DispatchAssumption DEF LockInv, Inside, Goto
<1>n. ASSUME UNCHANGED runVars, NEW states PROVE Matching(states)' = Matching(states)
  BY <1>n DEF Matching, runVars
\* Anywhere else than behind a count, there is nothing to say.
<1>1. ASSUME NEW c \in Calls, NEW step \in Inside \ (Counted \cup {"recounting"}), Goto(c, step),
             pc[c] \in Inside \/ holder = None,
             gate'.all = gate.all, counted' = counted
      PROVE  CountInv'
  <2>1. step \in Inside /\ step \notin Counted \cup {"recounting"}
    BY <1>1
  <2>2. \A d \in Calls : pc'[d] \in Inside => pc'[d] = step
    BY <1>1, <1>m, <2>1, Zenon
  <2>3. Counted \cup {"recounting"} \subseteq Inside
    BY DEF Counted, Inside
  <2>4. \A d \in Calls : pc'[d] \notin Counted /\ pc'[d] # "recounting"
    BY <2>1, <2>2, <2>3
  <2>5. QED BY <1>1, <2>4 DEF CountInv
<1>2. ASSUME NEW c \in Calls, pc[c] \in Inside, Leave(c) PROVE CountInv'
  <2>1. gate'.all = 0 /\ counted' = {}
    BY <1>2 DEF Leave, NoGate
  <2>2. \A d \in Calls : pc'[d] \notin Counted \cup {"recounting"}
    BY <1>2, LeaveEmpties DEF Inside, Counted
  <2>3. QED BY <2>1, <2>2 DEF CountInv
<1>3. ASSUME NEW c \in Calls, Enter(c) PROVE CountInv'
  <2>1. /\ holder = None /\ counted' = counted
        /\ gate' = gate \/ gate' = [gate EXCEPT !.purpose = "unresolved"]
        /\ \/ Goto(c, "checking ref") \/ Goto(c, "reading reservation")
           \/ Goto(c, "counting completed")
    BY <1>3 DEF Enter, history
  <2>2. gate'.all = gate.all
    BY <1>0, <2>1
  <2>3. QED BY <1>1, <2>1, <2>2 DEF Inside, Counted
<1>4. ASSUME NEW c \in Calls, ReadReservation(c) PROVE CountInv'
  <2>1. /\ pc[c] = "reading reservation"
        /\ \/ Leave(c)
           \/ /\ Goto(c, "checking ref") \/ Goto(c, "counting completed")
              /\ counted' = counted
              /\ gate' = gate \/ gate' = [gate EXCEPT !.purpose = "deleted run"]
    BY <1>4 DEF ReadReservation, callVars, history
  <2>2. CASE Leave(c)
    BY <1>2, <2>1, <2>2 DEF Inside
  <2>3. CASE ~Leave(c)
    <3>1. gate'.all = gate.all
      BY <1>0, <2>1, <2>3
    <3>2. QED BY <1>1, <2>1, <2>3, <3>1 DEF Inside, Counted
  <2>4. QED BY <2>2, <2>3
<1>5. ASSUME NEW c \in Calls, CheckRef(c) \/ CountCompleted(c) PROVE CountInv'
  <2>1. /\ pc[c] \in {"checking ref", "counting completed"} /\ counted' = counted
        /\ Goto(c, "counting completed") \/ Goto(c, "counting all")
        /\ \/ gate' = [gate EXCEPT !.purpose = "dispatch"]
           \/ gate' = [gate EXCEPT !.completed = Count({"completed"})]
    BY <1>5 DEF CheckRef, CountCompleted, history
  <2>2. gate'.all = gate.all
    BY <1>0, <2>1
  <2>3. QED BY <1>1, <2>1, <2>2 DEF Inside, Counted
<1>6. ASSUME NEW c \in Calls, CountAll(c) PROVE CountInv'
  <2>1. /\ pc[c] = "counting all" /\ Count(Existing) < HistoryMax
        /\ gate' = [gate EXCEPT !.all = Count(Existing)] /\ Count(Existing) = gate.completed
        /\ counted' = Matching(Existing) /\ newcomers' = 0 /\ UNCHANGED runVars
        /\ \/ Count(Existing) = 0 /\ PassGate(c)
           \/ Goto(c, "recounting")
    BY <1>6 DEF CountAll, remoteVars
  <2>2. /\ Count(Existing) = Cardinality(Matching(Existing)) /\ Count(Existing) \in Nat
        /\ IsFiniteSet(Matching(Existing))
    BY <2>1, MatchingIsFinite
  <2>3. gate'.all = Count(Existing) /\ gate'.completed = gate.completed
    BY <1>0, <2>1
  <2>4. gate'.all = 0 <=> counted' = {}
    BY <2>1, <2>2, <2>3, FS_EmptySet
  <2>5. Cardinality(Matching(Existing)') <= gate'.all + newcomers'
    <3>1. Matching(Existing)' = Matching(Existing)
      BY <1>n, <2>1
    <3>2. newcomers' = 0
      BY <2>1
    <3>3. QED BY <2>2, <2>3, <3>1, <3>2
  <2>6. CASE Goto(c, "recounting")
    <3>1. \A d \in Calls : pc'[d] \in Inside => pc'[d] = "recounting"
      BY <1>m, <2>1, <2>6 DEF Inside
    <3>2. QED BY <2>1, <2>3, <2>4, <2>5, <3>1 DEF CountInv, Inside, Counted
  <2>7. CASE Count(Existing) = 0 /\ PassGate(c)
    <3>1. \A d \in Calls : pc'[d] \in Inside => pc'[d] \in {"rechecking ref", "checking ref"}
      BY <1>m, <2>1, <2>7 DEF PassGate, Inside
    <3>2. Matching(Existing) = {}
      BY <2>2, <2>7, FS_EmptySet
    <3>3. Matching({"active"})' = {}
      BY <1>n, <2>1, <3>2 DEF Matching, Existing
    <3>4. Cardinality(Matching({"active"})') <= newcomers'
      <4>1. Cardinality(Matching({"active"})') = 0
        BY <3>3, FS_EmptySet
      <4>2. newcomers' = 0
        BY <2>1
      <4>3. QED BY <4>1, <4>2
    <3>5. QED BY <2>4, <3>1, <3>4 DEF CountInv, Inside, Counted
  <2>8. QED BY <2>1, <2>6, <2>7
<1>7. ASSUME NEW c \in Calls, Recount(c) PROVE CountInv'
  <2>1. /\ pc[c] = "recounting" /\ UNCHANGED <<gate, counted, newcomers, runVars>> /\ PassGate(c)
    BY <1>7 DEF Recount, remoteVars, callVars, history
  <2>2. \A d \in Calls : pc'[d] \in Inside => pc'[d] \in {"rechecking ref", "checking ref"}
    BY <1>m, <2>1 DEF PassGate, Inside
  <2>3. Cardinality(Matching({"active"})') <= newcomers'
    BY <1>7, <1>n, <2>1, RecountBounds
  <2>4. QED BY <2>1, <2>2, <2>3 DEF CountInv, Inside, Counted
<1>8. ASSUME NEW c \in Calls, RecheckRef(c) \/ CheckWorkflow(c) PROVE CountInv'
  <2>1. /\ pc[c] \in {"rechecking ref", "checking workflow"}
        /\ UNCHANGED <<gate, counted, newcomers, runVars>>
        /\ Goto(c, "checking workflow") \/ Goto(c, "ready")
    BY <1>8 DEF RecheckRef, CheckWorkflow, remoteVars, callVars, history
  <2>2. \A d \in Calls : pc'[d] \in Inside => pc'[d] \in {"checking workflow", "ready"}
    BY <1>m, <2>1 DEF Inside
  <2>3. Cardinality(Matching({"active"})') <= newcomers'
    BY <1>n, <2>1 DEF CountInv, Counted
  <2>4. QED BY <2>1, <2>2, <2>3 DEF CountInv, Inside, Counted
<1>9. ASSUME NEW c \in Calls, SendPost(c) \/ RefusePost(c) \/ FinishPost(c) PROVE CountInv'
  <2>1. /\ pc[c] \in {"ready", "posting"} /\ UNCHANGED <<gate, counted>>
        /\ Goto(c, "posting") \/ Goto(c, "reading")
    BY <1>9, FinishEstablishes DEF SendPost, RefusePost, callVars, history
  <2>2. QED BY <1>1, <2>1 DEF Inside, Counted
<1>10. ASSUME NEW c \in Calls, Raise(c) \/ ReadOwnRun(c) \/ ReadList(c) \/ FailReadback(c)
       PROVE  CountInv'
  <2>1. pc[c] \in Inside /\ Leave(c)
    BY <1>10, ReadbackReports DEF Raise, Report, Inside
  <2>2. QED BY <1>2, <2>1
<1>11. CASE \/ \E c \in Calls : ApplyPost(c)
            \/ \E r \in Runs : ListRun(r) \/ EndRun(r)
            \/ DispatchByOthers
  <2>1. UNCHANGED <<pc, gate, counted>>
    BY <1>11 DEF ApplyPost, DispatchByOthers, CreateRun, ListRun, EndRun, callVars, history
  <2>2. newcomers' \in Nat
    BY TypeStep DEF TypeOK
  <2>3. \A c \in Calls : pc[c] \in Inside => holder # None
    BY DispatchAssumption DEF LockInv
  <2>4. ASSUME holder # None
        PROVE  \A states \in {Existing, {"active"}} :
                 /\ Cardinality(Matching(states)') \in Nat
                 /\ Cardinality(Matching(states)) \in Nat
                 /\ Cardinality(Matching(states)') + newcomers
                      <= Cardinality(Matching(states)) + newcomers'
    BY <1>11, <2>4, MatchingGrows, MatchingIsFinite
  <2>5. gate.all \in Nat
    BY <1>0, DispatchAssumption
  <2>6. ASSUME NEW c \in Calls, pc[c] = "recounting"
        PROVE  Cardinality(Matching(Existing)') <= gate.all + newcomers'
    <3>1. Cardinality(Matching(Existing)) <= gate.all + newcomers
      BY <2>6 DEF CountInv
    <3>2. holder # None
      BY <2>3, <2>6 DEF Inside
    <3>3. /\ Cardinality(Matching(Existing)') \in Nat
          /\ Cardinality(Matching(Existing)) \in Nat
          /\ Cardinality(Matching(Existing)') + newcomers
               <= Cardinality(Matching(Existing)) + newcomers'
      BY <2>4, <3>2
    <3>4. newcomers \in Nat
      BY <1>0
    <3>5. QED BY <2>2, <2>5, <3>1, <3>3, <3>4
  <2>7. ASSUME NEW c \in Calls, pc[c] \in Counted
        PROVE  Cardinality(Matching({"active"})') <= newcomers'
    <3>1. Cardinality(Matching({"active"})) <= newcomers
      BY <2>7 DEF CountInv
    <3>2. holder # None
      BY <2>3, <2>7 DEF Inside, Counted
    <3>3. /\ Cardinality(Matching({"active"})') \in Nat
          /\ Cardinality(Matching({"active"})) \in Nat
          /\ Cardinality(Matching({"active"})') + newcomers
               <= Cardinality(Matching({"active"})) + newcomers'
      BY <2>4, <3>2
    <3>4. newcomers \in Nat
      BY <1>0
    <3>5. QED BY <2>2, <3>1, <3>3, <3>4
  <2>8. QED BY <2>1, <2>6, <2>7 DEF CountInv
<1>12. CASE MoveRef \/ UNCHANGED vars
  <2>1. UNCHANGED <<pc, gate, counted, newcomers, runVars>>
    BY <1>12 DEF MoveRef, vars, remoteVars, callVars, history
  <2>2. QED BY <1>n, <2>1 DEF CountInv
<1>13. CASE Restart
  <2>1. gate'.all = 0 /\ counted' = {} /\ \A c \in Calls : pc'[c] \in {"idle", "done"}
    BY <1>13 DEF Restart, NoGate
  <2>2. QED BY <2>1 DEF CountInv, Counted
<1>14. QED
  BY <1>3, <1>4, <1>5, <1>6, <1>7, <1>8, <1>9, <1>10, <1>11, <1>12, <1>13, StepCases

-----------------------------------------------------------------------------
\* Nothing is pending beside a call that has been cleared or that has sent its POST.
LEMMA NothingBeside ==
  ASSUME TypeOK, LockInv, PostInv, PendingInv, NEW c \in Calls,
         Cleared(c) \/ pc[c] \in {"posting", "reading"},
         NEW d \in Calls, d \notin past \cup garbled, d # c \/ Cleared(c)
  PROVE  ~Pending(d)
<1> SUFFICES ASSUME Pending(d) PROVE FALSE
  OBVIOUS
<1>1. pc[d] \in {"posting", "reading"}
  BY DEF PendingInv, ReservedInv
<1>2. pc[c] \in Inside /\ pc[d] \in Inside
  BY <1>1 DEF Cleared, Counting, Counted, Inside
<1>3. d = c
  BY <1>2 DEF LockInv
<1>4. QED BY <1>1, <1>3 DEF Cleared, Counting, Counted

\* Nothing is pending when the reserved run is over.
LEMMA NothingActive ==
  ASSUME TypeOK, LockInv, PostInv, PendingInv,
         NEW c \in Calls, pc[c] \in Inside \ {"posting", "reading"},
         reservation.run # None, reservation.run \in Runs, status[reservation.run] # "active",
         NEW d \in Calls, d \notin past \cup garbled
  PROVE  ~Pending(d)
<1> SUFFICES ASSUME Pending(d) PROVE FALSE
  OBVIOUS
<1>1. pc[d] \notin {"posting", "reading"}
  <2>1. pc[d] \in {"posting", "reading"} => pc[d] \in Inside
    BY DEF Inside
  <2>2. QED BY <2>1 DEF LockInv
<1>2. ReservedInv(d)
  BY <1>1 DEF PendingInv
<1>3. maker[reservation.run] = d /\ d \notin posts
  BY <1>2 DEF ReservedInv
<1>4. PICK r \in Runs : maker[r] = d /\ status[r] = "active"
  BY <1>3 DEF Pending
<1>5. r = reservation.run
  BY <1>3, <1>4 DEF PostInv
<1>6. QED BY <1>4, <1>5

\* A pending dispatch stays reserved while a call that is not cleared goes on.
LEMMA StaysReserved ==
  ASSUME TypeOK, LockInv, PostInv, PendingInv, NEW c \in Calls,
         \/ pc[c] \in Inside \ {"posting", "reading"}
         \/ holder = None /\ pc[c] = "idle",
         NEW step \in (Inside \cup {"done"}) \ {"posting", "reading"}, Goto(c, step),
         step # "done" => ~Cleared(c)',
         UNCHANGED <<reservation, status, maker, posts, past, garbled>>
  PROVE  PendingInv'
<1>0. pc' = [pc EXCEPT ![c] = step] /\ pc \in [Calls -> Inside \cup {"idle", "done"}]
  BY DEF Goto, TypeOK
<1>1. \A d \in Calls : d # c => pc'[d] = pc[d] /\ pc[d] \notin Inside
  BY <1>0, DispatchAssumption DEF LockInv, Inside
<1>2. pc'[c] = step
  BY <1>0
<1> SUFFICES ASSUME NEW d \in Calls \ (past' \cup garbled'), Pending(d)' PROVE ReservedInv(d)'
  BY DEF PendingInv
<1>3. Pending(d) /\ d \notin past \cup garbled
  BY DEF Pending
<1>4. d # c
  BY <1>3 DEF PostInv, Pending, Made, Inside
<1>5. ReservedInv(d)
  BY <1>1, <1>3, <1>4 DEF PendingInv, Inside
<1>6. ASSUME NEW e \in Calls PROVE ~Cleared(e)' /\ pc'[e] \notin {"posting", "reading"}
  <2>1. CASE e = c
    BY <1>2, <2>1 DEF Cleared, Counted, Counting
  <2>2. CASE e # c
    <3>1. pc'[e] \notin Inside
      BY <1>1, <2>2
    <3>2. QED BY <3>1 DEF Cleared, Counted, Counting, Inside
  <2>3. QED BY <2>1, <2>2
<1>7. QED BY <1>1, <1>4, <1>5, <1>6 DEF ReservedInv

\* A call that leaves after its POST leaves it reserved, unless it is over.
LEMMA LeavesReserved ==
  ASSUME TypeOK, LockInv, PostInv, PendingInv, NEW c \in Calls,
         pc[c] \in {"posting", "reading"}, Leave(c), UNCHANGED remoteVars,
         Pending(c) /\ c \notin past \cup garbled =>
           /\ reservation' # None
           /\ reservation'.run # None => maker[reservation'.run] = c /\ c \notin posts
  PROVE  PendingInv'
<1>0. UNCHANGED <<status, maker, posts, past, garbled>>
  BY DEF Leave, remoteVars, runVars
<1> SUFFICES ASSUME NEW d \in Calls \ (past' \cup garbled'), Pending(d)' PROVE ReservedInv(d)'
  BY DEF PendingInv
<1>1. Pending(d) /\ d \notin past \cup garbled
  BY <1>0 DEF Pending
<1>2. d = c
  BY <1>1, NothingBeside
<1>3. pc'[c] = "done"
  BY DEF Leave, Goto, TypeOK
<1>4. pc[c] \in Inside
  BY DEF Inside
<1>5. \A e \in Calls : pc'[e] \notin Inside
  BY <1>4, LeaveEmpties
<1>6. \A e \in Calls : ~Cleared(e)' /\ pc'[e] \notin {"posting", "reading"}
  BY <1>5 DEF Cleared, Counted, Counting, Inside
<1>7. QED BY <1>0, <1>1, <1>2, <1>3, <1>6 DEF ReservedInv

\* Nothing is sent, forgotten or left unreserved while a dispatch is pending.
LEMMA PendingStep ==
  /\ TypeOK /\ LockInv /\ ListInv /\ PostInv /\ ReceiptInv /\ ReservationInv
  /\ PendingInv /\ [Next]_vars
  => PendingInv'
<1> SUFFICES ASSUME TypeOK, LockInv, ListInv, PostInv, ReceiptInv, ReservationInv,
                    PendingInv, [Next]_vars
             PROVE  PendingInv'
  OBVIOUS
<1>0. /\ pc \in [Calls -> Inside \cup {"idle", "done"}]
      /\ reservation \in Reservation \cup {None}
      /\ status \in [Runs -> {"none", "deleted"} \cup Existing]
      /\ maker \in [Runs -> Calls \cup {Others, None}]
      /\ holder \in Calls \cup {None}
      /\ gate \in [purpose : Purposes, completed : 0..HistoryMax, all : 0..(HistoryMax - 1)]
  BY DEF TypeOK
<1>u. ASSUME UNCHANGED remoteVars, UNCHANGED garbled, NEW d \in Calls
      PROVE  UNCHANGED <<status, maker, posts>> /\ Pending(d)' = Pending(d)
  BY <1>u DEF remoteVars, runVars, Pending
\* With nothing pending there is nothing to say.
<1>1. ASSUME NEW c \in Calls, Cleared(c), UNCHANGED remoteVars, UNCHANGED <<past, garbled>>
      PROVE  PendingInv'
  BY <1>1, <1>u, NothingBeside DEF PendingInv
<1>2. ASSUME NEW c \in Calls, Enter(c) PROVE PendingInv'
  <2>1. /\ holder = None /\ pc[c] = "idle" /\ UNCHANGED remoteVars
        /\ UNCHANGED <<reservation, past, garbled>>
        /\ \/ reservation = None
           \/ Goto(c, "reading reservation")
           \/ Goto(c, "counting completed") /\ gate' = [gate EXCEPT !.purpose = "unresolved"]
    BY <1>2 DEF Enter, history
  <2>2. CASE reservation = None
    <3>1. \A d \in Calls : pc[d] \notin {"posting", "reading"}
      BY <2>1, DispatchAssumption DEF LockInv, Inside
    <3>2. \A d \in Calls \ (past \cup garbled) : ~Pending(d)
      BY <2>2, <3>1 DEF PendingInv, ReservedInv
    <3>3. QED BY <2>1, <3>2, <1>u DEF PendingInv
  <2>3. CASE Goto(c, "reading reservation")
    <3>1. pc'[c] = "reading reservation"
      BY <1>0, <2>3 DEF Goto
    <3>2. ~Cleared(c)'
      BY <3>1 DEF Cleared, Counting, Counted
    <3>3. "reading reservation" \in (Inside \cup {"done"}) \ {"posting", "reading"}
      BY DEF Inside
    <3>4. QED BY <2>1, <2>3, <3>2, <3>3, <1>u, StaysReserved
  <2>4. CASE Goto(c, "counting completed") /\ gate' = [gate EXCEPT !.purpose = "unresolved"]
    <3>1. pc'[c] = "counting completed" /\ gate'.purpose = "unresolved"
      BY <1>0, <2>4 DEF Goto
    <3>2. ~Cleared(c)'
      BY <3>1 DEF Cleared, Counted
    <3>3. "counting completed" \in (Inside \cup {"done"}) \ {"posting", "reading"}
      BY DEF Inside
    <3>4. QED BY <2>1, <2>4, <3>2, <3>3, <1>u, StaysReserved
  <2>5. QED BY <2>1, <2>2, <2>3, <2>4
<1>3. ASSUME NEW c \in Calls, pc[c] \in Inside \ {"posting", "reading"}, Leave(c),
             UNCHANGED remoteVars, UNCHANGED reservation
      PROVE  PendingInv'
  <2>1. Goto(c, "done") /\ UNCHANGED <<past, garbled>>
    BY <1>3 DEF Leave
  <2>2. UNCHANGED <<status, maker, posts>>
    BY <1>3 DEF remoteVars, runVars
  <2>3. QED BY <1>3, <2>1, <2>2, StaysReserved
<1>4. ASSUME NEW c \in Calls, pc[c] \in {"posting", "reading"},
             reservation # None /\ reservation.run # None =>
               maker[reservation.run] = c /\ c \notin posts,
             UNCHANGED remoteVars, Leave(c), reservation' = reservation
      PROVE  PendingInv'
  <2>1. reservation # None
    BY <1>4 DEF ReservationInv
  <2>2. QED BY <1>4, <2>1, LeavesReserved
<1>5. ASSUME NEW c \in Calls, Raise(c) PROVE PendingInv'
  <2>1. pc[c] \in Inside /\ Leave(c) /\ UNCHANGED remoteVars /\ UNCHANGED reservation
    BY <1>5 DEF Raise
  <2>2. CASE pc[c] \notin {"posting", "reading"}
    BY <1>3, <2>1, <2>2
  <2>3. CASE pc[c] = "posting"
    <3>1. reservation.run = None
      BY <2>3 DEF ReservationInv
    <3>2. QED BY <1>4, <2>1, <2>3, <3>1
  <2>4. CASE pc[c] = "reading"
    <3>1. ASSUME reservation # None, reservation.run # None
          PROVE  maker[reservation.run] = c /\ c \notin posts
      <4>1. reservation.run \in Runs
        BY <1>0, <3>1 DEF Reservation
      <4>2. reservation.run = receipt
        BY <2>4, <3>1 DEF ReservationInv
      <4>3. QED BY <2>4, <3>1, <4>1, <4>2 DEF ReceiptInv
    <3>2. QED BY <1>4, <2>1, <2>4, <3>1
  <2>5. QED BY <2>2, <2>3, <2>4
<1>6. ASSUME NEW c \in Calls, ReadReservation(c) PROVE PendingInv'
  <2>1. /\ pc[c] = "reading reservation" /\ UNCHANGED remoteVars
        /\ \/ /\ Goto(c, "counting completed")
              /\ gate' = [gate EXCEPT !.purpose = "deleted run"]
              /\ UNCHANGED <<reservation, past, garbled>>
           \/ status[reservation.run] = "completed" /\ UNCHANGED <<past, garbled>>
           \/ Leave(c) /\ UNCHANGED reservation
    BY <1>6 DEF ReadReservation, history
  <2>2. CASE /\ Goto(c, "counting completed")
             /\ gate' = [gate EXCEPT !.purpose = "deleted run"]
             /\ UNCHANGED <<reservation, past, garbled>>
    <3>1. pc'[c] = "counting completed" /\ gate'.purpose = "deleted run"
      BY <1>0, <2>2 DEF Goto
    <3>2. ~Cleared(c)'
      BY <3>1 DEF Cleared, Counted
    <3>3. pc[c] \in Inside \ {"posting", "reading"}
          /\ "counting completed" \in (Inside \cup {"done"}) \ {"posting", "reading"}
      BY <2>1 DEF Inside
    <3>4. QED BY <2>1, <2>2, <3>2, <3>3, <1>u, StaysReserved
  <2>3. CASE status[reservation.run] = "completed" /\ UNCHANGED <<past, garbled>>
    <3>1. reservation.run \in Runs /\ None \notin Runs
      BY <2>1, DispatchAssumption DEF ReservationInv
    <3>2. pc[c] \in Inside \ {"posting", "reading"}
      BY <2>1 DEF Inside
    <3>3. reservation.run # None /\ status[reservation.run] # "active"
      BY <2>3, <3>1
    <3>4. \A d \in Calls \ (past \cup garbled) : ~Pending(d)
      BY <3>1, <3>2, <3>3, NothingActive
    <3>5. QED BY <2>1, <2>3, <3>4, <1>u DEF PendingInv
  <2>4. CASE Leave(c) /\ UNCHANGED reservation
    <3>1. pc[c] \in Inside \ {"posting", "reading"}
      BY <2>1 DEF Inside
    <3>2. QED BY <1>3, <2>1, <2>4, <3>1
  <2>5. QED BY <2>1, <2>2, <2>3, <2>4
<1>7. ASSUME NEW c \in Calls, CheckRef(c) \/ RecheckRef(c) \/ CheckWorkflow(c) \/ RefusePost(c)
      PROVE  PendingInv'
  <2>1. pc[c] \in {"checking ref", "rechecking ref", "checking workflow", "ready"}
        /\ UNCHANGED remoteVars /\ UNCHANGED <<past, garbled>>
    BY <1>7 DEF CheckRef, RecheckRef, CheckWorkflow, RefusePost, history
  <2>2. Cleared(c)
    BY <2>1 DEF Cleared, Counted
  <2>3. QED BY <1>1, <2>1, <2>2
\* A call that counts for another purpose than to dispatch goes on counting.
<1>8. ASSUME NEW c \in Calls, pc[c] \in Counting, ~Cleared(c), NEW step \in Counting,
             Goto(c, step), gate'.purpose = gate.purpose,
             UNCHANGED remoteVars, UNCHANGED <<reservation, past, garbled>>
      PROVE  PendingInv'
  <2>1. pc'[c] = step
    BY <1>0, <1>8 DEF Goto
  <2>2. ~Cleared(c)'
    BY <1>8, <2>1 DEF Cleared, Counting, Counted
  <2>3. pc[c] \in Inside \ {"posting", "reading"}
        /\ step \in (Inside \cup {"done"}) \ {"posting", "reading"}
    BY <1>8 DEF Inside, Counting
  <2>4. QED BY <1>8, <2>2, <2>3, <1>u, StaysReserved
<1>9. ASSUME NEW c \in Calls, CountCompleted(c) PROVE PendingInv'
  <2>1. /\ pc[c] = "counting completed" /\ Goto(c, "counting all")
        /\ gate' = [gate EXCEPT !.completed = Count({"completed"})]
        /\ UNCHANGED remoteVars /\ UNCHANGED <<reservation, past, garbled>>
    BY <1>9 DEF CountCompleted, history
  <2>2. gate'.purpose = gate.purpose
    BY <1>0, <2>1
  <2>3. pc[c] \in Counting /\ "counting all" \in Counting
    BY <2>1 DEF Counting
  <2>4. CASE Cleared(c)
    BY <1>1, <2>1, <2>4
  <2>5. CASE ~Cleared(c)
    BY <1>8, <2>1, <2>2, <2>3, <2>5
  <2>6. QED BY <2>4, <2>5
\* The reservation of a deleted run is forgotten.
<1>10. ASSUME NEW c \in Calls, pc[c] \in Counting, PassGate(c),
              UNCHANGED remoteVars, UNCHANGED <<past, garbled>>
       PROVE  PendingInv'
  <2>1. CASE gate.purpose = "dispatch"
    <3>1. Cleared(c)
      BY <1>10, <2>1 DEF Cleared
    <3>2. QED BY <1>1, <1>10, <3>1
  <2>2. CASE gate.purpose = "deleted run"
    <3>1. reservation.run \in Runs /\ status[reservation.run] = "deleted" /\ None \notin Runs
      BY <1>10, <2>2, DispatchAssumption DEF ReservationInv
    <3>2. pc[c] \in Inside \ {"posting", "reading"}
      BY <1>10 DEF Counting, Inside
    <3>3. reservation.run # None /\ status[reservation.run] # "active"
      BY <3>1
    <3>4. \A d \in Calls \ (past \cup garbled) : ~Pending(d)
      BY <3>1, <3>2, <3>3, NothingActive
    <3>5. QED BY <1>10, <3>4, <1>u DEF PendingInv
  <2>3. QED BY <1>10, <2>1, <2>2 DEF PassGate
<1>11. ASSUME NEW c \in Calls, CountAll(c) PROVE PendingInv'
  <2>1. /\ pc[c] = "counting all" /\ gate' = [gate EXCEPT !.all = Count(Existing)]
        /\ UNCHANGED remoteVars /\ UNCHANGED <<past, garbled>>
        /\ PassGate(c) \/ (Goto(c, "recounting") /\ UNCHANGED reservation)
    BY <1>11 DEF CountAll
  <2>2. gate'.purpose = gate.purpose
    BY <1>0, <2>1
  <2>3. pc[c] \in Counting /\ "recounting" \in Counting
    BY <2>1 DEF Counting
  <2>4. CASE Cleared(c)
    BY <1>1, <2>1, <2>4
  <2>5. CASE PassGate(c)
    BY <1>10, <2>1, <2>3, <2>5
  <2>6. CASE ~Cleared(c) /\ Goto(c, "recounting") /\ UNCHANGED reservation
    BY <1>8, <2>1, <2>2, <2>3, <2>6
  <2>7. QED BY <2>1, <2>4, <2>5, <2>6
<1>12. ASSUME NEW c \in Calls, Recount(c) PROVE PendingInv'
  <2>1. /\ pc[c] \in Counting /\ PassGate(c)
        /\ UNCHANGED remoteVars /\ UNCHANGED <<past, garbled>>
    BY <1>12 DEF Recount, Counting, history
  <2>2. QED BY <1>10, <2>1
<1>13. ASSUME NEW c \in Calls, SendPost(c) PROVE PendingInv'
  <2>1. /\ pc[c] = "ready" /\ Goto(c, "posting") /\ posts' = posts \cup {c}
        /\ UNCHANGED <<status, maker, past, garbled>>
    BY <1>13 DEF SendPost, runVars, history
  <2>2. Cleared(c) /\ pc'[c] = "posting"
    BY <1>0, <2>1 DEF Cleared, Counted, Goto
  <2>3. \A d \in Calls \ (past \cup garbled) : ~Pending(d)
    BY <2>2, NothingBeside
  <2>4. QED BY <2>1, <2>2, <2>3 DEF PendingInv, Pending
<1>14. ASSUME NEW c \in Calls, FinishPost(c) PROVE PendingInv'
  <2>1. /\ pc[c] = "posting" /\ Goto(c, "reading") /\ posts' \subseteq posts
        /\ UNCHANGED <<status, maker, past>> /\ garbled \subseteq garbled'
    BY <1>14, FinishEstablishes DEF runVars
  <2>2. pc'[c] = "reading"
    BY <1>0, <2>1 DEF Goto
  <2>3. \A d \in Calls \ (past \cup garbled) : d # c => ~Pending(d)
    BY <2>1, NothingBeside
  <2>4. QED BY <2>1, <2>2, <2>3 DEF PendingInv, Pending
<1>15. ASSUME NEW c \in Calls, ReadOwnRun(c) \/ ReadList(c) \/ FailReadback(c) PROVE PendingInv'
  <2>1. PICK read \in BOOLEAN, matches \in Tri, run \in Runs \cup {None} :
          Report(c, read, matches, run)
    BY <1>15, ReadbackReports
  <2>2. /\ pc[c] = "reading" /\ Leave(c) /\ UNCHANGED remoteVars
        /\ reservation' = IF written = "no" THEN None
                          ELSE [run |-> IF receipt \in Runs THEN receipt ELSE None,
                                unknown |-> written = "unknown"]
    BY <1>15, <2>1, ReadbackReports DEF Report
  <2>3. ASSUME Pending(c), c \notin past \cup garbled
        PROVE  /\ reservation' # None
               /\ reservation'.run # None => maker[reservation'.run] = c /\ c \notin posts
    <3>1. written # "no"
      BY <2>2, <2>3 DEF ReceiptInv, Pending, Made
    <3>2. \A x \in Runs \cup {None}, u \in BOOLEAN : [run |-> x, unknown |-> u] # None
      BY DispatchAssumption DEF Reservation
    <3>3. reservation' # None
          /\ (reservation'.run # None => receipt \in Runs /\ reservation'.run = receipt)
      BY <2>2, <3>1, <3>2
    <3>4. receipt \in Runs => receipt # None
      BY DispatchAssumption
    <3>5. QED BY <2>2, <3>3, <3>4 DEF ReceiptInv
  <2>4. QED BY <2>2, <2>3, LeavesReserved
<1>16. ASSUME UNCHANGED <<pc, reservation, gate, past, garbled>>, posts' \subseteq posts,
              \A d \in Calls : Pending(d)' => Pending(d),
              \A r \in Runs : maker[r] # None => maker'[r] = maker[r]
       PROVE  PendingInv'
  <2> SUFFICES ASSUME NEW d \in Calls \ (past' \cup garbled'), Pending(d)',
                      pc'[d] \notin {"posting", "reading"}
               PROVE  ReservedInv(d)'
    BY DEF PendingInv
  <2>1. ReservedInv(d)
    BY <1>16 DEF PendingInv
  <2>2. reservation.run # None => reservation.run \in Runs
    BY <1>0, <2>1 DEF Reservation, ReservedInv
  <2>3. None \notin Calls
    BY DispatchAssumption
  <2>4. reservation.run # None => maker'[reservation.run] = d /\ d \notin posts'
    BY <1>16, <2>1, <2>2, <2>3 DEF ReservedInv
  <2>5. \A e \in Calls : Cleared(e)' = Cleared(e) /\ pc'[e] = pc[e]
    BY <1>16 DEF Cleared
  <2>6. QED BY <1>16, <2>1, <2>4, <2>5 DEF ReservedInv
<1>17. ASSUME NEW who \in Calls \cup {Others}, CreateRun(who),
              posts' = posts \ {who}, who \in Calls => who \in posts
       PROVE  PendingInv'
  <2>1. PICK r \in Runs : /\ status[r] = "none" /\ maker[r] = None
                          /\ status' = [status EXCEPT ![r] = "active"]
                          /\ maker' = [maker EXCEPT ![r] = who]
    BY <1>17, CreateRunMakes
  <2>2. UNCHANGED <<pc, reservation, gate, past, garbled>>
    BY <1>17 DEF CreateRun, callVars, history
  <2>3. \A d \in Calls : Pending(d)' => Pending(d)
    BY <1>0, <1>17, <2>1, DispatchAssumption DEF Pending
  <2>4. QED BY <1>0, <1>16, <1>17, <2>1, <2>2, <2>3
<1>18. ASSUME NEW c \in Calls, ApplyPost(c) PROVE PendingInv'
  BY <1>17, <1>18 DEF ApplyPost
<1>19. CASE DispatchByOthers
  <2>1. Others \notin posts
    BY DispatchAssumption DEF TypeOK
  <2>2. QED BY <1>17, <1>19, <2>1, DispatchAssumption DEF DispatchByOthers
<1>20. ASSUME NEW r \in Runs, ListRun(r) \/ EndRun(r) PROVE PendingInv'
  <2>1. UNCHANGED <<pc, reservation, gate, past, garbled, posts, maker>>
    BY <1>20 DEF ListRun, EndRun, callVars, history
  <2>2. \A s \in Runs : status'[s] = "active" => status[s] = "active"
    BY <1>0, <1>20 DEF ListRun, EndRun
  <2>3. \A d \in Calls : Pending(d)' => Pending(d)
    BY <2>1, <2>2 DEF Pending
  <2>4. QED BY <1>16, <2>1, <2>3
<1>21. CASE MoveRef \/ UNCHANGED vars
  <2>1. UNCHANGED <<pc, reservation, gate, past, garbled, posts, maker, status>>
    BY <1>21 DEF MoveRef, vars, remoteVars, runVars, callVars, history
  <2>2. \A d \in Calls : Pending(d)' => Pending(d)
    BY <2>1 DEF Pending
  <2>3. QED BY <1>16, <2>1, <2>2
<1>22. CASE Restart
  <2>1. past' = {c \in Calls : pc[c] # "idle"} /\ UNCHANGED <<status, maker, posts>>
    BY <1>22 DEF Restart, remoteVars, runVars
  <2>2. \A d \in Calls : Pending(d)' => pc[d] # "idle"
    BY <2>1 DEF Pending, PostInv, Made
  <2>3. QED BY <2>1, <2>2 DEF PendingInv
<1>23. QED
  BY <1>2, <1>5, <1>6, <1>7, <1>9, <1>11, <1>12, <1>13, <1>14, <1>15, <1>18, <1>19, <1>20,
     <1>21, <1>22, StepCases

-----------------------------------------------------------------------------
LEMMA InitInv == Init => IInv
<1> SUFFICES ASSUME Init PROVE IInv
  OBVIOUS
<1>1. 0 \in 0..HistoryMax /\ 0 \in 0..(HistoryMax - 1)
  BY DispatchAssumption
<1>2. TypeOK
  BY <1>1 DEF Init, TypeOK, NoGate, Purposes, Tri
<1>3. LockInv /\ PastInv
  BY DispatchAssumption DEF Init, LockInv, PastInv, Inside
<1>4. ListInv
  BY FS_EmptySet DEF Init, ListInv
<1>5. ~\E c \in Calls : Made(c)
  BY DispatchAssumption DEF Init, Made
<1>6. PostInv /\ ReceiptInv /\ PendingInv
  BY <1>5 DEF Init, PostInv, ReceiptInv, PendingInv, Pending, Made
<1>7. ReservationInv
  BY DEF Init, ReservationInv, Counting
<1>8. CountInv
  BY DEF Init, CountInv, Counted, NoGate
<1>9. QED BY <1>2, <1>3, <1>4, <1>6, <1>7, <1>8 DEF IInv

\* The invariant of the whole: what the lock, the reservation and the counts
\* know of the POST and of its run stays so.
THEOREM Invariance == Spec => []IInv
<1>1. IInv /\ [Next]_vars => IInv'
  BY TypeStep, LockStep, PastStep, ListStep, PostStep, ReceiptStep, ReservationStep, PendingStep,
     CountStep DEF IInv
<1>2. QED BY InitInv, <1>1, PTL DEF Spec

\* Every variable stays in the range the code gives it.
THEOREM TypeCorrect == Spec => []TypeOK
<1>1. IInv => TypeOK
  BY DEF IInv
<1>2. QED BY Invariance, <1>1, PTL

\* A POST is sent from the end of the gate and from nowhere else.
LEMMA SendsFromReady ==
  ASSUME IInv, [Next]_vars, NEW c \in Calls, StartsPosting(c)
  PROVE  pc[c] = "ready" /\ UNCHANGED <<runVars, newcomers, maker, garbled>>
<1>1. pc \in [Calls -> Inside \cup {"idle", "done"}]
  BY DEF IInv, TypeOK
<1>2. SendPost(c)
  <2>1. TypeOK /\ LockInv
    BY DEF IInv
  <2>2. ~Restart /\ ~UNCHANGED pc
    BY DEF Restart, StartsPosting
  <2>3. PICK d \in Calls, step \in Inside \cup {"done"} :
          /\ Goto(d, step)
          /\ step = "posting" => SendPost(d)
    BY <2>1, <2>2, OneMoves
  <2>4. d = c /\ step = "posting"
    BY <1>1, <2>3 DEF Goto, StartsPosting
  <2>5. QED BY <2>3, <2>4
<1>3. QED BY <1>2 DEF SendPost, runVars, history

\* The process never dispatches again while an earlier dispatch of its own is
\* undecided or its run not terminal, whatever became of the earlier call and
\* whoever deletes, completes or lists runs meanwhile: the reservation
\* (_WORKFLOW_DISPATCH_RESERVATIONS) outlives the call until its run is over.
THEOREM NeverTwice == Spec => NoDispatchWhilePending
<1>1. ASSUME IInv, [Next]_vars
      PROVE  \A c \in Calls : StartsPosting(c) =>
               \A d \in Calls \ (past \cup garbled) : ~Pending(d)
  <2> TAKE c \in Calls
  <2> HAVE StartsPosting(c)
  <2>1. Cleared(c)
    BY <1>1, SendsFromReady DEF Cleared, Counted
  <2>2. QED BY <1>1, <2>1, NothingBeside DEF IInv
<1>2. IInv /\ [Next]_vars =>
        [\A c \in Calls : StartsPosting(c) =>
           \A d \in Calls \ (past \cup garbled) : ~Pending(d)]_vars
  BY <1>1
<1>3. QED BY Invariance, <1>2, PTL DEF Spec, NoDispatchWhilePending

\* The nonterminal runs a dispatch is sent beside are at most those the list
\* gained after the all-status count of _require_no_matching_dispatch: the
\* three counts hide no older one.
THEOREM OnlyNewcomers == Spec => OnlyNewcomersSlipIn
<1>1. ASSUME IInv, [Next]_vars
      PROVE  \A c \in Calls : StartsPosting(c) =>
               Cardinality(Matching({"active"})) <= newcomers
  BY <1>1, SendsFromReady DEF IInv, CountInv, Counted
<1>2. IInv /\ [Next]_vars =>
        [\A c \in Calls : StartsPosting(c) =>
           Cardinality(Matching({"active"})) <= newcomers]_vars
  BY <1>1
<1>3. QED BY Invariance, <1>2, PTL DEF Spec, OnlyNewcomersSlipIn

\* A result is written by the end of a readback only, and forgotten by a restart only.
LEMMA OutcomeChanges ==
  ASSUME TypeOK, [Next]_vars, ~Restart, outcome' # outcome
  PROVE  \E c \in Calls : ReadOwnRun(c) \/ ReadList(c) \/ FailReadback(c)
<1>1. ASSUME NEW c \in Calls,
             \/ Enter(c) \/ Raise(c) \/ ReadReservation(c) \/ CheckRef(c)
             \/ CountCompleted(c) \/ CountAll(c) \/ Recount(c)
             \/ RecheckRef(c) \/ CheckWorkflow(c)
             \/ SendPost(c) \/ RefusePost(c) \/ FinishPost(c) \/ ApplyPost(c)
      PROVE  FALSE
  BY <1>1, FinishEstablishes
     DEF Enter, Raise, ReadReservation, CheckRef, CountCompleted, CountAll, Recount, RecheckRef,
         CheckWorkflow, SendPost, RefusePost, ApplyPost, CreateRun
<1>2. ASSUME \/ \E r \in Runs : ListRun(r) \/ EndRun(r)
             \/ DispatchByOthers \/ MoveRef \/ UNCHANGED vars
      PROVE  FALSE
  BY <1>2 DEF ListRun, EndRun, DispatchByOthers, CreateRun, MoveRef, vars
<1>3. QED BY <1>1, <1>2, StepCases

\* A run is reported for a call only if the call made it or, when its POST
\* named none, if the list gained it after the gate had counted: the list
\* answers (ReadList) only behind a gate that found it empty.
THEOREM ReportsNewRuns == Spec => ReportedRunIsNew
<1> DEFINE New(c) ==
      outcome[c] = None /\ outcome'[c] # None /\ outcome'[c].run # None =>
        IF written = "yes" THEN maker[outcome'[c].run] = c ELSE outcome'[c].run \notin counted
<1>1. ASSUME IInv, [Next]_vars PROVE \A c \in Calls : New(c)
  <2> TAKE c \in Calls
  <2> SUFFICES ASSUME outcome[c] = None, outcome'[c] # None, outcome'[c].run # None
               PROVE  IF written = "yes" THEN maker[outcome'[c].run] = c
                      ELSE outcome'[c].run \notin counted
    OBVIOUS
  <2>0. TypeOK /\ ReceiptInv /\ CountInv /\ outcome \in [Calls -> Results \cup {None}]
    BY <1>1 DEF IInv, TypeOK
  <2>1. ~Restart /\ outcome' # outcome
    BY DEF Restart
  <2>2. PICK d \in Calls : ReadOwnRun(d) \/ ReadList(d) \/ FailReadback(d)
    BY <1>1, <2>0, <2>1, OutcomeChanges
  <2>3. pc[d] = "reading"
    BY <2>0, <2>2, ReadbackReports
  <2>4. ASSUME NEW read, NEW matches, NEW run, Report(d, read, matches, run)
        PROVE  d = c /\ outcome'[c].run = run
    BY <2>0, <2>4 DEF Report
  <2>5. CASE ReadOwnRun(d)
    <3>1. receipt \in Runs /\ Report(d, TRUE, YesOrNo(receipt \in exact), receipt)
      BY <2>5, Zenon DEF ReadOwnRun
    <3>2. d = c /\ outcome'[c].run = receipt
      BY <2>4, <3>1
    <3>3. written = "yes" /\ maker[receipt] = c
      BY <2>0, <2>3, <3>1, <3>2, DispatchAssumption DEF ReceiptInv
    <3>4. QED BY <3>2, <3>3
  <2>6. CASE ReadList(d)
    <3>1. receipt = None /\ gate.all = 0
      BY <2>6, Zenon DEF ReadList
    <3>2. written # "yes" /\ counted = {}
      BY <2>0, <2>3, <3>1 DEF ReceiptInv, CountInv
    <3>3. QED BY <3>2
  <2>7. CASE FailReadback(d)
    <3>1. Report(d, FALSE, "unknown", None)
      BY <2>7, Zenon DEF FailReadback
    <3>2. QED BY <2>4, <3>1
  <2>8. QED BY <2>2, <2>5, <2>6, <2>7
<1>2. IInv /\ [Next]_vars => [\A c \in Calls : New(c)]_vars
  BY <1>1
<1>3. QED BY Invariance, <1>2, PTL DEF Spec, ReportedRunIsNew, New
=============================================================================
