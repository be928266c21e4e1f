------------------------ MODULE WriteContractProofs ------------------------
(***************************************************************************)
(* Proofs, for any set of exact writes and any resource, that an outcome   *)
(* tells the truth about the mutation, that a mutation is applied at most  *)
(* once, and that a guarded one lands only on a state its call checked.    *)
(* They rest on AttemptIsTruthful, one fact about a single gh process, and *)
(* on an invariant that follows each call from its check to its outcome.   *)
(***************************************************************************)
EXTENDS WriteContract, TLAPS

Settled(c) == pc[c] \in {"reading", "answered"}

\* A call that may still send has nothing applied and nothing on its way.
UnsentInv(c) ==
  pc[c] \in {"checking", "ready"} /\ c \notin garbled => applied[c] = 0 /\ c \notin live

\* A mutation in flight is undecided or applied; it is not applied twice.
FlightInv(c) ==
  /\ pc[c] = "writing" => c \in live \/ applied[c] > 0
  /\ c \notin garbled => applied[c] <= 1
  /\ c \notin garbled /\ c \in live => applied[c] = 0

\* What the call has established of its write is so.
SettledInv(c) ==
  /\ Settled(c) /\ completed[c] = "yes" => applied[c] > 0
  /\ Settled(c) /\ completed[c] = "no" /\ c \notin garbled => applied[c] = 0 /\ c \notin live

\* An outcome exists while the call is answered, and repeats what it established.
OutcomeInv(c) ==
  /\ pc[c] # "answered" => outcome[c] = None
  /\ pc[c] = "answered" => outcome[c].write_completed = completed[c]

CallInv(c) == UnsentInv(c) /\ FlightInv(c) /\ SettledInv(c) /\ OutcomeInv(c)

\* From a guarded call's check to the decision, the state is as expected or
\* somebody changed it since.
GuardInv ==
  \A c \in Guarded :
    pc[c] \in {"ready", "writing"} \/ c \in live => value = Expected[c] \/ c \in stale

IInv == TypeOK /\ \A c \in Calls : CallInv(c)
-----------------------------------------------------------------------------
\* Success means applied; a failure that is neither ambiguous nor a confirmation
\* gh garbled means rejected (_run_once, for gh api and for gh subcommands).
THEOREM AttemptIsTruthful ==
  ASSUME NEW end \in ApiWriteEnds \cup TextWriteEnds
  PROVE  /\ end.fate \in {"applied", "rejected", "open"}
         /\ ~end.verdict.failed => end.fate = "applied"
         /\ end.verdict.failed /\ ~end.verdict.ambiguous /\ ~end.confirmed =>
              end.fate = "rejected"
<1>1. PICK json \in BOOLEAN, r \in WriteReplies : \E f \in Fates(r) : end = WriteEnd(json, r, f)
  BY DEF ApiWriteEnds, TextWriteEnds
<1>2. PICK f \in Fates(r) : end = WriteEnd(json, r, f)
  BY <1>1
<1>3. r \in Reply /\ r.exit \in {"timeout", "zero", "unexpected"}
  BY DEF WriteReplies, Reply
<1>4. QED  BY <1>2, <1>3 DEF WriteEnd, Fates, Verdict, Failure, Ambiguous

\* The tri-state outcome says no more than the verdict allows.
LEMMA CompletedType ==
  ASSUME NEW verdict
  PROVE  /\ WriteCompleted(verdict) \in Tri
         /\ WriteCompleted(verdict) = "yes" => ~verdict.failed
         /\ WriteCompleted(verdict) = "no" => verdict.failed /\ ~verdict.ambiguous
BY DEF WriteCompleted, Tri

\* The truth about one attempt, for the ends the model draws from.
LEMMA WriteEndIsTruthful ==
  ASSUME NEW c \in Calls, NEW end \in WriteEnds(c)
  PROVE  /\ ~end.verdict.failed => end.fate = "applied"
         /\ end.verdict.failed /\ ~end.verdict.ambiguous /\ ~end.confirmed =>
              end.fate = "rejected"
BY AttemptIsTruthful DEF WriteEnds

\* A reported outcome is well formed.
LEMMA ReportType ==
  ASSUME TypeOK, NEW c \in Calls, NEW read \in BOOLEAN, NEW matches \in Tri,
         read <=> matches # "unknown",
         Report(c, read, matches)
  PROVE  outcome' \in [Calls -> Outcomes \cup {None}] /\ pc' \in [Calls -> Phases]
<1> DEFINE o == [write_completed |-> completed[c], readback_completed |-> read,
                 state_matches_requested |-> matches]
<1>1. completed[c] \in Tri
  BY DEF TypeOK
<1>2. o \in Outcomes
  BY <1>1 DEF Outcomes
<1>3. outcome' = [outcome EXCEPT ![c] = o] /\ pc' = [pc EXCEPT ![c] = "answered"]
  BY DEF Report, Goto
<1> HIDE DEF o
<1>4. QED BY <1>2, <1>3 DEF TypeOK, Phases

\* Both ends of a readback report something well formed and change nothing else.
LEMMA ReadbackReports ==
  ASSUME NEW c \in Calls, FailReadback(c) \/ Readback(c)
  PROVE  /\ pc[c] = "reading"
         /\ \E read \in BOOLEAN, matches \in Tri :
              (read <=> matches # "unknown") /\ Report(c, read, matches)
<1>1. CASE FailReadback(c)
  <2>1. pc[c] = "reading" /\ Report(c, FALSE, "unknown")
    BY <1>1, Zenon DEF FailReadback
  <2>2. "unknown" \in Tri
    BY DEF Tri
  <2>3. QED BY <2>1, <2>2
<1>2. CASE Readback(c)
  <2>1. pc[c] = "reading" /\ \E matches \in Matches(c) : Report(c, TRUE, matches)
    BY <1>2, Zenon DEF Readback
  <2>2. PICK matches \in Matches(c) : Report(c, TRUE, matches)
    BY <2>1
  <2>3. matches \in Tri /\ matches # "unknown"
    BY <2>2 DEF Matches, Tri
  <2>4. QED BY <2>1, <2>2, <2>3
<1>3. QED BY <1>1, <1>2

\* What the end of a gh process establishes, and how it leaves GitHub.
LEMMA FinishEstablishes ==
  ASSUME NEW c \in Calls, FinishWrite(c)
  PROVE  \E end \in WriteEnds(c) :
           /\ end.fate = "applied" <=> c \notin live
           /\ live' = IF end.fate = "rejected" THEN live \ {c} ELSE live
           /\ completed' = [completed EXCEPT ![c] = WriteCompleted(end.verdict)]
           /\ garbled' = IF end.confirmed /\ end.verdict.failed
                         THEN garbled \cup {c} ELSE garbled
           /\ \/ identified' = identified
              \/ c \in Creates /\ identified' = identified \cup {c}
BY Zenon DEF FinishWrite

-----------------------------------------------------------------------------
\* Every step keeps the types.
LEMMA TypeStep == TypeOK /\ [Next]_vars => TypeOK'
<1> SUFFICES ASSUME TypeOK, [Next]_vars PROVE TypeOK'
  OBVIOUS
<1> USE ContractAssumption DEF TypeOK, Phases, requestVars, remoteVars, Goto
<1>1. ASSUME NEW c \in Calls, CheckPrecondition(c) PROVE TypeOK'
  BY <1>1 DEF CheckPrecondition
<1>2. ASSUME NEW c \in Calls, SendWrite(c) PROVE TypeOK'
  BY <1>2 DEF SendWrite
<1>3. ASSUME NEW c \in Calls, RefuseWrite(c) PROVE TypeOK'
  BY <1>3 DEF RefuseWrite, Tri
<1>4. ASSUME NEW c \in Calls, FinishWrite(c) PROVE TypeOK'
  <2>1. PICK end \in WriteEnds(c) :
           /\ live' = IF end.fate = "rejected" THEN live \ {c} ELSE live
           /\ completed' = [completed EXCEPT ![c] = WriteCompleted(end.verdict)]
           /\ garbled' = IF end.confirmed /\ end.verdict.failed
                         THEN garbled \cup {c} ELSE garbled
           /\ \/ identified' = identified
              \/ c \in Creates /\ identified' = identified \cup {c}
    BY <1>4, FinishEstablishes
  <2>2. completed' \in [Calls -> Tri]
    BY <2>1, CompletedType
  <2>3. live' \subseteq Calls /\ garbled' \subseteq Calls /\ identified' \subseteq Creates
    BY <2>1
  <2>4. /\ pc' = [pc EXCEPT ![c] = "reading"] /\ inFlight' = None
        /\ UNCHANGED <<outcome, value, applied, stale, issues, edits>>
    BY <1>4, Zenon DEF FinishWrite
  <2>5. QED BY <2>2, <2>3, <2>4
<1>5. ASSUME NEW c \in Calls, FailReadback(c) \/ Readback(c) PROVE TypeOK'
  <2>1. PICK read \in BOOLEAN, matches \in Tri :
          (read <=> matches # "unknown") /\ Report(c, read, matches)
    BY <1>5, ReadbackReports
  <2>2. outcome' \in [Calls -> Outcomes \cup {None}] /\ pc' \in [Calls -> Phases]
    BY <2>1, ReportType
  <2>3. UNCHANGED <<requestVars, remoteVars, garbled, issues, edits>>
    BY <2>1, Zenon DEF Report
  <2>4. QED BY <2>2, <2>3
<1>6. ASSUME NEW c \in Calls, Abandon(c) PROVE TypeOK'
  BY <1>6 DEF Abandon
<1>7. ASSUME NEW c \in Calls, Apply(c) PROVE TypeOK'
  BY <1>7 DEF Apply
<1>8. ASSUME NEW c \in Calls, AskAgain(c) PROVE TypeOK'
  BY <1>8 DEF AskAgain, First
<1>9. ASSUME Edit PROVE TypeOK'
  BY <1>9 DEF Edit
<1>10. CASE UNCHANGED vars
  BY <1>10 DEF vars
<1>11. QED
  BY <1>1, <1>2, <1>3, <1>4, <1>5, <1>6, <1>7, <1>8, <1>9, <1>10 DEF Next

\* The initial states have the types.
LEMMA InitType == Init => TypeOK
BY ContractAssumption DEF Init, TypeOK, First, Phases, Tri

\* Every variable keeps the range the code gives it.
THEOREM TypeCorrect == Spec => []TypeOK
<1>1. Init => TypeOK
  BY InitType
<1>2. TypeOK /\ [Next]_vars => TypeOK'
  BY TypeStep
<1>3. QED BY <1>1, <1>2, PTL DEF Spec

-----------------------------------------------------------------------------
\* A call whose own state does not change keeps its part of the invariant.
LEMMA Untouched ==
  ASSUME NEW c \in Calls, CallInv(c),
         pc'[c] = pc[c], completed'[c] = completed[c], outcome'[c] = outcome[c],
         applied'[c] = applied[c], c \in live' <=> c \in live,
         garbled \subseteq garbled'
  PROVE  CallInv(c)'
BY DEF CallInv, UnsentInv, FlightInv, SettledInv, OutcomeInv, Settled

\* A call's own step keeps its part of the invariant.
LEMMA CallStep ==
  ASSUME TypeOK, \A c \in Calls : CallInv(c), [Next]_vars
  PROVE  \A c \in Calls : CallInv(c)'
<1> USE DEF TypeOK, requestVars, remoteVars, Goto
<1> DEFINE Others(c) == \A d \in Calls \ {c} :
             /\ pc'[d] = pc[d] /\ completed'[d] = completed[d] /\ outcome'[d] = outcome[d]
             /\ applied'[d] = applied[d] /\ (d \in live' <=> d \in live)
<1>a. ASSUME NEW c \in Calls, Others(c), garbled \subseteq garbled', CallInv(c)'
      PROVE  \A d \in Calls : CallInv(d)'
  BY <1>a, Untouched
<1> HIDE DEF Others
<1>1. ASSUME NEW c \in Calls, CheckPrecondition(c) PROVE \A d \in Calls : CallInv(d)'
  <2>1. /\ pc[c] = "checking"
        /\ \/ pc' = [pc EXCEPT ![c] = "ready"]
           \/ pc' = [pc EXCEPT ![c] = "stopped"]
        /\ UNCHANGED <<completed, outcome, live, applied, garbled>>
    BY <1>1, Zenon DEF CheckPrecondition
  <2>2. CallInv(c)'
    BY <2>1 DEF CallInv, UnsentInv, FlightInv, SettledInv, OutcomeInv, Settled
  <2>3. Others(c)
    BY <2>1 DEF Others
  <2>4. QED BY <1>a, <2>1, <2>2, <2>3
<1>2. ASSUME NEW c \in Calls, SendWrite(c) PROVE \A d \in Calls : CallInv(d)'
  <2>1. /\ pc[c] = "ready" /\ pc' = [pc EXCEPT ![c] = "writing"]
        /\ live' = live \cup {c}
        /\ UNCHANGED <<completed, outcome, applied, garbled>>
    BY <1>2, Zenon DEF SendWrite
  <2>2. CallInv(c)'
    BY <2>1 DEF CallInv, UnsentInv, FlightInv, SettledInv, OutcomeInv, Settled
  <2>3. Others(c)
    BY <2>1 DEF Others
  <2>4. QED BY <1>a, <2>1, <2>2, <2>3
<1>3. ASSUME NEW c \in Calls, RefuseWrite(c) PROVE \A d \in Calls : CallInv(d)'
  <2>1. /\ pc[c] = "ready" /\ pc' = [pc EXCEPT ![c] = "reading"]
        /\ completed' = [completed EXCEPT ![c] = "no"]
        /\ UNCHANGED <<live, outcome, applied, garbled>>
    BY <1>3, Zenon DEF RefuseWrite
  <2>2. CallInv(c)'
    BY <2>1 DEF CallInv, UnsentInv, FlightInv, SettledInv, OutcomeInv, Settled
  <2>3. Others(c)
    BY <2>1 DEF Others
  <2>4. QED BY <1>a, <2>1, <2>2, <2>3
<1>4. ASSUME NEW c \in Calls, FinishWrite(c) PROVE \A d \in Calls : CallInv(d)'
  <2>1. /\ pc[c] = "writing" /\ pc' = [pc EXCEPT ![c] = "reading"]
        /\ UNCHANGED <<outcome, applied>>
    BY <1>4, Zenon DEF FinishWrite
  <2>2. PICK end \in WriteEnds(c) :
           /\ end.fate = "applied" <=> c \notin live
           /\ live' = IF end.fate = "rejected" THEN live \ {c} ELSE live
           /\ completed' = [completed EXCEPT ![c] = WriteCompleted(end.verdict)]
           /\ garbled' = IF end.confirmed /\ end.verdict.failed
                         THEN garbled \cup {c} ELSE garbled
    BY <1>4, FinishEstablishes
  <2>3. completed'[c] = WriteCompleted(end.verdict)
    BY <2>2
  <2>4. completed'[c] = "yes" => c \notin live
    BY <2>2, <2>3, WriteEndIsTruthful, CompletedType
  <2>5. completed'[c] = "no" /\ c \notin garbled' => end.fate = "rejected"
    BY <2>2, <2>3, WriteEndIsTruthful, CompletedType
  <2>6. /\ completed'[c] = "no" /\ c \notin garbled' => c \in live /\ c \notin live'
        /\ garbled \subseteq garbled'
        /\ live' \subseteq live
    BY <2>2, <2>5
  <2>7. CallInv(c)'
    BY <2>1, <2>4, <2>6 DEF CallInv, UnsentInv, FlightInv, SettledInv, OutcomeInv, Settled
  <2>8. Others(c)
    BY <2>1, <2>2 DEF Others
  <2>9. QED BY <1>a, <2>6, <2>7, <2>8
<1>5. ASSUME NEW c \in Calls, FailReadback(c) \/ Readback(c) PROVE \A d \in Calls : CallInv(d)'
  <2>1. PICK read \in BOOLEAN, matches \in Tri : Report(c, read, matches)
    BY <1>5, ReadbackReports
  <2>2. /\ pc[c] = "reading" /\ pc' = [pc EXCEPT ![c] = "answered"]
        /\ outcome' = [outcome EXCEPT ![c] =
             [write_completed |-> completed[c], readback_completed |-> read,
              state_matches_requested |-> matches]]
        /\ UNCHANGED <<completed, live, applied, garbled>>
    BY <1>5, <2>1, ReadbackReports DEF Report
  <2>3. CallInv(c)'
    BY <2>2 DEF CallInv, UnsentInv, FlightInv, SettledInv, OutcomeInv, Settled
  <2>4. Others(c)
    BY <2>2 DEF Others
  <2>5. QED BY <1>a, <2>2, <2>3, <2>4
<1>6. ASSUME NEW c \in Calls, Abandon(c) PROVE \A d \in Calls : CallInv(d)'
  <2>1. /\ pc[c] # "answered" /\ pc' = [pc EXCEPT ![c] = "stopped"]
        /\ UNCHANGED <<completed, outcome, live, applied, garbled>>
    BY <1>6 DEF Abandon
  <2>2. CallInv(c)'
    BY <2>1 DEF CallInv, UnsentInv, FlightInv, SettledInv, OutcomeInv, Settled
  <2>3. Others(c)
    BY <2>1 DEF Others
  <2>4. QED BY <1>a, <2>1, <2>2, <2>3
<1>7. ASSUME NEW c \in Calls, Apply(c) PROVE \A d \in Calls : CallInv(d)'
  <2>1. /\ c \in live /\ live' = live \ {c}
        /\ applied' = [applied EXCEPT ![c] = @ + 1]
        /\ UNCHANGED <<pc, completed, outcome, garbled>>
    BY <1>7, Zenon DEF Apply
  <2>2. applied'[c] = applied[c] + 1 /\ applied[c] \in Nat
    BY <2>1
  <2>3. CallInv(c)'
    BY <2>1, <2>2 DEF CallInv, UnsentInv, FlightInv, SettledInv, OutcomeInv, Settled
  <2>4. Others(c)
    BY <2>1 DEF Others
  <2>5. QED BY <1>a, <2>1, <2>3, <2>4
<1>8. ASSUME NEW c \in Calls, AskAgain(c) PROVE \A d \in Calls : CallInv(d)'
  <2>1. /\ pc[c] = "answered" /\ outcome[c].write_completed = "no"
        /\ pc' = [pc EXCEPT ![c] = First(c)]
        /\ outcome' = [outcome EXCEPT ![c] = None]
        /\ UNCHANGED <<completed, live, applied, garbled>>
    BY <1>8, Zenon DEF AskAgain, MayAskAgain
  <2>2. First(c) \in {"checking", "ready"}
    BY DEF First
  <2>3. CallInv(c)'
    BY <2>1, <2>2 DEF CallInv, UnsentInv, FlightInv, SettledInv, OutcomeInv, Settled
  <2>4. Others(c)
    BY <2>1 DEF Others
  <2>5. QED BY <1>a, <2>1, <2>3, <2>4
<1>9. ASSUME Edit PROVE \A d \in Calls : CallInv(d)'
  <2>1. UNCHANGED <<pc, completed, outcome, live, applied, garbled>>
    BY <1>9, Zenon DEF Edit
  <2>2. QED BY <2>1, Untouched
<1>10. CASE UNCHANGED vars
  <2>1. UNCHANGED <<pc, completed, outcome, live, applied, garbled>>
    BY <1>10 DEF vars
  <2>2. QED BY <2>1, Untouched
<1>11. QED
  BY <1>1, <1>2, <1>3, <1>4, <1>5, <1>6, <1>7, <1>8, <1>9, <1>10 DEF Next

\* Every call's part of the invariant holds initially.
LEMMA InitCall == Init => \A c \in Calls : CallInv(c)
BY DEF Init, CallInv, UnsentInv, FlightInv, SettledInv, OutcomeInv, Settled, First

\* The inductive invariant: types, and each call's part.
THEOREM Invariance == Spec => []IInv
<1>1. Init => IInv
  BY InitType, InitCall DEF IInv
<1>2. IInv /\ [Next]_vars => IInv'
  <2> SUFFICES ASSUME IInv, [Next]_vars PROVE IInv'
    OBVIOUS
  <2>1. TypeOK'
    BY TypeStep DEF IInv
  <2>2. \A c \in Calls : CallInv(c)'
    BY CallStep DEF IInv
  <2>3. QED BY <2>1, <2>2 DEF IInv
<1>3. QED BY <1>1, <1>2, PTL DEF Spec

\* An outcome tells what GitHub did and will do with the mutation, whatever gh
\* reported and however late GitHub decides (execute_write_readback).
THEOREM Truthful == Spec => []OutcomeIsTruthful
<1>1. IInv => OutcomeIsTruthful
  BY DEF IInv, CallInv, SettledInv, OutcomeInv, Settled, OutcomeIsTruthful, Told
<1>2. QED BY <1>1, Invariance, PTL

\* A mutation is applied at most once by a caller who heeds its outcomes
\* ("never replayed", execute_write_readback).
THEOREM AtMostOnce == Spec => []AppliedAtMostOnce
<1>1. IInv => AppliedAtMostOnce
  BY DEF IInv, CallInv, FlightInv, AppliedAtMostOnce
<1>2. QED BY <1>1, Invariance, PTL

-----------------------------------------------------------------------------
\* Every step keeps the link between what was checked and what was hit.
LEMMA GuardStep == TypeOK /\ GuardInv /\ [Next]_vars => GuardInv'
<1> SUFFICES ASSUME TypeOK, GuardInv, [Next]_vars PROVE GuardInv'
  OBVIOUS
<1> USE ContractAssumption DEF GuardInv, TypeOK, requestVars, remoteVars, Goto
<1>1. ASSUME NEW c \in Calls, CheckPrecondition(c) PROVE GuardInv'
  BY <1>1 DEF CheckPrecondition
<1>2. ASSUME NEW c \in Calls, SendWrite(c) PROVE GuardInv'
  BY <1>2 DEF SendWrite
<1>3. ASSUME NEW c \in Calls, RefuseWrite(c) PROVE GuardInv'
  BY <1>3 DEF RefuseWrite
<1>4. ASSUME NEW c \in Calls, FinishWrite(c) PROVE GuardInv'
  <2>1. live' \subseteq live
    BY <1>4, FinishEstablishes
  <2>2. pc' = [pc EXCEPT ![c] = "reading"] /\ UNCHANGED <<value, stale>>
    BY <1>4, Zenon DEF FinishWrite
  <2>3. QED BY <2>1, <2>2
<1>5. ASSUME NEW c \in Calls, FailReadback(c) \/ Readback(c) PROVE GuardInv'
  <2>1. PICK read \in BOOLEAN, matches \in Tri : Report(c, read, matches)
    BY <1>5, ReadbackReports
  <2>2. pc' = [pc EXCEPT ![c] = "answered"] /\ UNCHANGED <<value, live, stale>>
    BY <2>1, Zenon DEF Report
  <2>3. QED BY <2>2
<1>6. ASSUME NEW c \in Calls, Abandon(c) PROVE GuardInv'
  BY <1>6 DEF Abandon
<1>7. ASSUME NEW c \in Calls, Apply(c) PROVE GuardInv'
  BY <1>7 DEF Apply
<1>8. ASSUME NEW c \in Calls, AskAgain(c) PROVE GuardInv'
  <2>1. pc' = [pc EXCEPT ![c] = First(c)] /\ UNCHANGED <<value, live, stale>>
    BY <1>8, Zenon DEF AskAgain
  <2>2. c \in Guarded => pc'[c] = "checking"
    BY <2>1 DEF First
  <2>3. QED BY <2>1, <2>2
<1>9. ASSUME Edit PROVE GuardInv'
  BY <1>9 DEF Edit
<1>10. CASE UNCHANGED vars
  BY <1>10 DEF vars
<1>11. QED
  BY <1>1, <1>2, <1>3, <1>4, <1>5, <1>6, <1>7, <1>8, <1>9, <1>10 DEF Next

\* Only Apply counts a mutation, and only one that was on its way.
LEMMA AppliedWhenLive ==
  ASSUME TypeOK, [Next]_vars, NEW c \in Calls, applied'[c] # applied[c]
  PROVE  c \in live
<1>1. PICK d \in Calls : Apply(d)
  <2>1. ASSUME NEW d \in Calls, FailReadback(d) \/ Readback(d) PROVE applied' = applied
    <3>1. PICK read \in BOOLEAN, matches \in Tri : Report(d, read, matches)
      BY <2>1, ReadbackReports
    <3>2. QED BY <3>1 DEF Report, remoteVars
  <2>2. QED
    BY <2>1 DEF Next, vars, CheckPrecondition, SendWrite, RefuseWrite, FinishWrite, Abandon,
                AskAgain, Edit, remoteVars
<1>2. d \in live /\ applied' = [applied EXCEPT ![d] = @ + 1]
  BY <1>1, Zenon DEF Apply
<1>3. QED BY <1>2 DEF TypeOK

\* A guarded write lands on the state its call checked, or on one that was
\* changed after that check (require_write_precondition).
THEOREM LandsOnChecked == Spec => LandsOnCheckedState
<1>1. Init => GuardInv
  BY ContractAssumption DEF Init, GuardInv, First
<1>2. TypeOK /\ GuardInv /\ [Next]_vars =>
        [\A c \in Guarded :
           applied'[c] # applied[c] => value = Expected[c] \/ c \in stale]_vars
  <2> SUFFICES ASSUME TypeOK, GuardInv, [Next]_vars, NEW c \in Guarded,
                      applied'[c] # applied[c]
               PROVE  value = Expected[c] \/ c \in stale
    OBVIOUS
  <2>1. c \in live
    BY AppliedWhenLive, ContractAssumption
  <2>2. QED BY <2>1 DEF GuardInv
<1>3. QED
  BY <1>1, <1>2, GuardStep, TypeCorrect, PTL DEF Spec, LandsOnCheckedState
=============================================================================
