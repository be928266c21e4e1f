--------------------------- MODULE GovernorProofs ---------------------------
(***************************************************************************)
(* Proofs, for every set of calls and every policy, that the governor      *)
(* keeps its types, paces writes, respects cooldowns and implements        *)
(* RequestPort.  The inductive invariant IInv says why: the holder of the  *)
(* lock is the only call that can send, it was let in with no cooldown     *)
(* pending, and nobody else can start one while it holds the lock.         *)
(***************************************************************************)
EXTENDS RateDiagnostics, SequenceTheorems, TLAPS

\* The lock is held by exactly the call that is between admission and answer.
LockInv == \A c \in Calls : pc[c] \in Holding <=> holder = c

\* A holder was admitted unblocked, and only its own reply can block again.
UnblockedInv == holder # None => blockedUntil = None

\* Every cooldown still owed is covered by the stored deadline.
OwedInv ==
  /\ \A d \in owed : d > wall
  /\ owed # {} => blockedUntil # None
  /\ \A d \in owed : d <= blockedUntil

\* The stored stamp is at or after the end of every write that ended.
StampInv ==
  /\ lastWriteFinishedAt # None => lastWriteFinishedAt <= mono
  /\ \A w \in Writes : endedAt[w] # None =>
       lastWriteFinishedAt # None /\ endedAt[w] <= lastWriteFinishedAt

\* A pacing write sleeps until the spacing after the stamp has passed.
PacingInv ==
  \A c \in Calls : pc[c] = "pacing" =>
    c \in Writes /\ lastWriteFinishedAt # None /\ wakeAt = lastWriteFinishedAt + Spacing

\* The loop's counter bounds the operations started, and stays in the budget.
AttemptInv ==
  \A c \in Calls :
    /\ sends[c] <= attempts[c]
    /\ attempts[c] <= Budget(c)
    /\ pc[c] \in {"idle", "waiting"} => attempts[c] = 0
    /\ pc[c] = "pacing" => sends[c] < attempts[c]
    /\ pc[c] = "backoff" => attempts[c] < Budget(c)

IInv ==
  /\ TypeOK
  /\ LockInv
  /\ UnblockedInv
  /\ OwedInv
  /\ StampInv
  /\ PacingInv
  /\ AttemptInv
-----------------------------------------------------------------------------
\* Every call may send at least once (max_attempts is positive).
LEMMA BudgetPositive ==
  ASSUME NEW c \in Calls PROVE Budget(c) \in Nat /\ Budget(c) >= 1
BY PolicyAssumption DEF Budget

\* A backoff delay is an integer.
LEMMA BackoffType ==
  ASSUME NEW n \in Nat \ {0} PROVE BackoffDelay(n) \in Int
BY PolicyAssumption DEF BackoffDelay

\* A cooldown deadline is an integer, whatever the reply's metadata.
LEMMA DeadlineType ==
  ASSUME TypeOK, NEW m \in Metadata PROVE Deadline(m) \in Int
BY EnvironmentAssumption, PolicyAssumption, CallsAssumption
   DEF TypeOK, Metadata, Deadline, wall

\* The waiters' queue after one waiter is removed.
LEMMA RemoveAtType ==
  ASSUME NEW q \in Seq(Calls), NEW i \in 1..Len(q)
  PROVE  SubSeq(q, 1, i - 1) \o SubSeq(q, i + 1, Len(q)) \in Seq(Calls)
<1>1. SubSeq(q, 1, i - 1) \in Seq(Calls)
  BY SubSeqProperties
<1>2. SubSeq(q, i + 1, Len(q)) \in Seq(Calls)
  BY SubSeqProperties
<1>3. QED BY <1>1, <1>2, ConcatProperties

\* Beginning an attempt, paced or not, keeps the types it touches.
LEMMA BeginAttemptType ==
  ASSUME TypeOK, NEW c \in Calls, BeginAttempt(c)
  PROVE  /\ pc' \in [Calls -> Steps]
         /\ attempts' \in [Calls -> Nat]
         /\ wakeAt' \in Int
         /\ sends' \in [Calls -> Nat]
<1> USE DEF TypeOK
<1>1. attempts' \in [Calls -> Nat]
  BY DEF BeginAttempt
<1>2. CASE MustPace(c)
  <2>1. /\ pc' = [pc EXCEPT ![c] = "pacing"]
        /\ wakeAt' = lastWriteFinishedAt + Spacing
        /\ lastWriteFinishedAt # None
        /\ sends' = sends
    BY <1>2 DEF BeginAttempt, Goto, MustPace
  <2>2. wakeAt' \in Int
    BY <2>1, PolicyAssumption
  <2>3. pc' \in [Calls -> Steps]
    BY <2>1 DEF Steps, Holding
  <2>4. QED BY <1>1, <2>1, <2>2, <2>3
<1>3. CASE ~MustPace(c)
  <2>1. /\ pc' = [pc EXCEPT ![c] = "sending"]
        /\ sends' = [sends EXCEPT ![c] = @ + 1]
        /\ wakeAt' = wakeAt
    BY <1>3, Zenon DEF BeginAttempt, Send, Goto
  <2>2. QED BY <1>1, <2>1 DEF Steps, Holding
<1>4. QED BY <1>2, <1>3

\* Both clock actions are an Advance.
LEMMA TickAdvances ==
  ASSUME Tick PROVE Advance(mono + 1, skew)
BY Zenon DEF Tick

\* What one failed attempt may do: retry under the lock, or give it back.
LEMMA FailOutcome ==
  ASSUME NEW c \in Calls, NEW retryable \in BOOLEAN, Fail(c, retryable)
  PROVE  /\ pc[c] = "sending"
         /\ sends' = sends /\ attempts' = attempts
         /\ \/ ShouldRetry(c, retryable) /\ Goto(c, "backoff") /\ holder' = holder
            \/ Leave(c)
BY Zenon DEF Fail, OperationEnded

\* The two ways an attempt begins.
LEMMA BeginAttemptOutcome ==
  ASSUME NEW c \in Calls, BeginAttempt(c)
  PROVE  /\ attempts' = [attempts EXCEPT ![c] = @ + 1]
         /\ \/ Goto(c, "pacing") /\ sends' = sends
            \/ Goto(c, "sending") /\ sends' = [sends EXCEPT ![c] = @ + 1]
BY Zenon DEF BeginAttempt, Send

\* Every step keeps the types.
LEMMA TypeStep == TypeOK /\ [Next]_vars => TypeOK'
<1> SUFFICES ASSUME TypeOK, [Next]_vars PROVE TypeOK'
  OBVIOUS
<1> USE CallsAssumption, PolicyAssumption, EnvironmentAssumption
    DEF TypeOK, Steps, Holding, Sleeping, lockVars, clockVars
<1>1. ASSUME NEW c \in Calls, Arrive(c) PROVE TypeOK'
  BY <1>1, AppendProperties DEF Arrive, Goto
<1>2. ASSUME NEW c \in Calls, Enter(c) PROVE TypeOK'
  <2>1. queue' \in Seq(Calls)
    BY <1>2, HeadTailProperties DEF Enter, AtHead
  <2>2. QED
    BY <1>2, <2>1, BeginAttemptType DEF Enter
<1>3. ASSUME NEW c \in Calls, Refuse(c) PROVE TypeOK'
  <2>1. queue' \in Seq(Calls)
    BY <1>3, HeadTailProperties DEF Refuse, AtHead
  <2>2. QED
    BY <1>3, <2>1 DEF Refuse, Goto
<1>4. ASSUME NEW c \in Calls, WakeAfterPacing(c) PROVE TypeOK'
  BY <1>4 DEF WakeAfterPacing, Send, Goto
<1>5. ASSUME NEW c \in Calls, WakeAfterBackoff(c) PROVE TypeOK'
  BY <1>5, BeginAttemptType DEF WakeAfterBackoff
<1>6. ASSUME NEW c \in Calls, NEW m \in Metadata, Succeed(c, m) PROVE TypeOK'
  BY <1>6, DeadlineType DEF Succeed, OperationEnded, Leave, Goto, RecordRateLimit
<1>7. ASSUME NEW c \in Calls, NEW m \in Metadata, FailRateLimited(c, m) PROVE TypeOK'
  BY <1>7, DeadlineType DEF FailRateLimited, OperationEnded, Leave, Goto, RecordRateLimit
<1>8. ASSUME NEW c \in Calls, NEW retryable \in BOOLEAN, Fail(c, retryable) PROVE TypeOK'
  <2>1. wakeAt' \in Int
    <3>1. CASE wakeAt' = wakeAt BY <3>1
    <3>2. CASE wakeAt' # wakeAt
      <4>1. wakeAt' = mono + BackoffDelay(attempts[c])
        BY <1>8, <3>2 DEF Fail
      <4>2. QED BY <4>1 DEF BackoffDelay
    <3>3. QED BY <3>1, <3>2
  <2>2. QED BY <1>8, <2>1 DEF Fail, OperationEnded, Leave, Goto
<1>9. ASSUME NEW c \in Calls, Abort(c) PROVE TypeOK'
  BY <1>9 DEF Abort, OperationEnded, Leave, Goto
<1>10. ASSUME NEW c \in Calls, CancelSleeping(c) PROVE TypeOK'
  BY <1>10 DEF CancelSleeping, Leave, Goto
<1>11. ASSUME NEW c \in Calls, CancelWaiting(c) PROVE TypeOK'
  <2>1. queue' \in Seq(Calls)
    BY <1>11, RemoveAtType DEF CancelWaiting
  <2>2. QED BY <1>11, <2>1 DEF CancelWaiting, Goto
<1>12. ASSUME RateStatus PROVE TypeOK'
  BY <1>12 DEF RateStatus
<1>13. ASSUME Tick PROVE TypeOK'
  <2>1. Advance(mono + 1, skew)
    BY <1>13, TickAdvances
  <2>2. mono' \in Nat /\ skew' \in Int
    BY <2>1 DEF Advance
  <2>3. owed' \subseteq Int
    BY <2>1 DEF Advance
  <2>4. QED BY <2>1, <2>2, <2>3 DEF Advance
<1>14. ASSUME NEW s \in Skews, StepWall(s) PROVE TypeOK'
  BY <1>14 DEF StepWall, Advance
<1>15. CASE UNCHANGED vars
  BY <1>15 DEF vars
<1>16. QED
  BY <1>1, <1>2, <1>3, <1>4, <1>5, <1>6, <1>7, <1>8, <1>9, <1>10, <1>11, <1>12,
     <1>13, <1>14, <1>15 DEF Next, Grant, Wake, Finish, Cancel

\* The governor's state keeps the types request_governor.py gives it.
THEOREM TypeCorrect == Spec => []TypeOK
<1>1. Init => TypeOK
  BY CallsAssumption, EnvironmentAssumption DEF Init, TypeOK, Steps
<1>2. QED BY <1>1, TypeStep, PTL DEF Spec

\* Admission gives the lock to one call, which every way out of the loop returns.
LEMMA LockStep == TypeOK /\ LockInv /\ [Next]_vars => LockInv'
<1> SUFFICES ASSUME TypeOK, LockInv, [Next]_vars PROVE LockInv'
  OBVIOUS
<1> USE CallsAssumption, PolicyAssumption
    DEF TypeOK, Holding, Sleeping, Steps, lockVars, clockVars, LockInv
<1>1. ASSUME NEW c \in Calls, Arrive(c) PROVE LockInv'
  BY <1>1 DEF Arrive, Goto
<1>2. ASSUME NEW c \in Calls, Enter(c) PROVE LockInv'
  BY <1>2 DEF Enter, AtHead, BeginAttempt, Send, Goto
<1>3. ASSUME NEW c \in Calls, Refuse(c) PROVE LockInv'
  BY <1>3 DEF Refuse, AtHead, Goto
<1>4. ASSUME NEW c \in Calls, WakeAfterPacing(c) PROVE LockInv'
  BY <1>4 DEF WakeAfterPacing, Send, Goto
<1>5. ASSUME NEW c \in Calls, WakeAfterBackoff(c) PROVE LockInv'
  BY <1>5 DEF WakeAfterBackoff, BeginAttempt, Send, Goto
<1>6. ASSUME NEW c \in Calls, NEW m \in Metadata, Succeed(c, m) PROVE LockInv'
  BY <1>6 DEF Succeed, OperationEnded, Leave, Goto, RecordRateLimit
<1>7. ASSUME NEW c \in Calls, NEW m \in Metadata, FailRateLimited(c, m) PROVE LockInv'
  BY <1>7 DEF FailRateLimited, OperationEnded, Leave, Goto, RecordRateLimit
<1>8. ASSUME NEW c \in Calls, NEW retryable \in BOOLEAN, Fail(c, retryable) PROVE LockInv'
  BY <1>8, FailOutcome DEF Leave, Goto
<1>9. ASSUME NEW c \in Calls, Abort(c) PROVE LockInv'
  BY <1>9 DEF Abort, OperationEnded, Leave, Goto
<1>10. ASSUME NEW c \in Calls, CancelSleeping(c) PROVE LockInv'
  BY <1>10 DEF CancelSleeping, Leave, Goto
<1>11. ASSUME NEW c \in Calls, CancelWaiting(c) PROVE LockInv'
  BY <1>11 DEF CancelWaiting, Goto
<1>12. ASSUME RateStatus PROVE LockInv'
  BY <1>12 DEF RateStatus
<1>13. ASSUME Tick PROVE LockInv'
  BY <1>13, TickAdvances DEF Advance
<1>14. ASSUME NEW s \in Skews, StepWall(s) PROVE LockInv'
  BY <1>14 DEF StepWall, Advance
<1>15. CASE UNCHANGED vars
  BY <1>15 DEF vars
<1>16. QED
  BY <1>1, <1>2, <1>3, <1>4, <1>5, <1>6, <1>7, <1>8, <1>9, <1>10, <1>11, <1>12,
     <1>13, <1>14, <1>15 DEF Next, Grant, Wake, Finish, Cancel

\* Only the holder's own reply installs a cooldown, and it gives the lock back.
LEMMA UnblockedStep == TypeOK /\ LockInv /\ UnblockedInv /\ [Next]_vars => UnblockedInv'
<1> SUFFICES ASSUME TypeOK, LockInv, UnblockedInv, [Next]_vars PROVE UnblockedInv'
  OBVIOUS
<1> USE CallsAssumption, PolicyAssumption
    DEF TypeOK, Holding, Sleeping, Steps, lockVars, clockVars, LockInv, UnblockedInv
<1>1. ASSUME NEW c \in Calls, Arrive(c) PROVE UnblockedInv'
  BY <1>1 DEF Arrive, Goto
<1>2. ASSUME NEW c \in Calls, Enter(c) PROVE UnblockedInv'
  BY <1>2 DEF Enter, AtHead, BeginAttempt, Send, Goto
<1>3. ASSUME NEW c \in Calls, Refuse(c) PROVE UnblockedInv'
  BY <1>3 DEF Refuse, AtHead, Goto
<1>4. ASSUME NEW c \in Calls, WakeAfterPacing(c) PROVE UnblockedInv'
  BY <1>4 DEF WakeAfterPacing, Send, Goto
<1>5. ASSUME NEW c \in Calls, WakeAfterBackoff(c) PROVE UnblockedInv'
  BY <1>5 DEF WakeAfterBackoff, BeginAttempt, Send, Goto
<1>6. ASSUME NEW c \in Calls, NEW m \in Metadata, Succeed(c, m) PROVE UnblockedInv'
  BY <1>6 DEF Succeed, OperationEnded, Leave, Goto, RecordRateLimit
<1>7. ASSUME NEW c \in Calls, NEW m \in Metadata, FailRateLimited(c, m) PROVE UnblockedInv'
  BY <1>7 DEF FailRateLimited, OperationEnded, Leave, Goto, RecordRateLimit
<1>8. ASSUME NEW c \in Calls, NEW retryable \in BOOLEAN, Fail(c, retryable) PROVE UnblockedInv'
  BY <1>8 DEF Fail, OperationEnded, Leave, Goto
<1>9. ASSUME NEW c \in Calls, Abort(c) PROVE UnblockedInv'
  BY <1>9 DEF Abort, OperationEnded, Leave, Goto
<1>10. ASSUME NEW c \in Calls, CancelSleeping(c) PROVE UnblockedInv'
  BY <1>10 DEF CancelSleeping, Leave, Goto
<1>11. ASSUME NEW c \in Calls, CancelWaiting(c) PROVE UnblockedInv'
  BY <1>11 DEF CancelWaiting, Goto
<1>12. ASSUME RateStatus PROVE UnblockedInv'
  BY <1>12 DEF RateStatus
<1>13. ASSUME Tick PROVE UnblockedInv'
  BY <1>13, TickAdvances DEF Advance
<1>14. ASSUME NEW s \in Skews, StepWall(s) PROVE UnblockedInv'
  BY <1>14 DEF StepWall, Advance
<1>15. CASE UNCHANGED vars
  BY <1>15 DEF vars
<1>16. QED
  BY <1>1, <1>2, <1>3, <1>4, <1>5, <1>6, <1>7, <1>8, <1>9, <1>10, <1>11, <1>12,
     <1>13, <1>14, <1>15 DEF Next, Grant, Wake, Finish, Cancel

\* Every end of a write, in whatever way, is stamped.
LEMMA StampStep == TypeOK /\ StampInv /\ [Next]_vars => StampInv'
<1> SUFFICES ASSUME TypeOK, StampInv, [Next]_vars PROVE StampInv'
  OBVIOUS
<1> USE CallsAssumption, PolicyAssumption
    DEF TypeOK, Holding, Sleeping, Steps, lockVars, clockVars, StampInv
<1>1. ASSUME NEW c \in Calls, Arrive(c) PROVE StampInv'
  BY <1>1 DEF Arrive, Goto
<1>2. ASSUME NEW c \in Calls, Enter(c) PROVE StampInv'
  BY <1>2 DEF Enter, AtHead, BeginAttempt, Send, Goto
<1>3. ASSUME NEW c \in Calls, Refuse(c) PROVE StampInv'
  BY <1>3 DEF Refuse, AtHead, Goto
<1>4. ASSUME NEW c \in Calls, WakeAfterPacing(c) PROVE StampInv'
  BY <1>4 DEF WakeAfterPacing, Send, Goto
<1>5. ASSUME NEW c \in Calls, WakeAfterBackoff(c) PROVE StampInv'
  BY <1>5 DEF WakeAfterBackoff, BeginAttempt, Send, Goto
<1>6. ASSUME NEW c \in Calls, NEW m \in Metadata, Succeed(c, m) PROVE StampInv'
  BY <1>6 DEF Succeed, OperationEnded, Leave, Goto, RecordRateLimit
<1>7. ASSUME NEW c \in Calls, NEW m \in Metadata, FailRateLimited(c, m) PROVE StampInv'
  BY <1>7 DEF FailRateLimited, OperationEnded, Leave, Goto, RecordRateLimit
<1>8. ASSUME NEW c \in Calls, NEW retryable \in BOOLEAN, Fail(c, retryable) PROVE StampInv'
  BY <1>8 DEF Fail, OperationEnded, Leave, Goto
<1>9. ASSUME NEW c \in Calls, Abort(c) PROVE StampInv'
  BY <1>9 DEF Abort, OperationEnded, Leave, Goto
<1>10. ASSUME NEW c \in Calls, CancelSleeping(c) PROVE StampInv'
  BY <1>10 DEF CancelSleeping, Leave, Goto
<1>11. ASSUME NEW c \in Calls, CancelWaiting(c) PROVE StampInv'
  BY <1>11 DEF CancelWaiting, Goto
<1>12. ASSUME RateStatus PROVE StampInv'
  BY <1>12 DEF RateStatus
<1>13. ASSUME Tick PROVE StampInv'
  BY <1>13, TickAdvances DEF Advance
<1>14. ASSUME NEW s \in Skews, StepWall(s) PROVE StampInv'
  BY <1>14 DEF StepWall, Advance
<1>15. CASE UNCHANGED vars
  BY <1>15 DEF vars
<1>16. QED
  BY <1>1, <1>2, <1>3, <1>4, <1>5, <1>6, <1>7, <1>8, <1>9, <1>10, <1>11, <1>12,
     <1>13, <1>14, <1>15 DEF Next, Grant, Wake, Finish, Cancel

\* The stamp cannot move while the pacing write sleeps: it holds the lock.
LEMMA PacingStep == TypeOK /\ LockInv /\ PacingInv /\ [Next]_vars => PacingInv'
<1> SUFFICES ASSUME TypeOK, LockInv, PacingInv, [Next]_vars PROVE PacingInv'
  OBVIOUS
<1> USE CallsAssumption, PolicyAssumption
    DEF TypeOK, Holding, Sleeping, Steps, lockVars, clockVars, LockInv, PacingInv
<1>1. ASSUME NEW c \in Calls, Arrive(c) PROVE PacingInv'
  BY <1>1 DEF Arrive, Goto
<1>2. ASSUME NEW c \in Calls, Enter(c) PROVE PacingInv'
  BY <1>2 DEF Enter, AtHead, BeginAttempt, Send, Goto, MustPace
<1>3. ASSUME NEW c \in Calls, Refuse(c) PROVE PacingInv'
  BY <1>3 DEF Refuse, AtHead, Goto
<1>4. ASSUME NEW c \in Calls, WakeAfterPacing(c) PROVE PacingInv'
  BY <1>4 DEF WakeAfterPacing, Send, Goto
<1>5. ASSUME NEW c \in Calls, WakeAfterBackoff(c) PROVE PacingInv'
  BY <1>5 DEF WakeAfterBackoff, BeginAttempt, Send, Goto, MustPace
<1>6. ASSUME NEW c \in Calls, NEW m \in Metadata, Succeed(c, m) PROVE PacingInv'
  BY <1>6 DEF Succeed, OperationEnded, Leave, Goto, RecordRateLimit
<1>7. ASSUME NEW c \in Calls, NEW m \in Metadata, FailRateLimited(c, m) PROVE PacingInv'
  BY <1>7 DEF FailRateLimited, OperationEnded, Leave, Goto, RecordRateLimit
<1>8. ASSUME NEW c \in Calls, NEW retryable \in BOOLEAN, Fail(c, retryable) PROVE PacingInv'
  BY <1>8 DEF Fail, OperationEnded, Leave, Goto
<1>9. ASSUME NEW c \in Calls, Abort(c) PROVE PacingInv'
  BY <1>9 DEF Abort, OperationEnded, Leave, Goto
<1>10. ASSUME NEW c \in Calls, CancelSleeping(c) PROVE PacingInv'
  BY <1>10 DEF CancelSleeping, Leave, Goto
<1>11. ASSUME NEW c \in Calls, CancelWaiting(c) PROVE PacingInv'
  BY <1>11 DEF CancelWaiting, Goto
<1>12. ASSUME RateStatus PROVE PacingInv'
  BY <1>12 DEF RateStatus
<1>13. ASSUME Tick PROVE PacingInv'
  BY <1>13, TickAdvances DEF Advance
<1>14. ASSUME NEW s \in Skews, StepWall(s) PROVE PacingInv'
  BY <1>14 DEF StepWall, Advance
<1>15. CASE UNCHANGED vars
  BY <1>15 DEF vars
<1>16. QED
  BY <1>1, <1>2, <1>3, <1>4, <1>5, <1>6, <1>7, <1>8, <1>9, <1>10, <1>11, <1>12,
     <1>13, <1>14, <1>15 DEF Next, Grant, Wake, Finish, Cancel

\* A cooldown is recorded when it is asked for and forgotten only once it is over.
LEMMA OwedStep == TypeOK /\ LockInv /\ UnblockedInv /\ OwedInv /\ [Next]_vars => OwedInv'
<1> SUFFICES ASSUME TypeOK, LockInv, UnblockedInv, OwedInv, [Next]_vars PROVE OwedInv'
  OBVIOUS
<1> USE CallsAssumption, PolicyAssumption
    DEF TypeOK, Holding, Sleeping, Steps, lockVars, clockVars, LockInv, UnblockedInv, OwedInv, wall
<1>1. ASSUME NEW c \in Calls, Arrive(c) PROVE OwedInv'
  BY <1>1 DEF Arrive, Goto
<1>2. ASSUME NEW c \in Calls, Enter(c) PROVE OwedInv'
  <2>1. owed = {}
    <3>1. CASE blockedUntil = None BY <3>1
    <3>2. CASE Expired BY <3>2 DEF Expired
    <3>3. QED BY <1>2, <3>1, <3>2, Zenon DEF Enter
  <2>2. QED BY <1>2, <2>1 DEF Enter
<1>3. ASSUME NEW c \in Calls, Refuse(c) PROVE OwedInv'
  BY <1>3 DEF Refuse, AtHead, Goto
<1>4. ASSUME NEW c \in Calls, WakeAfterPacing(c) PROVE OwedInv'
  BY <1>4 DEF WakeAfterPacing, Send, Goto
<1>5. ASSUME NEW c \in Calls, WakeAfterBackoff(c) PROVE OwedInv'
  BY <1>5 DEF WakeAfterBackoff, BeginAttempt, Send, Goto
<1>6. ASSUME NEW c \in Calls, NEW m \in Metadata, Succeed(c, m) PROVE OwedInv'
  BY <1>6 DEF Succeed, OperationEnded, Leave, Goto, RecordRateLimit
<1>7. ASSUME NEW c \in Calls, NEW m \in Metadata, FailRateLimited(c, m) PROVE OwedInv'
  BY <1>7 DEF FailRateLimited, OperationEnded, Leave, Goto, RecordRateLimit
<1>8. ASSUME NEW c \in Calls, NEW retryable \in BOOLEAN, Fail(c, retryable) PROVE OwedInv'
  BY <1>8 DEF Fail, OperationEnded, Leave, Goto
<1>9. ASSUME NEW c \in Calls, Abort(c) PROVE OwedInv'
  BY <1>9 DEF Abort, OperationEnded, Leave, Goto
<1>10. ASSUME NEW c \in Calls, CancelSleeping(c) PROVE OwedInv'
  BY <1>10 DEF CancelSleeping, Leave, Goto
<1>11. ASSUME NEW c \in Calls, CancelWaiting(c) PROVE OwedInv'
  BY <1>11 DEF CancelWaiting, Goto
<1>12. ASSUME RateStatus PROVE OwedInv'
  <2>1. owed = {}
    <3>1. Expired BY <1>12, Zenon DEF RateStatus
    <3>2. QED BY <3>1 DEF Expired
  <2>2. QED BY <1>12, <2>1 DEF RateStatus
<1>13. ASSUME Tick PROVE OwedInv'
  <2>1. /\ owed' = {d \in owed : d > mono' + skew'}
        /\ blockedUntil' = blockedUntil
    BY <1>13, TickAdvances DEF Advance
  <2>2. QED BY <2>1
<1>14. ASSUME NEW s \in Skews, StepWall(s) PROVE OwedInv'
  BY <1>14 DEF StepWall, Advance
<1>15. CASE UNCHANGED vars
  BY <1>15 DEF vars
<1>16. QED
  BY <1>1, <1>2, <1>3, <1>4, <1>5, <1>6, <1>7, <1>8, <1>9, <1>10, <1>11, <1>12,
     <1>13, <1>14, <1>15 DEF Next, Grant, Wake, Finish, Cancel

\* Each pass of the loop counts before it sends, and only a budget left sends again.
LEMMA AttemptStep == TypeOK /\ AttemptInv /\ [Next]_vars => AttemptInv'
<1> SUFFICES ASSUME TypeOK, AttemptInv, [Next]_vars PROVE AttemptInv'
  OBVIOUS
<1> USE CallsAssumption, PolicyAssumption
    DEF TypeOK, Holding, Sleeping, Steps, lockVars, clockVars, AttemptInv
<1>1. ASSUME NEW c \in Calls, Arrive(c) PROVE AttemptInv'
  BY <1>1 DEF Arrive, Goto
<1>2. ASSUME NEW c \in Calls, Enter(c) PROVE AttemptInv'
  <2>1. pc[c] = "waiting" /\ BeginAttempt(c)
    BY <1>2, Zenon DEF Enter, AtHead
  <2>2. \A d \in Calls : Budget(d) \in Nat /\ Budget(d) >= 1
    BY BudgetPositive
  <2>3. CASE Goto(c, "pacing") /\ sends' = sends
    <3>1. /\ attempts' = [attempts EXCEPT ![c] = @ + 1]
          /\ pc' = [pc EXCEPT ![c] = "pacing"]
          /\ sends' = sends
      BY <2>1, <2>3, BeginAttemptOutcome DEF Goto
    <3>2. QED BY <2>1, <2>2, <3>1
  <2>4. CASE Goto(c, "sending") /\ sends' = [sends EXCEPT ![c] = @ + 1]
    <3>1. /\ attempts' = [attempts EXCEPT ![c] = @ + 1]
          /\ pc' = [pc EXCEPT ![c] = "sending"]
          /\ sends' = [sends EXCEPT ![c] = @ + 1]
      BY <2>1, <2>4, BeginAttemptOutcome DEF Goto
    <3>2. QED BY <2>1, <2>2, <3>1
  <2>5. QED BY <2>1, <2>3, <2>4, BeginAttemptOutcome
<1>3. ASSUME NEW c \in Calls, Refuse(c) PROVE AttemptInv'
  BY <1>3 DEF Refuse, AtHead, Goto
<1>4. ASSUME NEW c \in Calls, WakeAfterPacing(c) PROVE AttemptInv'
  BY <1>4 DEF WakeAfterPacing, Send, Goto
<1>5. ASSUME NEW c \in Calls, WakeAfterBackoff(c) PROVE AttemptInv'
  <2>1. pc[c] = "backoff" /\ BeginAttempt(c)
    BY <1>5, Zenon DEF WakeAfterBackoff
  <2>2. \A d \in Calls : Budget(d) \in Nat /\ Budget(d) >= 1
    BY BudgetPositive
  <2>3. CASE Goto(c, "pacing") /\ sends' = sends
    <3>1. /\ attempts' = [attempts EXCEPT ![c] = @ + 1]
          /\ pc' = [pc EXCEPT ![c] = "pacing"]
          /\ sends' = sends
      BY <2>1, <2>3, BeginAttemptOutcome DEF Goto
    <3>2. QED BY <2>1, <2>2, <3>1
  <2>4. CASE Goto(c, "sending") /\ sends' = [sends EXCEPT ![c] = @ + 1]
    <3>1. /\ attempts' = [attempts EXCEPT ![c] = @ + 1]
          /\ pc' = [pc EXCEPT ![c] = "sending"]
          /\ sends' = [sends EXCEPT ![c] = @ + 1]
      BY <2>1, <2>4, BeginAttemptOutcome DEF Goto
    <3>2. QED BY <2>1, <2>2, <3>1
  <2>5. QED BY <2>1, <2>3, <2>4, BeginAttemptOutcome
<1>6. ASSUME NEW c \in Calls, NEW m \in Metadata, Succeed(c, m) PROVE AttemptInv'
  BY <1>6 DEF Succeed, OperationEnded, Leave, Goto, RecordRateLimit
<1>7. ASSUME NEW c \in Calls, NEW m \in Metadata, FailRateLimited(c, m) PROVE AttemptInv'
  BY <1>7 DEF FailRateLimited, OperationEnded, Leave, Goto, RecordRateLimit
<1>8. ASSUME NEW c \in Calls, NEW retryable \in BOOLEAN, Fail(c, retryable) PROVE AttemptInv'
  <2>1. CASE Leave(c)
    BY <1>8, <2>1, FailOutcome DEF Leave, Goto
  <2>2. CASE ShouldRetry(c, retryable) /\ Goto(c, "backoff")
    BY <1>8, <2>2, FailOutcome DEF ShouldRetry, Budget, Goto
  <2>3. QED BY <1>8, <2>1, <2>2, FailOutcome
<1>9. ASSUME NEW c \in Calls, Abort(c) PROVE AttemptInv'
  BY <1>9 DEF Abort, OperationEnded, Leave, Goto
<1>10. ASSUME NEW c \in Calls, CancelSleeping(c) PROVE AttemptInv'
  BY <1>10 DEF CancelSleeping, Leave, Goto
<1>11. ASSUME NEW c \in Calls, CancelWaiting(c) PROVE AttemptInv'
  BY <1>11 DEF CancelWaiting, Goto
<1>12. ASSUME RateStatus PROVE AttemptInv'
  BY <1>12 DEF RateStatus
<1>13. ASSUME Tick PROVE AttemptInv'
  BY <1>13, TickAdvances DEF Advance
<1>14. ASSUME NEW s \in Skews, StepWall(s) PROVE AttemptInv'
  BY <1>14 DEF StepWall, Advance
<1>15. CASE UNCHANGED vars
  BY <1>15 DEF vars
<1>16. QED
  BY <1>1, <1>2, <1>3, <1>4, <1>5, <1>6, <1>7, <1>8, <1>9, <1>10, <1>11, <1>12,
     <1>13, <1>14, <1>15 DEF Next, Grant, Wake, Finish, Cancel

-----------------------------------------------------------------------------
\* The invariant holds of a fresh governor.
LEMMA InitIInv == Init => IInv
BY CallsAssumption, EnvironmentAssumption, PolicyAssumption
   DEF Init, IInv, TypeOK, LockInv, UnblockedInv, OwedInv, StampInv, PacingInv,
       AttemptInv, Budget, Steps, Holding

\* Every step keeps the invariant.
LEMMA StepIInv == IInv /\ [Next]_vars => IInv'
BY TypeStep, LockStep, UnblockedStep, OwedStep, StampStep, PacingStep, AttemptStep, Zenon
   DEF IInv

\* The strengthened invariant holds for every number of calls and every policy.
THEOREM Invariance == Spec => []IInv
BY InitIInv, StepIInv, PTL DEF Spec
-----------------------------------------------------------------------------
\* With no cooldown stored, or an expired one, none is owed.
LEMMA NothingOwed ==
  ASSUME IInv, blockedUntil = None \/ Expired PROVE owed = {}
<1> USE DEF IInv, OwedInv, TypeOK
<1>1. CASE blockedUntil = None BY <1>1
<1>2. CASE Expired BY <1>2 DEF Expired, wall
<1>3. QED BY <1>1, <1>2

\* A write that need not pace is a spacing away from every write that ended.
LEMMA SpacedWithoutPacing ==
  ASSUME IInv, NEW c \in Writes, ~MustPace(c), NEW w \in Writes, endedAt[w] # None
  PROVE  mono - endedAt[w] >= Spacing
BY CallsAssumption, PolicyAssumption DEF MustPace, IInv, StampInv, TypeOK

\* An operation starts only at admission or at the end of a sleep.
LEMMA Starts ==
  ASSUME IInv, [Next]_vars, NEW c \in Calls, StartsSending(c)
  PROVE  \/ Enter(c) /\ ~MustPace(c)
         \/ WakeAfterPacing(c)
         \/ WakeAfterBackoff(c) /\ ~MustPace(c)
<1> DEFINE Goal == \/ Enter(c) /\ ~MustPace(c)
                   \/ WakeAfterPacing(c)
                   \/ WakeAfterBackoff(c) /\ ~MustPace(c)
<1> USE DEF IInv, TypeOK, StartsSending
<1>0. ASSUME NEW d \in Calls, NEW stage \in Steps \ {"sending"}, Goto(d, stage)
      PROVE  FALSE
  BY <1>0 DEF Goto
<1>1. ASSUME NEW d \in Calls, Arrive(d) PROVE Goal
  BY <1>0, <1>1 DEF Arrive, Steps
<1>2. ASSUME NEW d \in Calls, Enter(d) PROVE Goal
  <2>1. CASE Goto(d, "pacing")
    BY <1>0, <2>1 DEF Steps, Holding
  <2>2. CASE ~MustPace(d) /\ Goto(d, "sending")
    <3>1. c = d BY <2>2 DEF Goto
    <3>2. QED BY <1>2, <2>2, <3>1
  <2>3. QED BY <1>2, <2>1, <2>2, Zenon DEF Enter, BeginAttempt, Send
<1>3. ASSUME NEW d \in Calls, Refuse(d) PROVE Goal
  BY <1>0, <1>3 DEF Refuse, Steps
<1>4. ASSUME NEW d \in Calls, WakeAfterPacing(d) PROVE Goal
  <2>1. c = d BY <1>4 DEF WakeAfterPacing, Send, Goto
  <2>2. QED BY <1>4, <2>1
<1>5. ASSUME NEW d \in Calls, WakeAfterBackoff(d) PROVE Goal
  <2>1. CASE Goto(d, "pacing")
    BY <1>0, <2>1 DEF Steps, Holding
  <2>2. CASE ~MustPace(d) /\ Goto(d, "sending")
    <3>1. c = d BY <2>2 DEF Goto
    <3>2. QED BY <1>5, <2>2, <3>1
  <2>3. QED BY <1>5, <2>1, <2>2, Zenon DEF WakeAfterBackoff, BeginAttempt, Send
<1>6. ASSUME NEW d \in Calls, Finish(d) PROVE Goal
  <2>1. Goto(d, "done") \/ Goto(d, "backoff")
    BY <1>6, Zenon DEF Finish, Succeed, FailRateLimited, Fail, Abort, Leave
  <2>2. QED BY <1>0, <2>1 DEF Steps, Holding
<1>7. ASSUME NEW d \in Calls, Cancel(d) PROVE Goal
  <2>1. Goto(d, "done")
    BY <1>7, Zenon DEF Cancel, CancelSleeping, CancelWaiting, Leave
  <2>2. QED BY <1>0, <2>1 DEF Steps
<1>8. CASE pc' = pc
  BY <1>8
<1>9. RateStatus \/ Tick \/ (\E s \in Skews : StepWall(s)) \/ UNCHANGED vars => pc' = pc
  BY TickAdvances, Zenon DEF RateStatus, Advance, StepWall, vars
<1>10. QED
  BY <1>1, <1>2, <1>3, <1>4, <1>5, <1>6, <1>7, <1>8, <1>9, Zenon DEF Next, Grant, Wake

\* An operation of a write starts at least the spacing after any write ended.
LEMMA StartIsSpaced ==
  ASSUME IInv, [Next]_vars, NEW c \in Writes, StartsSending(c),
         NEW w \in Writes, endedAt[w] # None
  PROVE  mono - endedAt[w] >= Spacing
<1>1. c \in Calls
  BY CallsAssumption
<1>2. CASE ~MustPace(c)
  BY <1>2, SpacedWithoutPacing
<1>3. CASE WakeAfterPacing(c)
  BY <1>1, <1>3, CallsAssumption, PolicyAssumption
     DEF WakeAfterPacing, IInv, PacingInv, StampInv, TypeOK
<1>4. QED BY <1>1, <1>2, <1>3, Starts

\* An operation starts only when no cooldown is owed.
LEMMA StartIsUnowed ==
  ASSUME IInv, [Next]_vars, NEW c \in Calls, StartsSending(c)
  PROVE  owed = {}
<1>1. CASE Enter(c)
  BY <1>1, NothingOwed, Zenon DEF Enter
<1>2. CASE WakeAfterPacing(c) \/ WakeAfterBackoff(c)
  <2>1. pc[c] \in Holding
    BY <1>2, Zenon DEF WakeAfterPacing, WakeAfterBackoff, Holding
  <2>2. blockedUntil = None
    BY <2>1, CallsAssumption DEF IInv, LockInv, UnblockedInv
  <2>3. QED BY <2>2, NothingOwed
<1>3. QED BY <1>1, <1>2, Starts

\* Writes keep the spacing on the monotonic clock, for every set of calls.
THEOREM WriteSpacing == Spec => WritesAreSpaced
<1>1. IInv /\ [Next]_vars => [SpacedStart]_vars
  BY StartIsSpaced DEF SpacedStart
<1>2. QED BY <1>1, Invariance, PTL DEF Spec, WritesAreSpaced

\* No operation starts while a cooldown GitHub asked for is still owed.
THEOREM CooldownRespected == Spec => CooldownIsRespected
<1>1. IInv /\ [Next]_vars => [UnowedStart]_vars
  BY StartIsUnowed DEF UnowedStart
<1>2. QED BY <1>1, Invariance, PTL DEF Spec, CooldownIsRespected
-----------------------------------------------------------------------------
(***************************************************************************)
(* Refinement: every step of the governor is a step of the port or leaves  *)
(* it unchanged.                                                           *)
(***************************************************************************)
LEMMA PhaseAfterGoto ==
  ASSUME TypeOK, NEW c \in Calls, NEW stage \in Steps, Goto(c, stage)
  PROVE  phase' = [phase EXCEPT ![c] = PhaseOf(stage)]
BY DEF TypeOK, Goto, phase

\* The phase of a call, read off its step.
LEMMA PhaseValue ==
  ASSUME NEW c \in Calls PROVE phase[c] = PhaseOf(pc[c])
BY DEF phase

\* The lock makes the flying call the only one.
LEMMA OneFlying ==
  ASSUME IInv, NEW c \in Calls, pc[c] \in Holding \/ holder = None,
         NEW d \in Calls, pc[d] = "sending"
  PROVE  d = c
BY CallsAssumption DEF IInv, LockInv, Holding

\* Starting to send is the port's Launch.
LEMMA PortLaunch ==
  ASSUME IInv, [Next]_vars, NEW c \in Calls, StartsSending(c), Send(c),
         holder = None \/ holder = c, pc[c] # "done", sends[c] < Budget(c),
         UNCHANGED <<endedAt, owed, mono, skew>>
  PROVE  Port!Launch(c)
<1>1. phase[c] = "pending"
  BY PhaseValue DEF StartsSending, PhaseOf
<1>2. \A d \in Calls : phase[d] # "flying"
  <2> SUFFICES ASSUME NEW d \in Calls, phase[d] = "flying" PROVE FALSE
    OBVIOUS
  <2>1. pc[d] = "sending"
    BY PhaseValue DEF PhaseOf
  <2>2. holder = d
    BY <2>1 DEF IInv, LockInv, Holding
  <2>3. QED BY <2>1, <2>2, CallsAssumption DEF StartsSending
<1>3. owed = {}
  BY StartIsUnowed
<1>4. c \in Writes => Port!Spaced
  <2> SUFFICES ASSUME c \in Writes, NEW w \in Writes, endedAt[w] # None
               PROVE  mono >= endedAt[w] + Spacing
    BY DEF Port!Spaced
  <2>1. mono - endedAt[w] >= Spacing
    BY StartIsSpaced
  <2>2. QED BY <2>1, CallsAssumption, PolicyAssumption DEF IInv, TypeOK
<1>5. phase' = [phase EXCEPT ![c] = "flying"]
  BY PhaseAfterGoto DEF Send, Steps, Holding, PhaseOf, IInv
<1>6. QED
  BY <1>1, <1>2, <1>3, <1>4, <1>5 DEF Port!Launch, Port!Budget, Budget, Send, wall

\* The end of an operation, final or to be retried, is the port's Land.
LEMMA PortLand ==
  ASSUME IInv, NEW c \in Calls, OperationEnded(c),
         \/ Goto(c, "done")
         \/ Goto(c, "backoff") /\ sends[c] < Budget(c),
         owed \subseteq owed', \A d \in owed' : d > wall
  PROVE  Port!Land(c)
<1>1. phase[c] = "flying"
  BY PhaseValue DEF OperationEnded, PhaseOf
<1>2. \/ phase' = [phase EXCEPT ![c] = "answered"]
      \/ sends[c] < Budget(c) /\ phase' = [phase EXCEPT ![c] = "pending"]
  BY PhaseAfterGoto DEF Steps, Holding, PhaseOf, IInv
<1>3. QED
  BY <1>1, <1>2 DEF OperationEnded, clockVars, Port!Land, Port!Budget, Budget, wall

\* A call that ends without sending is the port's GiveUp.
LEMMA PortGiveUp ==
  ASSUME IInv, NEW c \in Calls, Goto(c, "done"), pc[c] \notin {"sending", "done"},
         UNCHANGED <<sends, endedAt, owed, mono, skew>>
  PROVE  Port!GiveUp(c)
<1>1. phase[c] = "pending"
  BY PhaseValue DEF PhaseOf
<1>2. phase' = [phase EXCEPT ![c] = "answered"]
  BY PhaseAfterGoto DEF Steps, PhaseOf, IInv
<1>3. QED BY <1>1, <1>2 DEF Port!GiveUp, wall

\* A step between two "pending" stages is invisible at the port.
LEMMA PortStutter ==
  ASSUME IInv, NEW c \in Calls, NEW stage \in {"waiting", "pacing"}, Goto(c, stage),
         pc[c] \notin {"sending", "done"},
         UNCHANGED <<sends, endedAt, owed, mono, skew>>
  PROVE  UNCHANGED Port!vars
<1>1. phase' = [phase EXCEPT ![c] = "pending"]
  BY PhaseAfterGoto DEF Steps, Holding, PhaseOf, IInv
<1>2. phase[c] = "pending"
  BY PhaseValue DEF PhaseOf
<1>3. phase' = phase
  BY <1>1, <1>2 DEF phase
<1>4. QED BY <1>3 DEF Port!vars, wall

\* The passage of time is the port's Clock.
LEMMA PortClock ==
  ASSUME IInv, NEW newMono \in Int, newMono >= mono, NEW newSkew \in Int,
         Advance(newMono, newSkew)
  PROVE  Port!Clock
<1>1. phase' = phase
  BY DEF Advance, phase
<1>2. mono' >= mono /\ owed' = {d \in owed : d > mono' + skew'}
  BY DEF Advance
<1>3. QED BY <1>1, <1>2 DEF Advance, Port!Clock, wall

\* The initial states map to initial states.
LEMMA PortInit == Init => Port!Init
BY EnvironmentAssumption DEF Init, Port!Init, phase, PhaseOf, wall

\* Every step maps to a step of the port or to a stutter.
LEMMA PortStep == IInv /\ [Next]_vars => [Port!Next]_Port!vars
<1> SUFFICES ASSUME IInv, [Next]_vars
             PROVE  Port!Next \/ UNCHANGED Port!vars
  BY Zenon
<1> USE CallsAssumption
<1>1. ASSUME NEW c \in Calls, Arrive(c) PROVE UNCHANGED Port!vars
  BY <1>1, PortStutter DEF Arrive, clockVars
<1>2. ASSUME NEW c \in Calls, Enter(c) PROVE Port!Launch(c) \/ UNCHANGED Port!vars
  <2>1. /\ pc[c] = "waiting" /\ holder = None
        /\ UNCHANGED <<endedAt, owed, mono, skew>>
    BY <1>2 DEF Enter, AtHead, clockVars
  <2>2. sends[c] < Budget(c)
    BY <2>1, BudgetPositive DEF IInv, AttemptInv, TypeOK
  <2>3. CASE Goto(c, "pacing") /\ sends' = sends
    BY <2>1, <2>3, PortStutter
  <2>4. CASE Send(c)
    <3>1. StartsSending(c)
      BY <2>1, <2>4 DEF Send, Goto, StartsSending, IInv, TypeOK
    <3>2. QED BY <2>1, <2>2, <2>4, <3>1, PortLaunch
  <2>5. QED BY <1>2, <2>3, <2>4, Zenon DEF Enter, BeginAttempt
<1>3. ASSUME NEW c \in Calls, Refuse(c) PROVE Port!GiveUp(c)
  BY <1>3, PortGiveUp DEF Refuse, AtHead, clockVars
<1>4. ASSUME NEW c \in Calls, WakeAfterPacing(c) PROVE Port!Launch(c)
  <2>1. /\ pc[c] = "pacing" /\ Send(c)
        /\ UNCHANGED <<endedAt, owed, mono, skew>>
    BY <1>4 DEF WakeAfterPacing, clockVars
  <2>2. sends[c] < Budget(c) /\ holder = c
    BY <2>1, BudgetPositive DEF IInv, AttemptInv, LockInv, Holding, TypeOK
  <2>3. StartsSending(c)
    BY <2>1 DEF Send, Goto, StartsSending, IInv, TypeOK
  <2>4. QED BY <2>1, <2>2, <2>3, PortLaunch
<1>5. ASSUME NEW c \in Calls, WakeAfterBackoff(c)
      PROVE  Port!Launch(c) \/ UNCHANGED Port!vars
  <2>1. /\ pc[c] = "backoff"
        /\ UNCHANGED <<endedAt, owed, mono, skew>>
    BY <1>5 DEF WakeAfterBackoff, clockVars
  <2>2. sends[c] < Budget(c) /\ holder = c
    BY <2>1, BudgetPositive DEF IInv, AttemptInv, LockInv, Holding, TypeOK
  <2>3. CASE Goto(c, "pacing") /\ sends' = sends
    BY <2>1, <2>3, PortStutter
  <2>4. CASE Send(c)
    <3>1. StartsSending(c)
      BY <2>1, <2>4 DEF Send, Goto, StartsSending, IInv, TypeOK
    <3>2. QED BY <2>1, <2>2, <2>4, <3>1, PortLaunch
  <2>5. QED BY <1>5, <2>3, <2>4, Zenon DEF WakeAfterBackoff, BeginAttempt
<1>6. ASSUME NEW c \in Calls, NEW m \in Metadata, Succeed(c, m) \/ FailRateLimited(c, m)
      PROVE  Port!Land(c)
  <2>1. OperationEnded(c) /\ Goto(c, "done")
    BY <1>6, Zenon DEF Succeed, FailRateLimited, Leave
  <2>2. RecordRateLimit(m) \/ owed' = owed
    BY <1>6 DEF Succeed, FailRateLimited
  <2>3. owed \subseteq owed' /\ \A d \in owed' : d > wall
    BY <2>2 DEF RecordRateLimit, IInv, OwedInv
  <2>4. QED BY <2>1, <2>3, PortLand
<1>7. ASSUME NEW c \in Calls, NEW retryable \in BOOLEAN, Fail(c, retryable)
      PROVE  Port!Land(c)
  <2>1. OperationEnded(c) /\ owed' = owed
    BY <1>7, Zenon DEF Fail
  <2>2. CASE Leave(c)
    BY <2>1, <2>2, PortLand DEF Leave, IInv, OwedInv
  <2>3. CASE ShouldRetry(c, retryable) /\ Goto(c, "backoff")
    <3>1. attempts[c] < Budget(c)
      BY <2>3 DEF ShouldRetry, Budget
    <3>2. sends[c] < Budget(c)
      BY <3>1, BudgetPositive DEF IInv, AttemptInv, TypeOK
    <3>3. QED BY <2>1, <2>3, <3>2, PortLand DEF IInv, OwedInv
  <2>4. QED BY <1>7, <2>2, <2>3, FailOutcome
<1>8. ASSUME NEW c \in Calls, Abort(c) PROVE Port!Land(c)
  BY <1>8, PortLand DEF Abort, Leave, IInv, OwedInv
<1>9. ASSUME NEW c \in Calls, CancelSleeping(c) PROVE Port!GiveUp(c)
  BY <1>9, PortGiveUp DEF CancelSleeping, Leave, Sleeping, clockVars
<1>10. ASSUME NEW c \in Calls, CancelWaiting(c) PROVE Port!GiveUp(c)
  BY <1>10, PortGiveUp DEF CancelWaiting, clockVars
<1>11. ASSUME RateStatus PROVE UNCHANGED Port!vars
  BY <1>11 DEF RateStatus, clockVars, Port!vars, phase, wall
<1>12. ASSUME Tick PROVE Port!Clock
  BY <1>12, TickAdvances, PortClock DEF IInv, TypeOK
<1>13. ASSUME NEW s \in Skews, StepWall(s) PROVE Port!Clock
  BY <1>13, PortClock, EnvironmentAssumption DEF StepWall, IInv, TypeOK
<1>14. CASE UNCHANGED vars
  BY <1>14 DEF vars, Port!vars, phase, wall
<1>15. QED
  BY <1>1, <1>2, <1>3, <1>4, <1>5, <1>6, <1>7, <1>8, <1>9, <1>10, <1>11, <1>12,
     <1>13, <1>14, Zenon DEF Next, Grant, Wake, Finish, Cancel, Port!Next

\* The governor implements the request port: one operation in flight, one send
\* per write, the reads' budget, the spacing and the cooldowns, for every set
\* of calls, every policy and every wall-clock adjustment.
THEOREM GovernorImplementsPort == Spec => PortSpec
<1>1. QED BY PortInit, PortStep, Invariance, PTL DEF Spec, PortSpec, Port!Spec

-----------------------------------------------------------------------------
(***************************************************************************)
(* Proof, for any number of diagnostics beside any other calls, that the   *)
(* requests of gh_get_api_rate_status are spaced (tools/diagnostics.py).   *)
(* A diagnostic decides by an age it read before it waits for the          *)
(* governor.  That is sound because it keeps the lock of the cache while   *)
(* it waits: the entry stays as it was seen, and only grows older.         *)
(***************************************************************************)
DiagnosticsTypes ==
  /\ pc \in [Calls -> Steps]
  /\ mono \in Nat
  /\ endedAt \in [Calls -> Nat \cup {None}]
  /\ step \in [Diagnostics -> {"idle", "queued", "asking", "answered"}]
  /\ shown \in [Diagnostics -> Answers \cup {None}]
  /\ cacheHolder \in Diagnostics \cup {None}
  /\ cachedAt \in Nat \cup {None}

\* The lock of the cache is held by exactly the diagnostic that is asking.
CacheLockInv == \A d \in Diagnostics : step[d] = "asking" <=> cacheHolder = d

\* A diagnostic is with the governor only while it is asking.
FlightInv == \A d \in Diagnostics : pc[d] \notin {"idle", "done"} => step[d] = "asking"

\* What the holder has seen of the entry is still so.
OldInv ==
  /\ cachedAt # None => cachedAt <= mono
  /\ cacheHolder # None => cachedAt = None \/ mono - cachedAt >= MinInterval

\* An answer is final, and an observation is at most as late as the entry.
ShownInv ==
  \A d \in Diagnostics :
    /\ shown[d] # None => step[d] = "answered"
    /\ shown[d] = "observed" => cachedAt # None /\ endedAt[d] # None /\ endedAt[d] <= cachedAt

DInv ==
  DiagnosticsTypes /\ CacheLockInv /\ FlightInv /\ OldInv /\ ShownInv

\* What the governor does for call c, as far as diagnostics are concerned.
OnlyCall(c) ==
  /\ \E s \in Steps : pc' = [pc EXCEPT ![c] = s]
  /\ mono' = mono
  /\ endedAt' = endedAt \/ (pc[c] = "sending" /\ endedAt' = [endedAt EXCEPT ![c] = mono])

-----------------------------------------------------------------------------
\* A diagnostic is a call that neither writes nor retries.
LEMMA DiagnosticIsPlain ==
  ASSUME NEW d \in Diagnostics
  PROVE  d \in Calls /\ d \notin Writes /\ d \notin RetrySafe /\ d # None
BY DiagnosticsAssumption, CallsAssumption

\* Beginning an attempt moves one call.
LEMMA BeginMoves ==
  ASSUME NEW c \in Calls, BeginAttempt(c)
  PROVE  \E s \in Steps : pc' = [pc EXCEPT ![c] = s]
BY Zenon DEF BeginAttempt, Send, Goto, Steps, Holding

\* Every step of the governor for one call is about that call alone.
LEMMA CallMoves ==
  ASSUME NEW c \in Calls,
         Arrive(c) \/ Grant(c) \/ Wake(c) \/ Finish(c) \/ Cancel(c)
  PROVE  OnlyCall(c)
<1>1. CASE Arrive(c)
  BY <1>1 DEF Arrive, Goto, OnlyCall, Steps, clockVars
<1>2. CASE Enter(c)
  <2>1. mono' = mono /\ endedAt' = endedAt BY <1>2 DEF Enter, clockVars
  <2>2. BeginAttempt(c) BY <1>2 DEF Enter
  <2>3. QED BY <2>1, <2>2, BeginMoves DEF OnlyCall
<1>3. CASE Refuse(c)
  BY <1>3 DEF Refuse, Goto, OnlyCall, Steps, clockVars
<1>4. CASE WakeAfterPacing(c)
  BY <1>4 DEF WakeAfterPacing, Send, Goto, OnlyCall, Steps, Holding, clockVars
<1>5. CASE WakeAfterBackoff(c)
  <2>1. mono' = mono /\ endedAt' = endedAt BY <1>5 DEF WakeAfterBackoff, clockVars
  <2>2. BeginAttempt(c) BY <1>5 DEF WakeAfterBackoff
  <2>3. QED BY <2>1, <2>2, BeginMoves DEF OnlyCall
<1>6. ASSUME OperationEnded(c), Leave(c) \/ Goto(c, "backoff") PROVE OnlyCall(c)
  <2>1. /\ pc[c] = "sending"
        /\ endedAt' = [endedAt EXCEPT ![c] = mono]
        /\ mono' = mono
    BY <1>6 DEF OperationEnded, clockVars
  <2>2. \E s \in Steps : pc' = [pc EXCEPT ![c] = s]
    BY <1>6, Zenon DEF Leave, Goto, Steps, Holding
  <2>3. QED BY <2>1, <2>2 DEF OnlyCall
<1>7. CASE Finish(c)
  <2>1. OperationEnded(c) /\ (Leave(c) \/ Goto(c, "backoff"))
    BY <1>7, Zenon DEF Finish, Succeed, FailRateLimited, Fail, Abort
  <2>2. QED BY <2>1, <1>6
<1>8. CASE Cancel(c)
  BY <1>8 DEF Cancel, CancelSleeping, CancelWaiting, Leave, Goto, OnlyCall, Steps, clockVars
<1>9. QED BY <1>1, <1>2, <1>3, <1>4, <1>5, <1>7, <1>8 DEF Grant, Wake

-----------------------------------------------------------------------------
\* The invariant holds at first.
LEMMA DInitially == DiagnosticsInit => DInv
<1>1. SUFFICES ASSUME DiagnosticsInit PROVE DInv OBVIOUS
<1>2. DiagnosticsTypes
  BY <1>1 DEF DiagnosticsInit, Init, DiagnosticsTypes, Steps
<1>3. CacheLockInv /\ OldInv
  BY <1>1, DiagnosticIsPlain DEF DiagnosticsInit, CacheLockInv, OldInv
<1>4. FlightInv
  BY <1>1, DiagnosticIsPlain DEF DiagnosticsInit, Init, FlightInv
<1>5. ShownInv
  BY <1>1, DiagnosticsAssumption DEF DiagnosticsInit, ShownInv, Answers
<1>6. QED BY <1>2, <1>3, <1>4, <1>5 DEF DInv

\* An age never shrinks as the clock goes on.
LEMMA OldEntriesAge ==
  ASSUME NEW at \in Nat, NEW now \in Nat, NEW later \in Nat, NEW age \in Nat,
         now - at >= age, later >= now
  PROVE  later - at >= age
OBVIOUS

\* Steps in which no diagnostic takes part.
LEMMA ElsewherePreserves == DInv /\ Elsewhere => DInv'
<1>1. SUFFICES ASSUME DInv, Elsewhere PROVE DInv' OBVIOUS
<1>2. UNCHANGED diagnosticVars BY <1>1 DEF Elsewhere
<1>3. UNCHANGED <<step, cacheHolder, cachedAt, shown>>
  BY <1>2 DEF diagnosticVars, cacheVars
<1>4. ASSUME NEW c \in Others, OnlyCall(c) PROVE DInv'
  <2>1. c \in Calls /\ c \notin Diagnostics BY DEF Others
  <2>2. PICK s \in Steps : pc' = [pc EXCEPT ![c] = s] BY <1>4 DEF OnlyCall
  <2>3. \A d \in Diagnostics : pc'[d] = pc[d] /\ endedAt'[d] = endedAt[d]
    BY <1>1, <1>4, <2>1, <2>2, DiagnosticIsPlain DEF OnlyCall, DInv, DiagnosticsTypes
  <2>4. DiagnosticsTypes'
    BY <1>1, <1>3, <1>4, <2>1, <2>2 DEF OnlyCall, DInv, DiagnosticsTypes
  <2>5. CacheLockInv' /\ FlightInv' /\ ShownInv'
    BY <1>1, <1>3, <2>3 DEF DInv, CacheLockInv, FlightInv, ShownInv
  <2>6. OldInv' BY <1>1, <1>3, <1>4 DEF OnlyCall, DInv, OldInv
  <2>7. QED BY <2>4, <2>5, <2>6 DEF DInv
<1>5. ASSUME UNCHANGED <<pc, endedAt>>, mono' \in Nat, mono' >= mono PROVE DInv'
  <2>1. DiagnosticsTypes' BY <1>1, <1>3, <1>5 DEF DInv, DiagnosticsTypes
  <2>2. OldInv'
    <3>1. MinInterval \in Nat BY DiagnosticsAssumption
    <3>2. cachedAt' = cachedAt /\ cacheHolder' = cacheHolder BY <1>3
    <3>3. mono \in Nat /\ cachedAt \in Nat \cup {None}
      BY <1>1 DEF DInv, DiagnosticsTypes
    <3>4. OldInv BY <1>1 DEF DInv
    <3>5. CASE cachedAt = None BY <3>2, <3>5 DEF OldInv
    <3>6. CASE cachedAt # None
      <4>1. cachedAt \in Nat /\ cachedAt <= mono BY <3>3, <3>4, <3>6 DEF OldInv
      <4>2. cachedAt <= mono' BY <1>5, <3>3, <4>1
      <4>3. cacheHolder # None => mono' - cachedAt >= MinInterval
        <5>1. HAVE cacheHolder # None
        <5>2. mono - cachedAt >= MinInterval BY <3>4, <3>6, <5>1 DEF OldInv
        <5>3. mono' \in Nat /\ mono' >= mono BY <1>5
        <5>4. mono \in Nat /\ cachedAt \in Nat BY <3>3, <4>1
        <5>5. QED BY <3>1, <5>2, <5>3, <5>4, OldEntriesAge
      <4>4. QED BY <3>2, <4>2, <4>3 DEF OldInv
    <3>7. QED BY <3>5, <3>6
  <2>3. QED BY <1>1, <1>3, <1>5, <2>1, <2>2 DEF DInv, CacheLockInv, FlightInv, ShownInv
<1>6. CASE \E c \in Others : (c \in mix /\ Arrive(c)) \/ Grant(c) \/ Wake(c) \/ Finish(c) \/ Cancel(c)
  BY <1>4, <1>6, CallMoves DEF Others
<1>7. CASE RateStatus
  BY <1>1, <1>5, <1>7 DEF RateStatus, clockVars, DInv, DiagnosticsTypes
<1>8. CASE Tick
  BY <1>1, <1>5, <1>8 DEF Tick, Advance, DInv, DiagnosticsTypes
<1>9. CASE \E s \in Skews : StepWall(s)
  BY <1>1, <1>5, <1>9 DEF StepWall, Advance, DInv, DiagnosticsTypes
<1>10. QED BY <1>1, <1>6, <1>7, <1>8, <1>9 DEF Elsewhere

-----------------------------------------------------------------------------
\* A step of the governor for one diagnostic leaves the others where they are.
LEMMA OthersStay ==
  ASSUME DInv, NEW d \in Diagnostics, OnlyCall(d)
  PROVE  /\ pc' \in [Calls -> Steps]
         /\ endedAt' \in [Calls -> Nat \cup {None}]
         /\ \A e \in Diagnostics \ {d} : pc'[e] = pc[e] /\ endedAt'[e] = endedAt[e]
<1>1. PICK s \in Steps : pc' = [pc EXCEPT ![d] = s] BY DEF OnlyCall
<1>2. endedAt' = endedAt \/ endedAt' = [endedAt EXCEPT ![d] = mono] BY DEF OnlyCall
<1>3. /\ pc \in [Calls -> Steps] /\ mono \in Nat
      /\ endedAt \in [Calls -> Nat \cup {None}]
  BY DEF DInv, DiagnosticsTypes
<1>4. QED BY <1>1, <1>2, <1>3, DiagnosticIsPlain

\* A diagnostic that was with the governor leaves it and gives the cache back.
LEMMA ReleasePreserves ==
  ASSUME DInv, NEW d \in Diagnostics, step[d] = "asking", NEW answer \in Answers,
         OnlyCall(d), pc'[d] = "done",
         Release(d, answer),
         cachedAt' \in {cachedAt, mono},
         answer = "observed" => cachedAt' = mono /\ endedAt'[d] = mono
  PROVE  DInv'
<1>1. /\ step' = [step EXCEPT ![d] = "answered"]
      /\ shown' = [shown EXCEPT ![d] = answer]
      /\ cacheHolder' = None
  BY DEF Release, Answer
<1>2. /\ mono \in Nat /\ mono' = mono
      /\ cachedAt \in Nat \cup {None}
      /\ step \in [Diagnostics -> {"idle", "queued", "asking", "answered"}]
      /\ shown \in [Diagnostics -> Answers \cup {None}]
      /\ cacheHolder = d
  BY DEF DInv, DiagnosticsTypes, CacheLockInv, OnlyCall
<1>3. DiagnosticsTypes'
  BY <1>1, <1>2, OthersStay DEF DiagnosticsTypes
<1>4. \A e \in Diagnostics : step'[e] # "asking"
  BY <1>1, <1>2 DEF DInv, CacheLockInv
<1>5. CacheLockInv'
  BY <1>1, <1>4, DiagnosticIsPlain DEF CacheLockInv
<1>6. FlightInv'
  <2>1. \A e \in Diagnostics : step[e] = "asking" => e = d
    BY <1>2 DEF DInv, CacheLockInv
  <2>2. \A e \in Diagnostics \ {d} : pc'[e] \in {"idle", "done"}
    BY <2>1, OthersStay DEF DInv, FlightInv
  <2>3. QED BY <2>2 DEF FlightInv
<1>7. OldInv'
  BY <1>1, <1>2, CallsAssumption DEF DInv, OldInv
<1>8. ShownInv'
  <2>1. ASSUME NEW e \in Diagnostics, e # d, shown'[e] # None
        PROVE  /\ step'[e] = "answered"
               /\ shown'[e] = "observed" =>
                    cachedAt' # None /\ endedAt'[e] # None /\ endedAt'[e] <= cachedAt'
    <3>1. shown[e] = shown'[e] /\ step'[e] = step[e] BY <1>1, <1>2, <2>1
    <3>2. step[e] = "answered" BY <2>1, <3>1 DEF DInv, ShownInv
    <3>3. ASSUME shown[e] = "observed"
          PROVE  cachedAt' # None /\ endedAt'[e] # None /\ endedAt'[e] <= cachedAt'
      <4>1. cachedAt # None /\ endedAt[e] # None /\ endedAt[e] <= cachedAt
        BY <3>3 DEF DInv, ShownInv
      <4>2. cachedAt <= mono BY <4>1 DEF DInv, OldInv
      <4>3. endedAt[e] \in Nat
        BY <4>1, DiagnosticIsPlain DEF DInv, DiagnosticsTypes
      <4>4. endedAt'[e] = endedAt[e] BY <2>1, OthersStay
      <4>5. cachedAt' \in Nat /\ endedAt[e] <= cachedAt' BY <1>2, <4>1, <4>2, <4>3
      <4>6. QED BY <4>1, <4>4, <4>5, CallsAssumption
    <3>4. QED BY <3>1, <3>2, <3>3
  <2>2. step'[d] = "answered" /\ shown'[d] = answer BY <1>1, <1>2
  <2>3. shown'[d] = "observed" => cachedAt' # None /\ endedAt'[d] # None /\ endedAt'[d] <= cachedAt'
    BY <1>2, <2>2, CallsAssumption
  <2>4. ASSUME NEW e \in Diagnostics, shown'[e] = "observed" PROVE shown'[e] # None
    BY <2>4, DiagnosticsAssumption DEF Answers
  <2>5. QED BY <2>1, <2>2, <2>3, <2>4 DEF ShownInv
<1>9. QED BY <1>3, <1>5, <1>6, <1>7, <1>8 DEF DInv

\* The governor knows a diagnostic only while it asks.
LEMMA AsksInFlight ==
  ASSUME DInv, NEW d \in Diagnostics, pc[d] \in {"waiting", "sending"}
  PROVE  step[d] = "asking"
BY DEF DInv, FlightInv

\* The end of a diagnostic's operation leaves the governor.
LEMMA EndsOperation ==
  ASSUME DInv, NEW d \in Diagnostics, OperationEnded(d), Leave(d)
  PROVE  /\ OnlyCall(d) /\ pc'[d] = "done" /\ endedAt'[d] = mono
         /\ step[d] = "asking"
<1>1. d \in Calls BY DiagnosticIsPlain
<1>2. pc \in [Calls -> Steps] /\ endedAt \in [Calls -> Nat \cup {None}]
  BY DEF DInv, DiagnosticsTypes
<1>3. /\ pc[d] = "sending" /\ mono' = mono
      /\ endedAt' = [endedAt EXCEPT ![d] = mono]
      /\ pc' = [pc EXCEPT ![d] = "done"]
  BY DEF OperationEnded, Leave, Goto, clockVars
<1>4. OnlyCall(d) BY <1>3 DEF OnlyCall, Steps
<1>5. QED BY <1>1, <1>2, <1>3, <1>4, AsksInFlight

-----------------------------------------------------------------------------
\* Steps outside the governor, or into its queue.
LEMMA AskingPreserves ==
  ASSUME DInv, NEW d \in Diagnostics, Call(d) \/ AnswerLocally(d) \/ Request(d)
  PROVE  DInv'
<1> USE DEF DInv
<1>1. d \in Calls BY DiagnosticIsPlain
<1>2. CASE Call(d)
  <2>1. /\ step[d] = "idle" /\ step' = [step EXCEPT ![d] = "queued"]
        /\ UNCHANGED <<pc, mono, endedAt, cacheHolder, cachedAt, shown>>
    BY <1>2 DEF Call, vars, clockVars
  <2>2. DiagnosticsTypes' BY <2>1 DEF DiagnosticsTypes
  <2>3. CacheLockInv' /\ FlightInv'
    BY <2>1 DEF CacheLockInv, FlightInv, DiagnosticsTypes
  <2>4. OldInv' /\ ShownInv'
    BY <2>1 DEF OldInv, ShownInv, DiagnosticsTypes
  <2>5. QED BY <2>2, <2>3, <2>4
<1>3. CASE AnswerLocally(d)
  <2>1. PICK answer \in {"cached", "empty"} : Answer(d, answer)
    BY <1>3, Zenon DEF AnswerLocally
  <2>2. /\ step[d] = "queued" /\ step' = [step EXCEPT ![d] = "answered"]
        /\ shown' = [shown EXCEPT ![d] = answer]
        /\ UNCHANGED <<pc, mono, endedAt, cacheHolder, cachedAt>>
    BY <1>3, <2>1 DEF AnswerLocally, Answer, HasCache, clockVars
  <2>3. DiagnosticsTypes' BY <2>1, <2>2 DEF DiagnosticsTypes, Answers
  <2>4. CacheLockInv' /\ FlightInv'
    BY <2>2 DEF CacheLockInv, FlightInv, DiagnosticsTypes
  <2>5. OldInv' /\ ShownInv'
    BY <2>1, <2>2 DEF OldInv, ShownInv, DiagnosticsTypes
  <2>6. QED BY <2>3, <2>4, <2>5
<1>4. CASE Request(d)
  <2>1. /\ step[d] = "queued" /\ step' = [step EXCEPT ![d] = "asking"]
        /\ cacheHolder = None /\ cacheHolder' = d
        /\ pc' = [pc EXCEPT ![d] = "waiting"]
        /\ UNCHANGED <<mono, endedAt, cachedAt, shown>>
    BY <1>4 DEF Request, HasCache, Goto, clockVars
  <2>2. DiagnosticsTypes'
    BY <1>1, <2>1 DEF DiagnosticsTypes, Steps
  <2>3. \A e \in Diagnostics : step[e] # "asking"
    BY <2>1, DiagnosticIsPlain DEF CacheLockInv
  <2>4. CacheLockInv' BY <2>1, <2>3 DEF CacheLockInv, DiagnosticsTypes
  <2>5. FlightInv'
    BY <2>1, <2>3, DiagnosticIsPlain DEF FlightInv, DiagnosticsTypes
  <2>6. OldInv'
    <3>1. cachedAt = None \/ ~(mono - cachedAt < MinInterval)
      BY <1>4 DEF Request, Young
    <3>2. mono \in Nat /\ cachedAt \in Nat \cup {None} /\ MinInterval \in Nat
      BY DiagnosticsAssumption DEF DiagnosticsTypes
    <3>3. QED BY <2>1, <3>1, <3>2 DEF OldInv
  <2>7. ShownInv' BY <2>1 DEF ShownInv, DiagnosticsTypes
  <2>8. QED BY <2>2, <2>4, <2>5, <2>6, <2>7
<1>5. QED BY <1>2, <1>3, <1>4

\* The governor lets a diagnostic in.
LEMMA EnterPreserves ==
  ASSUME DInv, NEW d \in Diagnostics, Enter(d), UNCHANGED diagnosticVars
  PROVE  DInv'
<1>1. d \in Calls BY DiagnosticIsPlain
<1>2. OnlyCall(d) BY <1>1, CallMoves DEF Grant
<1>3. step[d] = "asking" BY AsksInFlight DEF Enter, AtHead
<1>4. /\ UNCHANGED <<step, cacheHolder, cachedAt, shown, mono>>
      /\ endedAt' = endedAt
  BY DEF diagnosticVars, cacheVars, Enter, clockVars
<1>5. DiagnosticsTypes' BY <1>2, <1>4, OthersStay DEF DInv, DiagnosticsTypes
<1>6. CacheLockInv' /\ OldInv' /\ ShownInv'
  BY <1>4 DEF DInv, CacheLockInv, OldInv, ShownInv
<1>7. FlightInv' BY <1>2, <1>3, <1>4, OthersStay DEF DInv, FlightInv
<1>8. QED BY <1>5, <1>6, <1>7 DEF DInv

\* A diagnostic ends: with what GitHub answered, or without having been sent.
LEMMA EndingPreserves ==
  ASSUME DInv, NEW d \in Diagnostics,
         (\E m \in Metadata : Observe(d, m) \/ Throttled(d, m))
           \/ Raised(d) \/ Refused(d) \/ CancelDiagnostic(d)
  PROVE  DInv'
<1>1. d \in Calls /\ d \notin RetrySafe BY DiagnosticIsPlain
<1>2. ASSUME NEW m \in Metadata, Observe(d, m) PROVE DInv'
  <2>1. OperationEnded(d) /\ Leave(d) BY <1>2 DEF Observe, Succeed
  <2>2. mono' = mono BY <2>1 DEF OperationEnded, clockVars
  <2>3. CASE Release(d, "observed") /\ cachedAt' = mono
    BY <2>1, <2>3, EndsOperation, ReleasePreserves DEF Answers
  <2>4. CASE Release(d, "raised") /\ UNCHANGED cachedAt
    BY <2>1, <2>4, EndsOperation, ReleasePreserves DEF Answers
  <2>5. QED BY <1>2, <2>3, <2>4 DEF Observe
<1>3. ASSUME NEW m \in Metadata, Throttled(d, m) PROVE DInv'
  <2>1. /\ OperationEnded(d) /\ Leave(d)
        /\ Release(d, "throttled") /\ cachedAt' = cachedAt
    BY <1>3 DEF Throttled
  <2>2. QED BY <2>1, EndsOperation, ReleasePreserves DEF Answers
<1>4. CASE Raised(d)
  <2>1. /\ OperationEnded(d) /\ Leave(d)
        /\ Release(d, "raised") /\ cachedAt' = cachedAt
    BY <1>1, <1>4 DEF Raised, Fail, Abort, ShouldRetry
  <2>2. QED BY <2>1, EndsOperation, ReleasePreserves DEF Answers
<1>5. ASSUME Refuse(d) \/ CancelWaiting(d)
      PROVE  OnlyCall(d) /\ pc'[d] = "done" /\ step[d] = "asking"
  <2>1. OnlyCall(d) BY <1>1, <1>5, CallMoves DEF Grant, Cancel
  <2>2. pc[d] = "waiting" /\ pc' = [pc EXCEPT ![d] = "done"]
    BY <1>5 DEF Refuse, CancelWaiting, AtHead, Goto
  <2>3. QED BY <1>1, <2>1, <2>2, AsksInFlight DEF DInv, DiagnosticsTypes
<1>6. CASE Refused(d)
  <2>1. PICK answer \in {"empty", "cached"} : Release(d, answer)
    BY <1>6 DEF Refused
  <2>2. Refuse(d) /\ cachedAt' = cachedAt BY <1>6 DEF Refused
  <2>3. QED BY <1>5, <2>1, <2>2, ReleasePreserves DEF Answers
<1>7. CASE CancelWaiting(d) /\ Release(d, "raised") /\ UNCHANGED cachedAt
  BY <1>5, <1>7, ReleasePreserves DEF Answers
<1>8. CASE /\ step[d] = "queued" /\ Answer(d, "raised")
           /\ UNCHANGED <<vars, cacheHolder, cachedAt>>
  <2>1. /\ step' = [step EXCEPT ![d] = "answered"]
        /\ shown' = [shown EXCEPT ![d] = "raised"]
        /\ UNCHANGED <<pc, mono, endedAt, cacheHolder, cachedAt>>
    BY <1>8 DEF Answer, vars
  <2> USE DEF DInv
  <2>2. DiagnosticsTypes' BY <2>1 DEF DiagnosticsTypes, Answers
  <2>3. CacheLockInv' /\ FlightInv'
    BY <1>8, <2>1 DEF CacheLockInv, FlightInv, DiagnosticsTypes
  <2>4. OldInv' /\ ShownInv'
    BY <2>1 DEF OldInv, ShownInv, DiagnosticsTypes
  <2>5. QED BY <2>2, <2>3, <2>4
<1>9. QED
  BY <1>2, <1>3, <1>4, <1>6, <1>7, <1>8 DEF CancelDiagnostic

LEMMA StutterPreserves == DInv /\ UNCHANGED allVars => DInv'
<1>1. SUFFICES ASSUME DInv, UNCHANGED allVars PROVE DInv' OBVIOUS
<1>2. UNCHANGED <<pc, mono, endedAt, step, shown, cacheHolder, cachedAt>>
  BY <1>1 DEF allVars, vars, diagnosticVars, cacheVars
<1>3. QED
  BY <1>1, <1>2
     DEF DInv, DiagnosticsTypes, CacheLockInv, FlightInv, OldInv, ShownInv

-----------------------------------------------------------------------------
\* The invariant is kept by every step.
LEMMA DInductive == DInv /\ [DiagnosticsNext]_allVars => DInv'
<1>1. SUFFICES ASSUME DInv, DiagnosticsNext PROVE DInv'
  BY StutterPreserves
<1>2. CASE Elsewhere BY <1>1, <1>2, ElsewherePreserves
<1>3. ASSUME NEW d \in Diagnostics,
             Call(d) \/ Decide(d) \/ GrantDiagnostic(d) \/ Settle(d) \/ CancelDiagnostic(d)
      PROVE  DInv'
  <2>1. CASE Call(d) \/ Decide(d) BY <1>1, <2>1, AskingPreserves DEF Decide
  <2>2. CASE GrantDiagnostic(d)
    BY <1>1, <2>2, EnterPreserves, EndingPreserves DEF GrantDiagnostic
  <2>3. CASE Settle(d) BY <1>1, <2>3, EndingPreserves DEF Settle
  <2>4. CASE CancelDiagnostic(d) BY <1>1, <2>4, EndingPreserves
  <2>5. QED BY <1>3, <2>1, <2>2, <2>3, <2>4
<1>4. QED BY <1>1, <1>2, <1>3 DEF DiagnosticsNext

\* The inductive invariant of the diagnostics: the lock of the cache is held by the
\* one that asks, who sees the entry as it was (diagnostics.py).
THEOREM DiagnosticsInvariance == DiagnosticsSpec => []DInv
BY DInitially, DInductive, PTL DEF DiagnosticsSpec

\* Where the steps of a diagnostic leave the calls.
LEMMA DiagnosticMoves ==
  ASSUME NEW d \in Diagnostics,
         Call(d) \/ Decide(d) \/ GrantDiagnostic(d) \/ Settle(d) \/ CancelDiagnostic(d)
  PROVE  \/ pc' = pc
         \/ \E s \in {"waiting", "done"} : pc' = [pc EXCEPT ![d] = s]
         \/ Enter(d)
<1>1. d \notin RetrySafe BY DiagnosticIsPlain
<1>2. CASE Call(d) BY <1>2 DEF Call, vars
<1>3. CASE AnswerLocally(d) BY <1>3 DEF AnswerLocally
<1>4. CASE Request(d) BY <1>4 DEF Request, Goto
<1>5. CASE GrantDiagnostic(d) BY <1>5 DEF GrantDiagnostic, Refused, Refuse, Goto
<1>6. CASE Settle(d)
  <2>1. Leave(d)
    BY <1>1, <1>6 DEF Settle, Observe, Succeed, Throttled, Raised, Fail, Abort, ShouldRetry
  <2>2. QED BY <2>1 DEF Leave, Goto
<1>7. CASE CancelDiagnostic(d)
  BY <1>7 DEF CancelDiagnostic, CancelWaiting, Goto, vars
<1>8. QED BY <1>2, <1>3, <1>4, <1>5, <1>6, <1>7 DEF Decide

\* Whoever starts to send was asking before.
LEMMA SenderAsks ==
  ASSUME DInv, [DiagnosticsNext]_allVars, NEW d \in Diagnostics, StartsSending(d)
  PROVE  step[d] = "asking"
<1>1. pc[d] # "sending" /\ pc'[d] = "sending" /\ pc' # pc BY DEF StartsSending
<1>2. pc \in [Calls -> Steps] /\ d \in Calls
  BY DiagnosticIsPlain DEF DInv, DiagnosticsTypes
<1>3. CASE Elsewhere
  <2>1. \/ \E c \in Others : Arrive(c) \/ Grant(c) \/ Wake(c) \/ Finish(c) \/ Cancel(c)
        \/ pc' = pc
    BY <1>3, Zenon DEF Elsewhere, RateStatus, Tick, StepWall, Advance
  <2>2. ASSUME NEW c \in Others, Arrive(c) \/ Grant(c) \/ Wake(c) \/ Finish(c) \/ Cancel(c)
        PROVE  pc'[d] = pc[d]
    <3>1. c \in Calls /\ c # d BY DEF Others
    <3>2. OnlyCall(c) BY <2>2, <3>1, CallMoves
    <3>3. QED BY <1>2, <3>1, <3>2 DEF OnlyCall
  <2>3. QED BY <1>1, <2>1, <2>2
<1>4. ASSUME NEW e \in Diagnostics,
             Call(e) \/ Decide(e) \/ GrantDiagnostic(e) \/ Settle(e) \/ CancelDiagnostic(e)
      PROVE  step[d] = "asking"
  <2>1. CASE Enter(e)
    <3>1. OnlyCall(e) BY <2>1, DiagnosticIsPlain, CallMoves DEF Grant
    <3>2. e = d BY <1>1, <3>1, OthersStay
    <3>3. pc[d] = "waiting" BY <2>1, <3>2 DEF Enter, AtHead
    <3>4. QED BY <3>3, AsksInFlight
  <2>2. CASE \E s \in {"waiting", "done"} : pc' = [pc EXCEPT ![e] = s]
    <3>1. PICK s \in {"waiting", "done"} : pc' = [pc EXCEPT ![e] = s] BY <2>2
    <3>2. QED BY <1>1, <1>2, <3>1
  <2>3. QED BY <1>1, <1>4, <2>1, <2>2, DiagnosticMoves
<1>5. DiagnosticsNext BY <1>1 DEF allVars, vars
<1>6. QED BY <1>3, <1>4, <1>5 DEF DiagnosticsNext

\* No request for the rate status starts within the interval after an observation,
\* however long it has waited for the governor since it looked at the cache.
THEOREM RefreshSpacing == DiagnosticsSpec => RefreshesAreSpaced
<1>1. ASSUME DInv, [DiagnosticsNext]_allVars,
             NEW d \in Diagnostics, NEW e \in Diagnostics,
             StartsSending(d), shown[e] = "observed"
      PROVE  mono - endedAt[e] >= MinInterval
  <2>1. step[d] = "asking" BY <1>1, SenderAsks
  <2>2. cacheHolder # None BY <2>1, DiagnosticIsPlain, <1>1 DEF DInv, CacheLockInv
  <2>3. /\ cachedAt # None /\ endedAt[e] # None /\ endedAt[e] <= cachedAt
        /\ mono - cachedAt >= MinInterval
    BY <1>1, <2>2 DEF DInv, ShownInv, OldInv
  <2>4. mono \in Nat /\ cachedAt \in Nat /\ endedAt[e] \in Nat /\ MinInterval \in Nat
    BY <1>1, <2>3, DiagnosticIsPlain, DiagnosticsAssumption DEF DInv, DiagnosticsTypes
  <2>5. QED BY <2>3, <2>4
<1>2. DInv /\ [DiagnosticsNext]_allVars => [SpacedRefresh]_allVars
  BY <1>1 DEF SpacedRefresh
<1>3. QED
  BY <1>2, DiagnosticsInvariance, PTL DEF DiagnosticsSpec, RefreshesAreSpaced
=============================================================================
