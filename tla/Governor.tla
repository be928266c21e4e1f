------------------------------ MODULE Governor ------------------------------
(***************************************************************************)
(* GitHubRequestGovernor (request_governor.py): every gh execution of the  *)
(* process goes through execute(), which holds one asyncio.Lock across     *)
(* pacing, the operation, its retries and their backoff sleeps.            *)
(*                                                                         *)
(* A call is one execute() coroutine.  Between two awaits the event loop   *)
(* runs nothing else, so an action is the code from one await to the next. *)
(* The monotonic clock paces writes and times sleeps; cooldowns compare    *)
(* with the wall clock, which an administrator or NTP may step.            *)
(***************************************************************************)
EXTENDS Integers, Sequences

CONSTANTS
  Calls,            \* the execute() calls of a run
  Writes,           \* calls whose policy.kind is WRITE
  RetrySafe,        \* calls whose policy is READ_REQUEST (retry_safe)
  Spacing,          \* write_spacing_seconds
  MaxReadAttempts,  \* max_read_attempts
  BackoffBase,      \* backoff_base_seconds
  BackoffMax,       \* backoff_max_seconds
  Fallback,         \* rate_limit_fallback_seconds
  RetryAfters,      \* the Retry-After values GitHub may send
  ResetOffsets,     \* where a reported reset lies from the local wall clock
  Skews,            \* the values wall - mono may take
  MaxTime,          \* bound: time passes beyond it only while a call sleeps
  None              \* Python's None

\* The write/retry_safe pairing is rejected by execute() before the lock; the
\* ranges are those __init__ enforces.
ASSUME CallsAssumption ==
  /\ Writes \subseteq Calls
  /\ RetrySafe \subseteq Calls \ Writes
  /\ None \notin Calls
  /\ None \notin Int

ASSUME PolicyAssumption ==
  /\ Spacing \in Nat \ {0}
  /\ MaxReadAttempts \in Nat \ {0}
  /\ BackoffBase \in Nat /\ BackoffMax \in Nat
  /\ BackoffBase <= BackoffMax
  /\ Fallback \in Nat \ {0}

ASSUME EnvironmentAssumption ==
  /\ RetryAfters \subseteq Nat
  /\ ResetOffsets \subseteq Int
  /\ Skews \subseteq Int
  /\ MaxTime \in Nat

VARIABLES
  pc,                   \* pc[c]: where call c is in execute()
  queue,                \* waiters of _serial_lock, oldest first
  holder,               \* the call that holds _serial_lock
  attempts,             \* attempts[c]: the loop's counter
  wakeAt,               \* when the holder's sleep ends, on the monotonic clock
  lastWriteFinishedAt,  \* _last_write_finished_at
  blockedUntil,         \* _blocked_until_wall
  mono, skew,           \* the clocks; see wall
  sends,                \* history: operations started for each call
  endedAt,              \* history: when each call's latest operation ended
  owed                  \* history: cooldowns GitHub asked for and not yet reached

wall == mono + skew

lockVars  == <<queue, holder>>
clockVars == <<mono, skew>>
vars == <<pc, queue, holder, attempts, wakeAt, lastWriteFinishedAt,
          blockedUntil, mono, skew, sends, endedAt, owed>>

Sleeping == {"pacing", "backoff"}
Holding  == {"pacing", "sending", "backoff"}
Steps    == {"idle", "waiting", "done"} \cup Holding

Budget(c) == IF c \in RetrySafe THEN MaxReadAttempts ELSE 1

-----------------------------------------------------------------------------
\* The rate headers of one reply, success or failure.
Metadata ==
  [retryAfter : RetryAfters \cup {None},
   exhausted  : BOOLEAN,
   reset      : {wall + o : o \in ResetOffsets} \cup {None}]

\* _rate_limit_deadline with the fallback of _record_rate_limit.
Deadline(m) ==
  CASE m.retryAfter # None -> wall + m.retryAfter
    [] m.retryAfter = None /\ m.exhausted /\ m.reset # None -> m.reset
    [] OTHER -> wall + Fallback

\* _record_rate_limit: a deadline replaces an earlier one, never a later one.
RecordRateLimit(m) ==
  /\ blockedUntil' = IF blockedUntil = None \/ Deadline(m) > blockedUntil
                     THEN Deadline(m) ELSE blockedUntil
  /\ owed' = owed \cup {d \in {Deadline(m)} : d > wall}

\* _record_success_rate_limit: a successful reply that reports the last
\* request of the window also starts a cooldown.
ExhaustedOnSuccess(m) == m.exhausted /\ m.reset # None /\ m.reset > wall

\* Mutant: the budget is compared after the attempt it should have stopped.
ShouldRetryOnceMore(c, retryable) ==
  c \in RetrySafe /\ retryable /\ attempts[c] <= MaxReadAttempts

\* _should_retry, for an error that is not rate limited.
ShouldRetry(c, retryable) ==
  /\ c \in RetrySafe
  /\ retryable
  /\ attempts[c] < MaxReadAttempts

\* _backoff_delay after the n-th attempt.
BackoffDelay(n) ==
  IF BackoffBase * 2^(n - 1) < BackoffMax THEN BackoffBase * 2^(n - 1) ELSE BackoffMax

\* _write_pacing_delay > 0
MustPace(c) ==
  /\ c \in Writes
  /\ lastWriteFinishedAt # None
  /\ mono < lastWriteFinishedAt + Spacing

\* Mutant: a cooldown kept in wall-clock time is compared with the other clock.
ExpiredByMonotonicClock == blockedUntil # None /\ mono >= blockedUntil

\* _expire_rate_limit_state
Expired == blockedUntil # None /\ wall >= blockedUntil

-----------------------------------------------------------------------------
Init ==
  /\ pc = [c \in Calls |-> "idle"]
  /\ queue = <<>>
  /\ holder = None
  /\ attempts = [c \in Calls |-> 0]
  /\ wakeAt = 0
  /\ lastWriteFinishedAt = None
  /\ blockedUntil = None
  /\ mono = 0
  /\ skew \in Skews
  /\ sends = [c \in Calls |-> 0]
  /\ endedAt = [c \in Calls |-> None]
  /\ owed = {}

Goto(c, step) == pc' = [pc EXCEPT ![c] = step]

\* operation() is invoked.
Send(c) ==
  /\ Goto(c, "sending")
  /\ sends' = [sends EXCEPT ![c] = @ + 1]

\* The top of the loop: count the attempt, then pace a write or send.
BeginAttempt(c) ==
  /\ attempts' = [attempts EXCEPT ![c] = @ + 1]
  /\ \/ /\ MustPace(c)
        /\ Goto(c, "pacing")
        /\ wakeAt' = lastWriteFinishedAt + Spacing
        /\ UNCHANGED sends
     \/ /\ ~MustPace(c)
        /\ Send(c)
        /\ UNCHANGED wakeAt

\* Mutant: a call cancelled in its sleep leaves without releasing the lock.
CancelSleepingKeepsLock(c) ==
  /\ pc[c] \in Sleeping
  /\ Goto(c, "done")
  /\ UNCHANGED <<lockVars, attempts, wakeAt, lastWriteFinishedAt, blockedUntil,
                 clockVars, sends, endedAt, owed>>

\* execute() returns or raises: the lock is released.
Leave(c) == Goto(c, "done") /\ holder' = None

\* Mutant: the end of a write is stamped with the wall clock.
OperationEndedByWallClock(c) ==
  /\ pc[c] = "sending"
  /\ lastWriteFinishedAt' = IF c \in Writes THEN wall ELSE lastWriteFinishedAt
  /\ endedAt' = [endedAt EXCEPT ![c] = mono]
  /\ UNCHANGED <<queue, attempts, sends, clockVars>>

\* Mutant: a write that is cancelled in flight does not count for the spacing.
AbortUnstamped(c) ==
  /\ pc[c] = "sending"
  /\ endedAt' = [endedAt EXCEPT ![c] = mono]
  /\ Leave(c)
  /\ UNCHANGED <<queue, attempts, wakeAt, lastWriteFinishedAt, blockedUntil,
                 clockVars, sends, owed>>

\* The operation ended, however it ended.
OperationEnded(c) ==
  /\ pc[c] = "sending"
  /\ lastWriteFinishedAt' = IF c \in Writes THEN mono ELSE lastWriteFinishedAt
  /\ endedAt' = [endedAt EXCEPT ![c] = mono]
  /\ UNCHANGED <<queue, attempts, sends, clockVars>>

Arrive(c) ==
  /\ pc[c] = "idle"
  /\ Goto(c, "waiting")
  /\ queue' = Append(queue, c)
  /\ UNCHANGED <<holder, attempts, wakeAt, lastWriteFinishedAt, blockedUntil,
                 clockVars, sends, endedAt, owed>>

AtHead(c) ==
  pc[c] = "waiting" /\ holder = None /\ queue # <<>> /\ Head(queue) = c

\* The lock is granted and _enforce_rate_limit_pause lets the call in.
Enter(c) ==
  /\ AtHead(c)
  /\ blockedUntil = None \/ Expired
  /\ blockedUntil' = None
  /\ queue' = Tail(queue)
  /\ holder' = c
  /\ BeginAttempt(c)
  /\ UNCHANGED <<lastWriteFinishedAt, clockVars, endedAt, owed>>

\* The lock is granted and _enforce_rate_limit_pause raises, with nothing sent.
Refuse(c) ==
  /\ AtHead(c)
  /\ blockedUntil # None /\ ~Expired
  /\ Goto(c, "done")
  /\ queue' = Tail(queue)
  /\ UNCHANGED <<holder, attempts, wakeAt, lastWriteFinishedAt, blockedUntil,
                 clockVars, sends, endedAt, owed>>

\* A pacing or backoff sleep ends.
WakeAfterPacing(c) ==
  /\ pc[c] = "pacing" /\ mono >= wakeAt
  /\ Send(c)
  /\ UNCHANGED <<lockVars, attempts, wakeAt, lastWriteFinishedAt, blockedUntil,
                 clockVars, endedAt, owed>>

WakeAfterBackoff(c) ==
  /\ pc[c] = "backoff" /\ mono >= wakeAt
  /\ BeginAttempt(c)
  /\ UNCHANGED <<lockVars, lastWriteFinishedAt, blockedUntil, clockVars, endedAt, owed>>

Succeed(c, m) ==
  /\ OperationEnded(c)
  /\ Leave(c)
  /\ \/ ExhaustedOnSuccess(m) /\ RecordRateLimit(m)
     \/ ~ExhaustedOnSuccess(m) /\ UNCHANGED <<blockedUntil, owed>>
  /\ UNCHANGED wakeAt

FailRateLimited(c, m) ==
  /\ OperationEnded(c)
  /\ Leave(c)
  /\ RecordRateLimit(m)
  /\ UNCHANGED wakeAt

Fail(c, retryable) ==
  /\ OperationEnded(c)
  /\ \/ /\ ShouldRetry(c, retryable)
        /\ Goto(c, "backoff")
        /\ wakeAt' = mono + BackoffDelay(attempts[c])
        /\ UNCHANGED holder
     \/ /\ ~ShouldRetry(c, retryable)
        /\ Leave(c)
        /\ UNCHANGED wakeAt
  /\ UNCHANGED <<blockedUntil, owed>>

\* Any other exception out of the operation, cancellation included.
Abort(c) ==
  /\ OperationEnded(c)
  /\ Leave(c)
  /\ UNCHANGED <<wakeAt, blockedUntil, owed>>

CancelSleeping(c) ==
  /\ pc[c] \in Sleeping
  /\ Leave(c)
  /\ UNCHANGED <<queue, attempts, wakeAt, lastWriteFinishedAt, blockedUntil,
                 clockVars, sends, endedAt, owed>>

\* A waiter is cancelled: the lock forgets it and the others keep their order.
CancelWaiting(c) ==
  /\ pc[c] = "waiting"
  /\ Goto(c, "done")
  /\ \E i \in 1..Len(queue) :
        /\ queue[i] = c
        /\ queue' = SubSeq(queue, 1, i - 1) \o SubSeq(queue, i + 1, Len(queue))
  /\ UNCHANGED <<holder, attempts, wakeAt, lastWriteFinishedAt, blockedUntil,
                 clockVars, sends, endedAt, owed>>

\* rate_status() takes no lock: a diagnostic may expire the cooldown at any await.
RateStatus ==
  /\ Expired
  /\ blockedUntil' = None
  /\ UNCHANGED <<pc, lockVars, attempts, wakeAt, lastWriteFinishedAt, clockVars,
                 sends, endedAt, owed>>

\* The clocks: the wall clock moves with the monotonic one unless it is stepped.
SleepPending == \E c \in Calls : pc[c] \in Sleeping /\ mono < wakeAt

Advance(newMono, newSkew) ==
  /\ mono' = newMono
  /\ skew' = newSkew
  /\ owed' = {d \in owed : d > newMono + newSkew}
  /\ UNCHANGED <<pc, lockVars, attempts, wakeAt, lastWriteFinishedAt, blockedUntil,
                 sends, endedAt>>

Tick == (mono < MaxTime \/ SleepPending) /\ Advance(mono + 1, skew)
StepWall(s) == s # skew /\ Advance(mono, s)

Grant(c) == Enter(c) \/ Refuse(c)
Wake(c) == WakeAfterPacing(c) \/ WakeAfterBackoff(c)
Finish(c) ==
  \/ \E m \in Metadata : Succeed(c, m) \/ FailRateLimited(c, m)
  \/ \E retryable \in BOOLEAN : Fail(c, retryable)
  \/ Abort(c)
Cancel(c) == CancelSleeping(c) \/ CancelWaiting(c)

Next ==
  \/ \E c \in Calls : Arrive(c) \/ Grant(c) \/ Wake(c) \/ Finish(c) \/ Cancel(c)
  \/ RateStatus
  \/ Tick
  \/ \E s \in Skews : StepWall(s)

\* The event loop runs every ready task, the clock runs, and every gh process
\* ends or is killed at its timeout (gh_client.py, _run_once).
Fairness ==
  /\ \A c \in Calls : WF_vars(Grant(c)) /\ WF_vars(Wake(c)) /\ WF_vars(Finish(c))
  /\ WF_vars(SleepPending /\ Tick)

Spec == Init /\ [][Next]_vars
FairSpec == Spec /\ Fairness

-----------------------------------------------------------------------------
\* Every variable stays in the range the code gives it.
TypeOK ==
  /\ pc \in [Calls -> Steps]
  /\ queue \in Seq(Calls)
  /\ holder \in Calls \cup {None}
  /\ attempts \in [Calls -> Nat]
  /\ wakeAt \in Int
  /\ lastWriteFinishedAt \in Nat \cup {None}
  /\ blockedUntil \in Int \cup {None}
  /\ mono \in Nat
  /\ skew \in Int
  /\ sends \in [Calls -> Nat]
  /\ endedAt \in [Calls -> Nat \cup {None}]
  /\ owed \subseteq Int

\* Two writes never run closer than the spacing, measured on the monotonic
\* clock from the end of the earlier one, whether it succeeded, failed or was
\* cancelled mid-flight, and whatever reads, retries or wall-clock steps came
\* between (_pace_write and the three places that set _last_write_finished_at).
StartsSending(c) == pc[c] # "sending" /\ pc'[c] = "sending"

SpacedStart ==
  \A c \in Writes : StartsSending(c) =>
    \A w \in Writes : endedAt[w] # None => mono - endedAt[w] >= Spacing

WritesAreSpaced == [][SpacedStart]_vars

\* No operation starts, first attempt or retry, while a cooldown GitHub asked
\* for has not been reached by the wall clock, even though the pause is only
\* checked once per call and rate_status() clears it without the lock.
UnowedStart == \A c \in Calls : StartsSending(c) => owed = {}

CooldownIsRespected == [][UnowedStart]_vars

\* A failure GitHub marked as rate limiting always pauses the governor: the
\* message it raises says "further requests remain blocked", and
\* docs/gh_get_api_rate_status.md:59 promises the fallback cooldown when the
\* reset information is not usable.  It does not hold: a reset that is already
\* past on the local clock is taken as the deadline (_rate_limit_deadline).
RateLimitAlwaysPauses ==
  [][\A c \in Calls, m \in Metadata :
       FailRateLimited(c, m) => blockedUntil' > wall]_vars

\* The governor implements the port the rest of the server relies on.
PhaseOf(step) ==
  CASE step = "sending" -> "flying"
    [] step = "done" -> "answered"
    [] OTHER -> "pending"

phase == [c \in Calls |-> PhaseOf(pc[c])]

Port == INSTANCE RequestPort
PortSpec == Port!Spec

\* Every call that asks for the lock is answered: no sleep, retry, refusal or
\* cancellation of another call leaves it waiting for ever.
EveryCallIsAnswered == \A c \in Calls : pc[c] = "waiting" ~> pc[c] = "done"
=============================================================================
