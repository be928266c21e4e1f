-------------------------- MODULE RateDiagnostics --------------------------
(***************************************************************************)
(* gh_get_api_rate_status (tools/diagnostics.py) beside everything else    *)
(* that uses the governor.  A diagnostic holds the lock of the cache of    *)
(* its governor while its own request waits for the governor's lock: two   *)
(* locks, one inside the other.  What it decides by, the age of the entry  *)
(* and the cooldown, it has read before that wait.  Its request is the     *)
(* call of the governor of the same name.                                  *)
(***************************************************************************)
EXTENDS Governor

CONSTANTS
  Diagnostics,  \* calls of the tool
  MinInterval,  \* api_rate_status_min_interval_seconds
  Mixes         \* bound: the sets of calls that are made together

\* cached, empty: nothing was sent.  observed: a body.  throttled: headers only.
Answers == {"cached", "empty", "observed", "throttled", "raised"}

\* stream_governed_bytes is a read that is sent once.
ASSUME DiagnosticsAssumption ==
  /\ Diagnostics \subseteq Calls \ (Writes \cup RetrySafe)
  /\ MinInterval \in Nat \ {0}
  /\ Mixes \subseteq SUBSET Calls
  /\ None \notin Answers

VARIABLES
  mix,         \* the calls that are made
  step,        \* step[d]: where diagnostic d is
  cacheQueue,  \* waiters of cache.lock, oldest first
  cacheHolder, \* the diagnostic that holds it across its request
  cachedAt,    \* cache.cached_at_monotonic, None while there is no entry
  shown        \* shown[d]: what d answered with, or None

cacheVars == <<cacheQueue, cacheHolder, cachedAt>>
diagnosticVars == <<mix, step, cacheVars, shown>>
allVars == <<vars, diagnosticVars>>

DiagnosticsInit ==
  /\ Init
  /\ mix \in Mixes
  /\ step = [d \in Diagnostics |-> "idle"]
  /\ cacheQueue = <<>> /\ cacheHolder = None /\ cachedAt = None
  /\ shown = [d \in Diagnostics |-> None]

-----------------------------------------------------------------------------
Call(d) ==
  /\ d \in mix /\ step[d] = "idle"
  /\ step' = [step EXCEPT ![d] = "queued"]
  /\ cacheQueue' = Append(cacheQueue, d)
  /\ UNCHANGED <<vars, cacheHolder, cachedAt, shown, mix>>

Answer(d, answer) ==
  /\ step' = [step EXCEPT ![d] = "answered"]
  /\ shown' = [shown EXCEPT ![d] = answer]
  /\ UNCHANGED mix

\* The lock of the cache is granted.
HasCache(d) ==
  step[d] = "queued" /\ cacheHolder = None /\ cacheQueue # <<>> /\ Head(cacheQueue) = d

\* rate_status().reads_blocked
Blocked == blockedUntil # None /\ ~Expired
Looked == blockedUntil' = IF Expired THEN None ELSE blockedUntil

Young == cachedAt # None /\ mono - cachedAt < MinInterval

\* An answer that needs no request: the entry, or nothing.
AnswerLocally(d) ==
  /\ HasCache(d)
  /\ \/ cachedAt # None /\ (Blocked \/ Young) /\ Answer(d, "cached")
     \/ cachedAt = None /\ Blocked /\ Answer(d, "empty")
  /\ cacheQueue' = Tail(cacheQueue)
  /\ Looked
  /\ UNCHANGED <<pc, lockVars, attempts, wakeAt, lastWriteFinishedAt, clockVars,
                 sends, endedAt, owed, cacheHolder, cachedAt>>

\* Mutant: the lock is released before the request.
RequestUnlocked(d) ==
  /\ HasCache(d)
  /\ ~Blocked /\ ~Young
  /\ step' = [step EXCEPT ![d] = "asking"]
  /\ cacheQueue' = Tail(cacheQueue)
  /\ Goto(d, "waiting")
  /\ queue' = Append(queue, d)
  /\ Looked
  /\ UNCHANGED <<holder, attempts, wakeAt, lastWriteFinishedAt, clockVars, sends, endedAt,
                 owed, cacheHolder, cachedAt, shown, mix>>

\* _perform_rate_status_request: the governor's lock is asked for.
Request(d) ==
  /\ HasCache(d)
  /\ ~Blocked /\ ~Young
  /\ step' = [step EXCEPT ![d] = "asking"]
  /\ cacheQueue' = Tail(cacheQueue) /\ cacheHolder' = d
  /\ Goto(d, "waiting")
  /\ queue' = Append(queue, d)
  /\ Looked
  /\ UNCHANGED <<holder, attempts, wakeAt, lastWriteFinishedAt, clockVars, sends, endedAt,
                 owed, cachedAt, shown, mix>>

\* The answer of the request, or its failure, leaves the block of the lock.
Release(d, answer) ==
  /\ Answer(d, answer)
  /\ cacheHolder' = None
  /\ UNCHANGED cacheQueue

\* The observation replaces the entry, unless its body is no JSON object.
Observe(d, m) ==
  /\ Succeed(d, m)
  /\ \/ Release(d, "observed") /\ cachedAt' = mono
     \/ Release(d, "raised") /\ UNCHANGED cachedAt

\* GitHub refuses: what the headers say is shown and no cache is touched.  The look
\* at the governor that follows expires a deadline that is already past.
Throttled(d, m) ==
  /\ OperationEnded(d)
  /\ Leave(d)
  /\ IF Deadline(m) > wall THEN RecordRateLimit(m) ELSE UNCHANGED <<blockedUntil, owed>>
  /\ Release(d, "throttled")
  /\ UNCHANGED <<wakeAt, cachedAt>>

\* A cooldown began while the request waited: the governor sends nothing.
Refused(d) ==
  /\ Refuse(d)
  /\ Release(d, IF cachedAt = None THEN "empty" ELSE "cached")
  /\ UNCHANGED cachedAt

\* Any other error, and a cancellation in flight.
Raised(d) ==
  /\ Fail(d, TRUE) \/ Abort(d)
  /\ Release(d, "raised")
  /\ UNCHANGED cachedAt

\* Mutant: a diagnostic cancelled in the governor's queue keeps the cache.
CancelKeepsCache(d) ==
  /\ \/ /\ CancelWaiting(d)
        /\ Answer(d, "raised") /\ UNCHANGED cacheQueue
     \/ /\ step[d] = "queued"
        /\ Answer(d, "raised")
        /\ cacheQueue' = SelectSeq(cacheQueue, LAMBDA e : e # d)
        /\ UNCHANGED vars
  /\ UNCHANGED <<cacheHolder, cachedAt>>

\* The caller goes away while its diagnostic waits for either lock.
CancelDiagnostic(d) ==
  \/ /\ CancelWaiting(d)
     /\ Release(d, "raised") /\ UNCHANGED cachedAt
  \/ /\ step[d] = "queued"
     /\ Answer(d, "raised")
     /\ cacheQueue' = SelectSeq(cacheQueue, LAMBDA e : e # d)
     /\ UNCHANGED <<vars, cacheHolder, cachedAt>>

-----------------------------------------------------------------------------
Decide(d) == AnswerLocally(d) \/ Request(d)
GrantDiagnostic(d) == Refused(d) \/ (Enter(d) /\ UNCHANGED diagnosticVars)
Settle(d) == (\E m \in Metadata : Observe(d, m) \/ Throttled(d, m)) \/ Raised(d)

Others == Calls \ Diagnostics

\* The governor without the calls of diagnostics.
Elsewhere ==
  /\ \/ \E c \in Others : (c \in mix /\ Arrive(c)) \/ Grant(c) \/ Wake(c) \/ Finish(c) \/ Cancel(c)
     \/ RateStatus
     \/ Tick
     \/ \E s \in Skews : StepWall(s)
  /\ UNCHANGED diagnosticVars

DiagnosticsNext ==
  \/ \E d \in Diagnostics :
       Call(d) \/ Decide(d) \/ GrantDiagnostic(d) \/ Settle(d) \/ CancelDiagnostic(d)
  \/ Elsewhere

Alone(A) == A /\ UNCHANGED diagnosticVars

\* As for the governor; and a granted lock of the cache is taken.  At most one step
\* of a call is possible at a time.
DiagnosticsFairness ==
  /\ \A c \in Others : WF_allVars(Alone(Grant(c) \/ Wake(c) \/ Finish(c)))
  /\ WF_allVars(Alone(SleepPending /\ Tick))
  /\ \A d \in Diagnostics : WF_allVars(Decide(d) \/ GrantDiagnostic(d) \/ Settle(d))

DiagnosticsSpec == DiagnosticsInit /\ [][DiagnosticsNext]_allVars
FairDiagnosticsSpec == DiagnosticsSpec /\ DiagnosticsFairness

-----------------------------------------------------------------------------
\* "Repeated calls inside the configured diagnostic refresh interval [...] do not
\* create additional GitHub requests": none starts within the interval after an
\* observation, though its age was read before the wait for the governor, and
\* however many diagnostics are called at once.
SpacedRefresh ==
  \A d, e \in Diagnostics :
    StartsSending(d) /\ shown[e] = "observed" => mono - endedAt[e] >= MinInterval
RefreshesAreSpaced == [][SpacedRefresh]_allVars

\* Every diagnostic is answered: the two locks are never taken in a circle, and no
\* error, refusal or cancellation leaves the cache locked.
EveryDiagnosticEnds == \A d \in Diagnostics : step[d] = "queued" ~> step[d] = "answered"
=============================================================================
