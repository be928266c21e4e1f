---------------------------- MODULE RequestPort ----------------------------
(***************************************************************************)
(* What the rest of the server may rely on when it hands a request to the  *)
(* shared governor (request_governor.py), without the lock, the sleeps or  *)
(* the stored deadline that make it true:                                  *)
(*   - one GitHub operation is in flight at a time;                        *)
(*   - a call has a budget of operations, which is one unless the call is  *)
(*     a retry-safe read, and is answered once;                            *)
(*   - two writes are kept Spacing apart, from the end of the earlier one  *)
(*     to the start of the later one, however the earlier one ended;       *)
(*   - nothing is sent while a cooldown GitHub asked for is owed.          *)
(***************************************************************************)
EXTENDS Integers

CONSTANTS
  Calls,            \* the requests handed to the port
  Writes,           \* those that mutate GitHub
  RetrySafe,        \* the reads that may be sent again
  Spacing,          \* least time between two writes
  MaxReadAttempts,  \* budget of a retry-safe read
  None              \* "not yet"

VARIABLES
  phase,    \* phase[c]: "pending" before and between sends, "flying", "answered"
  sends,    \* sends[c]: operations started for c
  endedAt,  \* endedAt[c]: when c's latest operation ended, or None
  owed,     \* the wall-clock deadlines GitHub asked for that no clock reached yet
  mono,     \* monotonic clock
  wall      \* wall clock, which may be stepped

vars == <<phase, sends, endedAt, owed, mono, wall>>

Budget(c) == IF c \in RetrySafe THEN MaxReadAttempts ELSE 1

Init ==
  /\ phase = [c \in Calls |-> "pending"]
  /\ sends = [c \in Calls |-> 0]
  /\ endedAt = [c \in Calls |-> None]
  /\ owed = {}
  /\ mono = 0
  /\ wall \in Int

Spaced == \A w \in Writes : endedAt[w] = None \/ mono >= endedAt[w] + Spacing

Launch(c) ==
  /\ phase[c] = "pending"
  /\ \A d \in Calls : phase[d] # "flying"
  /\ sends[c] < Budget(c)
  /\ owed = {}
  /\ c \in Writes => Spaced
  /\ phase' = [phase EXCEPT ![c] = "flying"]
  /\ sends' = [sends EXCEPT ![c] = @ + 1]
  /\ UNCHANGED <<endedAt, owed, mono, wall>>

\* The operation ends. Its reply may ask for a cooldown; only a call with
\* budget left may go back to pending.
Land(c) ==
  /\ phase[c] = "flying"
  /\ \/ phase' = [phase EXCEPT ![c] = "answered"]
     \/ /\ sends[c] < Budget(c)
        /\ phase' = [phase EXCEPT ![c] = "pending"]
  /\ endedAt' = [endedAt EXCEPT ![c] = mono]
  /\ owed \subseteq owed'
  /\ \A d \in owed' : d > wall
  /\ UNCHANGED <<sends, mono, wall>>

\* The port refuses a call, or its caller is cancelled, with nothing in flight for it.
GiveUp(c) ==
  /\ phase[c] = "pending"
  /\ phase' = [phase EXCEPT ![c] = "answered"]
  /\ UNCHANGED <<sends, endedAt, owed, mono, wall>>

\* Time passes, or the wall clock is adjusted: a cooldown is over once the
\* wall clock has read its deadline.
Clock ==
  /\ mono' >= mono
  /\ owed' = {d \in owed : d > wall'}
  /\ UNCHANGED <<phase, sends, endedAt>>

Next == Clock \/ \E c \in Calls : Launch(c) \/ Land(c) \/ GiveUp(c)

Spec == Init /\ [][Next]_vars
=============================================================================
