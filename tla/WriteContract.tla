--------------------------- MODULE WriteContract ---------------------------
(***************************************************************************)
(* execute_write_readback (write_contracts.py), the routine behind every   *)
(* exact-outcome write tool: check a precondition, mutate once, read the   *)
(* state back, report a tri-state outcome.                                 *)
(*                                                                         *)
(* Each of the three requests takes the governor's lock by itself, so      *)
(* other tools of the server, and other users of GitHub, act between them. *)
(* A mutation whose gh process died may still reach GitHub later.  The     *)
(* caller reads the outcome and the warnings of _write_error_warning: it   *)
(* asks again only for a write reported failed whose state does not match. *)
(***************************************************************************)
EXTENDS GhAttempt

CONSTANTS
  Calls,      \* the exact writes of a run
  Guarded,    \* those with a precondition callback
  Creates,    \* those that add an object, found again only by its returned identity
  Texts,      \* those sent through a gh subcommand instead of gh api
  Values,     \* the states of the resource the other writes set
  Initial, Expected, Requested,
  MaxIssues,  \* bound: times a caller asks for one write
  MaxEdits    \* bound: edits by other users of GitHub

ASSUME ContractAssumption ==
  /\ Guarded \subseteq Calls
  /\ Creates \subseteq Calls
  /\ Texts \subseteq Calls
  /\ Initial \in Values
  /\ Expected \in [Calls -> Values]
  /\ Requested \in [Calls -> Values]
  /\ MaxIssues \in Nat /\ MaxEdits \in Nat

VARIABLES
  pc,          \* pc[c]: where the call stands between two awaits
  inFlight,    \* the call whose gh process runs under the governor's lock, or None
  completed,   \* completed[c]: write_completed as established so far
  identified,  \* the creates whose response gave the new object's identity
  outcome,     \* outcome[c]: WriteOutcomeMetadata, or None
  value,       \* GitHub: the state of the resource
  live,        \* GitHub: calls whose mutation was sent and is not decided
  applied,     \* history: mutations of each call GitHub applied
  garbled,     \* history: calls told by an unreadable reply that theirs was applied
  stale,       \* history: calls whose checked state someone has changed since
  issues, edits

requestVars == <<inFlight, completed, identified>>
remoteVars == <<value, live, applied, stale>>
vars == <<pc, requestVars, outcome, remoteVars, garbled, issues, edits>>

Phases == {"checking", "ready", "writing", "reading", "answered", "stopped"}
First(c) == IF c \in Guarded THEN "checking" ELSE "ready"
Goto(c, phase) == pc' = [pc EXCEPT ![c] = phase]
WriteEnds(c) == IF c \in Texts THEN TextWriteEnds ELSE ApiWriteEnds

Init ==
  /\ pc = [c \in Calls |-> First(c)]
  /\ inFlight = None
  /\ completed = [c \in Calls |-> "unknown"]
  /\ identified = {}
  /\ outcome = [c \in Calls |-> None]
  /\ value = Initial
  /\ live = {}
  /\ applied = [c \in Calls |-> 0]
  /\ garbled = {}
  /\ stale = {}
  /\ issues = [c \in Calls |-> 1]
  /\ edits = 0

-----------------------------------------------------------------------------
\* Mutant: a call that is asked again keeps the check of its first issue.
CheckPreconditionOnce(c) ==
  /\ pc[c] = "checking"
  /\ inFlight = None
  /\ \/ /\ value = Expected[c] \/ issues[c] > 1
        /\ Goto(c, "ready")
        /\ stale' = stale \ {c}
     \/ Goto(c, "stopped") /\ UNCHANGED stale
  /\ UNCHANGED <<requestVars, outcome, value, live, applied, garbled, issues, edits>>

\* The precondition callback reads the state: it matches, or the call raises
\* (a mismatch or a failed read) with nothing sent.
CheckPrecondition(c) ==
  /\ pc[c] = "checking"
  /\ inFlight = None
  /\ \/ /\ value = Expected[c]
        /\ Goto(c, "ready")
        /\ stale' = stale \ {c}
     \/ Goto(c, "stopped") /\ UNCHANGED stale
  /\ UNCHANGED <<requestVars, outcome, value, live, applied, garbled, issues, edits>>

SendWrite(c) ==
  /\ pc[c] = "ready"
  /\ inFlight = None
  /\ Goto(c, "writing")
  /\ inFlight' = c
  /\ live' = live \cup {c}
  /\ UNCHANGED <<completed, identified, outcome, value, applied, stale, garbled,
                 issues, edits>>

\* The governor refuses the write while GitHub's cooldown lasts: an error of
\* _rate_limit_error, which is not ambiguous, and nothing is sent.
RefuseWrite(c) ==
  /\ pc[c] = "ready"
  /\ inFlight = None
  /\ Goto(c, "reading")
  /\ completed' = [completed EXCEPT ![c] = "no"]
  /\ UNCHANGED <<inFlight, identified, outcome, remoteVars, garbled, issues, edits>>

\* GitHub applies a mutation it has received, before or after gh gives up on it.
Apply(c) ==
  /\ c \in live
  /\ live' = live \ {c}
  /\ applied' = [applied EXCEPT ![c] = @ + 1]
  /\ \/ c \in Creates /\ UNCHANGED <<value, stale>>
     \/ c \notin Creates /\ value' = Requested[c] /\ stale' = Calls
  /\ UNCHANGED <<pc, requestVars, outcome, garbled, issues, edits>>

\* The gh process ends and write() returns or raises.
FinishWrite(c) ==
  /\ pc[c] = "writing"
  /\ \E end \in WriteEnds(c) :
        /\ end.fate = "applied" <=> c \notin live
        /\ live' = IF end.fate = "rejected" THEN live \ {c} ELSE live
        /\ completed' = [completed EXCEPT ![c] = WriteCompleted(end.verdict)]
        /\ garbled' = IF end.confirmed /\ end.verdict.failed
                      THEN garbled \cup {c} ELSE garbled
        /\ \/ UNCHANGED identified
           \/ ~end.verdict.failed /\ c \in Creates /\ identified' = identified \cup {c}
  /\ inFlight' = None
  /\ Goto(c, "reading")
  /\ UNCHANGED <<outcome, value, applied, stale, issues, edits>>

Report(c, read, matches) ==
  /\ outcome' = [outcome EXCEPT ![c] =
       [write_completed |-> completed[c],
        readback_completed |-> read,
        state_matches_requested |-> matches]]
  /\ Goto(c, "answered")
  /\ UNCHANGED <<requestVars, remoteVars, garbled, issues, edits>>

\* Mutant: a readback that failed counts as one that did not match.
FailReadbackAsMismatch(c) ==
  /\ pc[c] = "reading"
  /\ inFlight = None
  /\ Report(c, FALSE, "no")

\* readback() raises: the request failed, or a create has no identity to read.
FailReadback(c) ==
  /\ pc[c] = "reading"
  /\ inFlight = None
  /\ Report(c, FALSE, "unknown")

\* state_matches_requested over the state as it is when read; a created object
\* may have been edited, or normalised by GitHub, before it is read.
Matches(c) ==
  CASE c \in Creates -> {"yes", "no"}
    [] c \notin Creates /\ value = Requested[c] -> {"yes"}
    [] OTHER -> {"no"}

Readback(c) ==
  /\ pc[c] = "reading"
  /\ inFlight = None
  /\ c \in Creates => c \in identified
  /\ \E matches \in Matches(c) : Report(c, TRUE, matches)

\* Anything but a RuntimeError out of a callback (no gh to start, a payload a
\* validator refuses) leaves the call without an outcome; so does cancellation,
\* which also kills the gh process, but not what GitHub has received.
Abandon(c) ==
  /\ pc[c] \in {"checking", "ready", "writing", "reading"}
  /\ Goto(c, "stopped")
  /\ inFlight' = IF inFlight = c THEN None ELSE inFlight
  /\ UNCHANGED <<completed, identified, outcome, remoteVars, garbled, issues, edits>>

\* The caller asks again, as far as the outcome and its warning leave it free to.
MayAskAgain(o) == o.write_completed = "no" /\ o.state_matches_requested # "yes"

AskAgain(c) ==
  /\ pc[c] = "answered"
  /\ MayAskAgain(outcome[c])
  /\ issues[c] < MaxIssues
  /\ Goto(c, First(c))
  /\ issues' = [issues EXCEPT ![c] = @ + 1]
  /\ outcome' = [outcome EXCEPT ![c] = None]
  /\ UNCHANGED <<requestVars, remoteVars, garbled, edits>>

\* Another user of GitHub changes the resource.
Edit ==
  /\ edits < MaxEdits
  /\ edits' = edits + 1
  /\ value' \in Values \ {value}
  /\ stale' = Calls
  /\ UNCHANGED <<pc, requestVars, outcome, live, applied, garbled, issues>>

Next ==
  \/ \E c \in Calls :
       \/ CheckPrecondition(c) \/ SendWrite(c) \/ RefuseWrite(c) \/ FinishWrite(c)
       \/ FailReadback(c) \/ Readback(c) \/ Abandon(c)
       \/ Apply(c) \/ AskAgain(c)
  \/ Edit

Spec == Init /\ [][Next]_vars

-----------------------------------------------------------------------------
\* Every variable stays in the range the code gives it.
TypeOK ==
  /\ pc \in [Calls -> Phases]
  /\ inFlight \in Calls \cup {None}
  /\ completed \in [Calls -> Tri]
  /\ identified \subseteq Creates
  /\ outcome \in [Calls -> Outcomes \cup {None}]
  /\ value \in Values
  /\ live \subseteq Calls
  /\ applied \in [Calls -> Nat]
  /\ garbled \subseteq Calls
  /\ stale \subseteq Calls
  /\ issues \in [Calls -> Nat]
  /\ edits \in Nat

\* write_completed tells what GitHub did and will do: True, the mutation was
\* applied; False, it was not and never will be, however late a request that
\* outlived its gh process is decided.  Only a confirmation gh could not parse
\* escapes this (see KnownFailureIsReal).
Told(c, completion) == outcome[c] # None /\ outcome[c].write_completed = completion

OutcomeIsTruthful ==
  \A c \in Calls :
    /\ Told(c, "yes") => applied[c] > 0
    /\ Told(c, "no") /\ c \notin garbled => applied[c] = 0 /\ c \notin live

\* A caller who asks again whenever an outcome leaves it free to still has its
\* mutation applied at most once, creates included, whatever gh reported and
\* whenever GitHub decided (write_contracts.py, "never replayed").
AppliedAtMostOnce == \A c \in Calls : c \in garbled \/ applied[c] <= 1

\* A guarded write only ever lands on the state its own precondition saw, or
\* on one that somebody changed after that check: never on one that had
\* already changed when the tool looked (require_write_precondition).
LandsOnCheckedState ==
  [][\A c \in Guarded :
       applied'[c] # applied[c] => value = Expected[c] \/ c \in stale]_vars

\* docs/git_content_write_contract.md:12 says False means "a known failure
\* before completion".  It does not hold: when gh exits 0 and its output is not
\* JSON, _run_once raises an error that is not ambiguous (gh_client.py:435).
KnownFailureIsReal == \A c \in Calls : Told(c, "no") => applied[c] = 0
=============================================================================
