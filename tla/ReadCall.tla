------------------------------ MODULE ReadCall ------------------------------
(***************************************************************************)
(* One call of a read tool: the request it makes next and what it returns, *)
(* while others change what it looks at.                                   *)
(***************************************************************************)
EXTENDS LogEvidence

CONSTANT Scenarios  \* what is on GitHub at first, and the call that is made

(***************************************************************************)
(* changes: bound on what happens on GitHub during the call.  call: the    *)
(* tool and its arguments, those it does not have being None.              *)
(***************************************************************************)
ASSUME ReadAssumption == \A s \in Scenarios : s.changes \in Nat

VARIABLES
  scenario,
  pc,        \* the request the call makes next, or how it ended
  result,    \* what the call returned, or None
  changes    \* history: changes so far

replyVars == <<pc, result>>

call == scenario.call

ReadInit(first) ==
  /\ scenario \in Scenarios
  /\ pc = first[call.tool]
  /\ result = None
  /\ changes = 0

Ended == {"delivered", "raised"}
Raises == pc' = "raised" /\ UNCHANGED result
Returns(value) == pc' = "delivered" /\ result' = value
Then(step) == pc' = step /\ UNCHANGED result

RequestFails == pc \notin Ended /\ Raises

\* Something changes that the tools look at.
Change(tools) ==
  /\ call.tool \in tools /\ changes < scenario.changes
  /\ changes' = changes + 1
  /\ UNCHANGED <<scenario, replyVars>>
=============================================================================
