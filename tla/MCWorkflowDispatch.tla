------------------------ MODULE MCWorkflowDispatch ------------------------
(***************************************************************************)
(* Two invocations of the tool for one identity, and up to three runs made *)
(* by them or by others, one more than a filtered count can tell apart;    *)
(* the ref may move once.                                                  *)
(***************************************************************************)
EXTENDS WorkflowDispatch

CONSTANTS d1, d2, run1, run2, run3

MCCalls == {d1, d2}
MCRuns == {run1, run2, run3}
=============================================================================
