-------------------------- MODULE MCWriteContract --------------------------
(***************************************************************************)
(* Two writes that set one resource, of which one checks it first, and a   *)
(* create that checks it too; one write goes through a gh subcommand.      *)
(* Each may be asked for twice and other users edit the resource once.     *)
(***************************************************************************)
EXTENDS WriteContract

CONSTANTS guardedSet, blindSet, create, v0, v1, v2

MCCalls == {guardedSet, blindSet, create}
MCGuarded == {guardedSet, create}
MCCreates == {create}
MCTexts == {blindSet}
MCValues == {v0, v1, v2}
MCExpected == [c \in MCCalls |-> v0]
MCRequested == [c \in MCCalls |-> IF c = guardedSet THEN v1 ELSE v2]
=============================================================================
