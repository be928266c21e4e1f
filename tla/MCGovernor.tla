----------------------------- MODULE MCGovernor -----------------------------
(***************************************************************************)
(* Two writes, a retry-safe read and a read sent once (a stream) share the *)
(* governor; or the stream and two diagnostics do.  The spacing is two     *)
(* ticks, so a write can arrive before, at and after it; a reported reset  *)
(* may already be past on the local clock; the wall clock may be stepped   *)
(* back and forth by one tick.                                             *)
(***************************************************************************)
EXTENDS RateDiagnostics

CONSTANTS w1, w2, r1, s1, d1, d2

MCCalls == {w1, w2, r1, s1}
MCWrites == {w1, w2}
MCRetrySafe == {r1}
MCDiagnostics == {d1, d2}
MCDiagnosedCalls == MCCalls \cup MCDiagnostics
MCMixes == {MCCalls, {s1, d1, d2}}
MCRetryAfters == {1}
MCResetOffsets == {-1, 2}
MCSkews == {-1, 0}
=============================================================================
