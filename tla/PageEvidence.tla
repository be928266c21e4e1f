---------------------------- MODULE PageEvidence ----------------------------
(***************************************************************************)
(* What is said of one page of a list: whether more follows, and whether   *)
(* the page is less than it should be (evidence.py).                       *)
(***************************************************************************)
EXTENDS Integers, FiniteSetsExt

\* The size of a page that is asked for under the hard limit.
PerPage(requested, hard) == Min({requested, hard})

\* What the total says is on a page.
Expected(page, perPage, total) == Min({perPage, Max({total - (page - 1) * perPage, 0})})

\* computed_has_more
HasMore(page, perPage, total) ==
  (page - 1) * perPage + Expected(page, perPage, total) < total

\* The counts pagination_evidence takes: otherwise it raises.
Plausible(page, perPage, total, returned) == returned <= Expected(page, perPage, total)

\* pagination_evidence, when the total is known.
PageEvidence(page, requested, hard, total, returned) ==
  LET perPage == PerPage(requested, hard)
      more == HasMore(page, perPage, total)
  IN  [hasMore |-> more,
       truncated |-> \/ returned < Expected(page, perPage, total)
                     \/ requested > hard /\ more]
=============================================================================
