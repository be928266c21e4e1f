----------------------------- MODULE PatchEdits -----------------------------
(***************************************************************************)
(* What an exact-context patch makes of a file (tools/patch_writes.py): an *)
(* edit [old, new] replaces the one place where its old text stands in the *)
(* original, whatever the other edits are.  Edited says the same of the    *)
(* characters of the original, without the order and the cursor by which   *)
(* the tool assembles the result.                                          *)
(***************************************************************************)
EXTENDS Integers, SequencesExt

StandsAt(needle, text, i) == IsPrefix(needle, SubSeq(text, i, Len(text)))

\* _find_all_occurrences: those that overlap each other count too.
Occurrences(text, needle) == {i \in DOMAIN text : StandsAt(needle, text, i)}

Span(original, edit) ==
  LET i == CHOOSE i \in Occurrences(original, edit.old) : TRUE
  IN  [start |-> i, end |-> i + Len(edit.old), new |-> edit.new]

Before(a, b) == a.start < b.start \/ (a.start = b.start /\ a.end < b.end)

\* The pieces of the original between the spans, and the replacements.
Assembled(original, spans) ==
  LET done[k \in 0 .. Len(spans)] ==
        IF k = 0 THEN [text |-> <<>>, cursor |-> 1]
        ELSE [text |-> done[k - 1].text
                         \o SubSeq(original, done[k - 1].cursor, spans[k].start - 1)
                         \o spans[k].new,
              cursor |-> spans[k].end]
      all == done[Len(spans)]
  IN  all.text \o SubSeq(original, all.cursor, Len(original))

\* The order of the spans, in which the place of two at one place is open.
Order(spans) ==
  CHOOSE p \in Bijection(DOMAIN spans, DOMAIN spans) :
    \A i, j \in DOMAIN spans : i < j => ~Before(spans[p[j]], spans[p[i]])

Spans(original, edits) ==
  LET spans == [e \in DOMAIN edits |-> Span(original, edits[e])]
  IN  [k \in DOMAIN spans |-> spans[Order(spans)[k]]]

\* Mutant: each replaces its text in what the edits before it have made.
MaterializeInTurn(original, edits) ==
  FoldLeft(LAMBDA text, edit :
             IF Occurrences(text, edit.old) = {} THEN text
             ELSE Assembled(text, <<Span(text, edit)>>),
           original, edits)

\* _materialize_edits: it refuses what is not accepted.
Materialize(original, edits) == Assembled(original, Spans(original, edits))

Accepted(original, edits) ==
  /\ \A e \in DOMAIN edits : Cardinality(Occurrences(original, edits[e].old)) = 1
  /\ LET spans == Spans(original, edits)
     IN  \A k \in 1 .. Len(spans) - 1 : spans[k].end <= spans[k + 1].start

-----------------------------------------------------------------------------
(* The reference. *)

\* The ways to place every edit on the original, as the characters it covers.
Cover(original, edit) ==
  {s \in {i .. i + Len(edit.old) - 1 : i \in DOMAIN original} :
     /\ s \subseteq DOMAIN original
     /\ \A i \in s : original[i] = edit.old[i - Min(s) + 1]}

\* Every edit has one place, and no character is in two of them.
Applicable(original, edits) ==
  /\ \A e \in DOMAIN edits : Cardinality(Cover(original, edits[e])) = 1
  /\ \A e, f \in DOMAIN edits :
       e # f => UNION Cover(original, edits[e]) \cap UNION Cover(original, edits[f]) = {}

Edited(original, edits) ==
  FlattenSeq(
    [i \in DOMAIN original |->
       LET here == {e \in DOMAIN edits : i \in UNION Cover(original, edits[e])}
       IN  IF here = {} THEN <<original[i]>>
           ELSE LET e == CHOOSE e \in here : TRUE
                IN  IF i = Min(UNION Cover(original, edits[e])) THEN edits[e].new ELSE <<>>])
=============================================================================
