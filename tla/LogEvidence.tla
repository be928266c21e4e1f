---------------------------- MODULE LogEvidence ----------------------------
(***************************************************************************)
(* The selection of bounded text from a log that streams past              *)
(* (action_log_evidence.py, evidence.py) and the decoding of the stream    *)
(* (gh_client.py).  The accumulator sees the log in chunks, never whole,   *)
(* and keeps only what it will return, so a marker or a character may lie  *)
(* across the boundary of two chunks.  Selection says what is to come out, *)
(* from the whole text at once.                                            *)
(***************************************************************************)
EXTENDS Integers, SequencesExt

CONSTANTS
  Width,        \* Width[c]: bytes of the UTF-8 encoding of a character
  Visible,      \* Visible[c]: the inert text shown for a character
  Replacement,  \* what a decoder shows for an incomplete character
  None,         \* Python's None
  HardMaxBytes  \* MCP_GH_MAX_ACTION_LOG_BYTES

Char == DOMAIN Width

ASSUME LogAssumption ==
  /\ Width \in [Char -> 1..4]
  /\ Visible \in [Char -> Seq(Char) \ {<<>>}]
  /\ Replacement \in Char /\ Visible[Replacement] = <<Replacement>>
  /\ HardMaxBytes \in Nat \ {0}
  /\ None \notin Nat \cup Seq(Char)

-----------------------------------------------------------------------------
(* Sequences. *)

\* Those of s that are in S.
KeepOnly(s, S) ==
  LET kept[k \in 0..Len(s)] ==
        IF k = 0 THEN <<>> ELSE IF s[k] \in S THEN Append(kept[k - 1], s[k]) ELSE kept[k - 1]
  IN  kept[Len(s)]

\* s with x behind those that precede it.
Insert(s, x, precedes) ==
  LET n == Cardinality({k \in DOMAIN s : <<s[k], x>> \in precedes})
  IN  SubSeq(s, 1, n) \o <<x>> \o SubSeq(s, n + 1, Len(s))

\* s in an order.
Sorted(s, precedes) ==
  LET sorted[k \in 0..Len(s)] ==
        IF k = 0 THEN <<>> ELSE Insert(sorted[k - 1], s[k], precedes)
  IN  sorted[Len(s)]

-----------------------------------------------------------------------------
(* Text and its encoding: byte i of character c is <<c, i>>. *)

Beginning(c, n) == [i \in 1..n |-> <<c, i>>]
Encode(text) == FlattenSeq([k \in DOMAIN text |-> Beginning(text[k], Width[text[k]])])

Bytes(text) == Len(Encode(text))

\* decode(errors="ignore"): the characters that are there whole, from the first
\* of their bytes to the last.
Decode(bytes) ==
  LET Ends(k) == LET width == Width[bytes[k][1]] IN bytes[k][2] = width /\ k >= width
      whole[k \in 0..Len(bytes)] ==
        IF k = 0 THEN <<>>
        ELSE IF Ends(k) THEN Append(whole[k - 1], bytes[k][1]) ELSE whole[k - 1]
  IN  whole[Len(bytes)]

\* A text of which the last character may be incomplete.
IsEncoding(bytes) ==
  \E c \in Char, n \in 0..3 :
    n < Width[c] /\ bytes = Encode(Decode(bytes)) \o Beginning(c, n)

\* The longest prefix, and suffix, of whole characters within n bytes.
Prefix(text, n) == Decode(SubSeq(Encode(text), 1, Min({n, Bytes(text)})))
Suffix(text, n) ==
  Decode(SubSeq(Encode(text), Max({1, Bytes(text) - n + 1}), Bytes(text)))

\* _normalize_terminal_controls
Inert(text) == FlattenSeq([k \in DOMAIN text |-> Visible[text[k]]])

\* str.find: where the marker first is, or 0.
FirstAt(text, marker) ==
  LET at == {k \in 1..(Len(text) + 1 - Len(marker)) :
               SubSeq(text, k, k + Len(marker) - 1) = marker}
  IN  IF at = {} THEN 0 ELSE Min(at)

LastOf(text, n) == SubSeq(text, Max({1, Len(text) - n + 1}), Len(text))
AllButLast(text, n) == SubSeq(text, 1, Len(text) - n)

-----------------------------------------------------------------------------
(* The incremental decoder: bytes of a character that is not complete wait. *)

\* The characters that bytes complete, and the bytes that are left over.
Complete(bytes) ==
  LET n == Bytes(Decode(bytes))
  IN  [text |-> Decode(bytes), rest |-> SubSeq(bytes, n + 1, Len(bytes))]

\* decode(b"", final=True)
Flush(rest) == IF rest = <<>> THEN <<>> ELSE <<Replacement>>

\* All of it at once.
Decoded(bytes) == Complete(bytes).text \o Flush(Complete(bytes).rest)

-----------------------------------------------------------------------------
(* What a caller asks for: max_bytes, tail_bytes, start_marker, end_marker. *)

Given(option) == option # None

\* _effective_limit
Limit(sel) == IF Given(sel.max) THEN Min({sel.max, HardMaxBytes}) ELSE HardMaxBytes

Marker(option) == Inert(option)

(***************************************************************************)
(* The accumulator.  seen: all text so far, which is hashed and counted.   *)
(* kept, closed: what _Utf8PrefixCollector holds, and that it takes no     *)
(* more.  tail: the last bytes.  active, ended: the start marker has been  *)
(* found, and the end marker.  startTail, endTail: text that may be the    *)
(* beginning of a marker.                                                  *)
(***************************************************************************)
NewEvidence(sel) ==
  [seen |-> <<>>, kept |-> <<>>, closed |-> FALSE, tail |-> <<>>,
   active |-> ~Given(sel.start), ended |-> FALSE, startTail |-> <<>>, endTail |-> <<>>]

\* Mutant: text behind a character that did not fit is taken as long as it fits.
CollectWhatFits(acc, text, limit) ==
  [acc EXCEPT !.kept = @ \o Prefix(text, limit - Bytes(acc.kept))]

\* _Utf8PrefixCollector.add_text, and BoundedTextAccumulator.add_text
Collect(acc, text, limit) ==
  LET room == limit - Bytes(acc.kept)
  IN  CASE acc.closed \/ text = <<>> -> acc
        [] ~acc.closed /\ text # <<>> /\ Bytes(text) <= room -> [acc EXCEPT !.kept = @ \o text]
        [] OTHER -> [acc EXCEPT !.kept = @ \o Prefix(text, room), !.closed = TRUE]

\* Mutant: only the new chunk is searched for the end marker.
ConsumeSelectedByChunk(acc, text, sel) ==
  LET at == FirstAt(text, Marker(sel.end))
  IN  IF ~Given(sel.end) \/ at = 0 THEN Collect(acc, text, Limit(sel))
      ELSE [Collect(acc, SubSeq(text, 1, at + Len(Marker(sel.end)) - 1), Limit(sel))
              EXCEPT !.ended = TRUE]

\* _consume_selected, for text that is not empty.
ConsumeSelected(acc, text, sel) ==
  LET candidate == acc.endTail \o text
      at == FirstAt(candidate, Marker(sel.end))
      keep == Len(Marker(sel.end)) - 1
  IN  CASE ~Given(sel.end) -> Collect(acc, text, Limit(sel))
        [] Given(sel.end) /\ at # 0 ->
             [Collect(acc, SubSeq(candidate, 1, at + keep), Limit(sel))
                EXCEPT !.endTail = <<>>, !.ended = TRUE]
        [] Given(sel.end) /\ at = 0 /\ Len(candidate) <= keep -> [acc EXCEPT !.endTail = candidate]
        [] OTHER ->
             [Collect(acc, AllButLast(candidate, keep), Limit(sel))
                EXCEPT !.endTail = LastOf(candidate, keep)]

\* The tail branch of add_text.
KeepTail(acc, text, sel) ==
  [acc EXCEPT !.tail = LastOf(@ \o Encode(text), Min({sel.tail, Limit(sel)}))]

\* The search for the start marker.
SeekStart(acc, text, sel) ==
  LET candidate == acc.startTail \o text
      at == FirstAt(candidate, Marker(sel.start))
  IN  IF at = 0
      THEN [acc EXCEPT !.startTail = LastOf(candidate, Len(Marker(sel.start)) - 1)]
      ELSE ConsumeSelected([acc EXCEPT !.active = TRUE, !.startTail = <<>>],
                           SubSeq(candidate, at, Len(candidate)), sel)

\* ActionLogEvidenceAccumulator.add_text
AddText(acc, chunk, sel) ==
  LET text == Inert(chunk)
      next == [acc EXCEPT !.seen = @ \o text]
  IN  CASE text = <<>> -> acc
        [] text # <<>> /\ Given(sel.tail) -> KeepTail(next, text, sel)
        [] text # <<>> /\ ~Given(sel.tail) /\ acc.ended -> next
        [] text # <<>> /\ ~Given(sel.tail) /\ ~acc.ended /\ ~acc.active ->
             SeekStart(next, text, sel)
        [] OTHER -> ConsumeSelected(next, text, sel)

\* What is returned of a text, and of which total.
Evidence(text, seen) ==
  [text |-> text, bytes |-> Bytes(text), total |-> Bytes(seen),
   truncated |-> Bytes(text) < Bytes(seen)]

\* finish, or None when it raises.
Finish(acc, sel) ==
  IF (Given(sel.start) /\ ~acc.active) \/ (Given(sel.end) /\ ~acc.ended) THEN None
  ELSE Evidence(IF Given(sel.tail) THEN Decode(acc.tail) ELSE acc.kept, acc.seen)

\* bound_text_evidence
Bounded(text, limit) ==
  Evidence(Collect([kept |-> <<>>, closed |-> FALSE], text, limit).kept, text)

-----------------------------------------------------------------------------
(***************************************************************************)
(* The reference: from the first start marker to the end of the first end  *)
(* marker at or after it, both inclusive, cut to the limit; or the last    *)
(* bytes; whole characters only; nothing if a marker is missing.           *)
(***************************************************************************)
Selection(text, sel) ==
  LET start == IF Given(sel.start) THEN FirstAt(text, Marker(sel.start)) ELSE 1
      from == SubSeq(text, start, Len(text))
      end == FirstAt(from, Marker(sel.end))
      cut == IF Given(sel.end) THEN SubSeq(from, 1, end + Len(Marker(sel.end)) - 1) ELSE from
  IN  CASE Given(sel.tail) -> Evidence(Suffix(text, Min({sel.tail, Limit(sel)})), text)
        [] ~Given(sel.tail) /\ (start = 0 \/ (Given(sel.end) /\ end = 0)) -> None
        [] OTHER -> Evidence(Prefix(cut, Limit(sel)), text)
=============================================================================
