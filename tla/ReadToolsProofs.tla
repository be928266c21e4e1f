--------------------------- MODULE ReadToolsProofs ---------------------------
(***************************************************************************)
(* Proofs, for any scenarios, limits, jobs, items, snapshots and objects,  *)
(* of what one call of a read tool returns while what it reads goes on:    *)
(* every variable has its type; complete evidence misses nothing; evidence *)
(* is of the attempt, and of the base and head, that it names; and an      *)
(* archive is inspected whole.                                             *)
(***************************************************************************)
EXTENDS ReadTools, FiniteSetTheorems, SequenceTheorems, TLAPS

-----------------------------------------------------------------------------
(***************************************************************************)
(* Induction.  The induction theorems of the library take the formula that *)
(* is proved as a parameter; these take the set of what satisfies it, and  *)
(* rest on the fact that a finite set is not in bijection with a proper    *)
(* subset of itself: were k the least number outside S, adding 1 would     *)
(* map what S has up to k into itself, and miss 0.                         *)
(***************************************************************************)

LEMMA NatSetInduction ==
  ASSUME NEW S, 0 \in S, \A n \in Nat : n \in S => n + 1 \in S
  PROVE  Nat \subseteq S
<1> SUFFICES ASSUME NEW k \in Nat, k \notin S PROVE FALSE
  OBVIOUS
<1> DEFINE A == {n \in 0..k : n \in S}
           f == [n \in A |-> n + 1]
<1>1. IsFiniteSet(A)
  <2>1. IsFiniteSet(0..k)
    BY FS_Interval
  <2>. QED  BY <2>1, FS_Subset, A \in SUBSET (0..k)
<1>2. \A n \in A : n + 1 \in A
  OBVIOUS
<1>3. f \in [A -> A]
  BY <1>2
<1>4. f \in Injection(A, A)
  BY <1>3 DEF Injection, IsInjective
<1>5. f \in Surjection(A, A)
  <2> HIDE DEF f, A
  <2>. QED  BY <1>1, <1>4, FS_Injection
<1>6. PICK n \in A : f[n] = 0
  BY <1>5, 0 \in A DEF Surjection
<1>. QED  BY <1>6

\* t is s and e behind it.
Extends(t, s, e) == t = Append(s, e)

\* The same for sequences, by their length.
LEMMA SeqSetInduction ==
  ASSUME NEW S, NEW T, <<>> \in T,
         \A s \in Seq(S), e \in S, t \in Seq(S) : s \in T /\ Extends(t, s, e) => t \in T
  PROVE  Seq(S) \subseteq T
<1> DEFINE N == {n \in Nat : \A s \in Seq(S) : Len(s) = n => s \in T}
<1>1. 0 \in N
  BY EmptySeq
<1>2. \A n \in Nat : n \in N => n + 1 \in N
  BY EmptySeq, SequenceEmptyOrAppend, AppendProperties, LenProperties DEF Extends
<1>3. Nat \subseteq N
  <2> HIDE DEF N
  <2>. QED  BY <1>1, <1>2, NatSetInduction
<1>. QED  BY <1>3, LenProperties

\* A function that is defined from its value one below: steps[k] leads to f[k].
Steps(T, n) == [1..n -> [T -> T]]
Runs(f, b, n, steps) == f[0] = b /\ \A k \in 1..n : f[k] = steps[k][f[k - 1]]

\* There is such a function.
LEMMA RecursionExists ==
  ASSUME NEW T, NEW b \in T, NEW n \in Nat, NEW steps \in Steps(T, n)
  PROVE  \E f : f \in [0..n -> T] /\ Runs(f, b, n, steps)
<1> DEFINE N == {m \in Nat : m <= n => \E f : f \in [0..m -> T] /\ Runs(f, b, m, steps)}
<1>1. 0 \in N
  <2>1. [k \in 0..0 |-> b] \in [0..0 -> T] /\ Runs([k \in 0..0 |-> b], b, 0, steps)
    BY DEF Runs
  <2>. QED  BY <2>1
<1>2. \A m \in Nat : m \in N => m + 1 \in N
  <2> SUFFICES ASSUME NEW m \in Nat, m + 1 <= n, NEW f, f \in [0..m -> T], Runs(f, b, m, steps)
               PROVE  \E h : h \in [0..(m + 1) -> T] /\ Runs(h, b, m + 1, steps)
    OBVIOUS
  <2>1. PICK t : t = steps[m + 1][f[m]]
    OBVIOUS
  <2>2. m + 1 \in 1..n /\ f[m] \in T
    OBVIOUS
  <2>3. t \in T
    BY <2>1, <2>2 DEF Steps
  <2>4. PICK h : h = [k \in 0..(m + 1) |-> IF k <= m THEN f[k] ELSE t]
    OBVIOUS
  <2>5. h \in [0..(m + 1) -> T]
    BY <2>3, <2>4
  <2>6. h[0] = b
    BY <2>4 DEF Runs
  <2>7. ASSUME NEW k \in 1..(m + 1) PROVE h[k] = steps[k][h[k - 1]]
    BY <2>4, <2>1 DEF Runs
  <2>8. Runs(h, b, m + 1, steps)
    BY <2>6, <2>7 DEF Runs
  <2>. QED  BY <2>5, <2>8
<1>3. Nat \subseteq N
  <2> HIDE DEF N
  <2>. QED  BY <1>1, <1>2, NatSetInduction
<1>4. n \in N
  BY <1>3
<1>. QED  BY <1>4

\* There is only one.
Alike(f, h, n) == f[0] = h[0] /\ \A k \in 1..n : f[k - 1] = h[k - 1] => f[k] = h[k]

LEMMA RecursionUnique ==
  ASSUME NEW n \in Nat, NEW f, NEW h, Alike(f, h, n)
  PROVE  f[n] = h[n]
<1> DEFINE N == {m \in Nat : m <= n => f[m] = h[m]}
<1>1. 0 \in N
  BY DEF Alike
<1>2. \A m \in Nat : m \in N => m + 1 \in N
  BY DEF Alike
<1>3. Nat \subseteq N
  <2> HIDE DEF N
  <2>. QED  BY <1>1, <1>2, NatSetInduction
<1>4. n \in N
  BY <1>3
<1>. QED  BY <1>4
-----------------------------------------------------------------------------
(***************************************************************************)
(* The operators on sequences: their value on the empty sequence and on    *)
(* one element more, from which the rest follows by induction.             *)
(***************************************************************************)

\* The recursion of KeepOnly.
Keeps(f, s, S, n) ==
  /\ f[0] = <<>>
  /\ \A k \in 1..n : f[k] = IF s[k] \in S THEN Append(f[k - 1], s[k]) ELSE f[k - 1]

HasLen(s, n) == Len(s) = n

LEMMA KeepsExists ==
  ASSUME NEW X, NEW s \in Seq(X), NEW S, NEW n \in Nat, HasLen(s, n)
  PROVE  \E f \in [0..n -> Seq(X)] : Keeps(f, s, S, n)
<1>1. \A t \in Seq(X), k \in 1..n : (IF s[k] \in S THEN Append(t, s[k]) ELSE t) \in Seq(X)
  BY DEF HasLen
<1>2. PICK steps : steps = [k \in 1..n |-> [t \in Seq(X) |-> IF s[k] \in S THEN Append(t, s[k]) ELSE t]]
  OBVIOUS
<1>3. steps \in Steps(Seq(X), n)
  BY <1>1, <1>2 DEF Steps
<1>4. <<>> \in Seq(X)
  OBVIOUS
<1>5. PICK f : f \in [0..n -> Seq(X)] /\ Runs(f, <<>>, n, steps)
  BY <1>3, <1>4, RecursionExists
<1>6. f[0] = <<>>
  BY <1>5 DEF Runs
<1>7. ASSUME NEW k \in 1..n
      PROVE  f[k] = IF s[k] \in S THEN Append(f[k - 1], s[k]) ELSE f[k - 1]
  <2>1. f[k - 1] \in Seq(X)
    BY <1>5
  <2>2. f[k] = steps[k][f[k - 1]]
    BY <1>5 DEF Runs
  <2>. QED  BY <1>2, <2>1, <2>2
<1>8. Keeps(f, s, S, n)
  BY <1>6, <1>7 DEF Keeps
<1>. QED  BY <1>5, <1>8

LEMMA KeepOnlyIs ==
  ASSUME NEW X, NEW s \in Seq(X), NEW S, NEW n \in Nat, HasLen(s, n),
         NEW f \in [0..n -> Seq(X)], Keeps(f, s, S, n)
  PROVE  KeepOnly(s, S) = f[n]
<1> DEFINE Body(g) == [k \in 0..n |->
                         IF k = 0 THEN <<>>
                         ELSE IF s[k] \in S THEN Append(g[k - 1], s[k]) ELSE g[k - 1]]
           kept == CHOOSE g : g = Body(g)
<1>1. f = Body(f)
  <2>1. f = [k \in 0..n |-> f[k]]
    OBVIOUS
  <2>2. \A k \in 0..n : f[k] = IF k = 0 THEN <<>>
                             ELSE IF s[k] \in S THEN Append(f[k - 1], s[k]) ELSE f[k - 1]
    <3>1. \A k \in 0..n : k = 0 \/ k \in 1..n
      OBVIOUS
    <3>. QED  BY <3>1 DEF Keeps
  <2>3. [k \in 0..n |-> f[k]] = Body(f)
    BY <2>2, Zenon
  <2>. QED  BY <2>1, <2>3
<1>2. kept = Body(kept)
  <2> HIDE DEF Body
  <2>. QED  BY <1>1
<1>3. KeepOnly(s, S) = kept[n]
  BY Zenon DEF KeepOnly, HasLen
<1>4. PICK h : h = Body(h) /\ KeepOnly(s, S) = h[n]
  BY <1>2, <1>3
<1>5. Keeps(h, s, S, n)
  <2>1. \A k \in 0..n : h[k] = IF k = 0 THEN <<>>
                             ELSE IF s[k] \in S THEN Append(h[k - 1], s[k]) ELSE h[k - 1]
    BY <1>4
  <2>2. 0 \in 0..n /\ \A k \in 1..n : k \in 0..n /\ k # 0
    OBVIOUS
  <2>. QED  BY <2>1, <2>2, Zenon DEF Keeps
<1>6. Alike(f, h, n)
  BY <1>5 DEF Keeps, Alike
<1>7. f[n] = h[n]
  BY <1>6, RecursionUnique
<1>. QED  BY <1>4, <1>7

\* It leads to the value of KeepOnly.
KeepsTo(f, s, S, n) == Keeps(f, s, S, n) /\ KeepOnly(s, S) = f[n]

LEMMA KeepsValue ==
  ASSUME NEW X, NEW s \in Seq(X), NEW S, NEW n \in Nat, HasLen(s, n)
  PROVE  \E f \in [0..n -> Seq(X)] : KeepsTo(f, s, S, n)
<1>1. PICK f \in [0..n -> Seq(X)] : Keeps(f, s, S, n)
  BY KeepsExists
<1>2. KeepOnly(s, S) = f[n]
  BY <1>1, KeepOnlyIs
<1>. QED  BY <1>1, <1>2 DEF KeepsTo

\* What an element more changes.
LEMMA KeepOnlyStep ==
  ASSUME NEW X, NEW S, NEW s \in Seq(X), NEW e \in X, NEW t \in Seq(X), Extends(t, s, e)
  PROVE  /\ e \in S => Extends(KeepOnly(t, S), KeepOnly(s, S), e)
         /\ e \notin S => KeepOnly(t, S) = KeepOnly(s, S)
<1>1. PICK n \in Nat : HasLen(s, n)
  BY LenProperties DEF HasLen
<1>3. PICK m \in Nat : m = n + 1
  OBVIOUS
<1>10. HasLen(t, m) /\ (\A k \in 1..n : t[k] = s[k]) /\ t[m] = e
  BY <1>1, <1>3, AppendProperties DEF Extends, HasLen
<1>4. PICK f \in [0..n -> Seq(X)] : KeepsTo(f, s, S, n)
  BY <1>1, KeepsValue
<1>5. PICK h \in [0..m -> Seq(X)] : KeepsTo(h, t, S, m)
  BY <1>10, KeepsValue
<1>7. Alike(f, h, n)
  <2>1. \A k \in 1..n : k \in 1..m
    BY <1>3
  <2>. QED  BY <1>10, <1>4, <1>5, <2>1 DEF Keeps, KeepsTo, Alike
<1>8. f[n] = h[n]
  BY <1>7, RecursionUnique
<1>9. h[m] = IF e \in S THEN Append(h[n], e) ELSE h[n]
  <2>1. m \in 1..m /\ m - 1 = n
    BY <1>3
  <2>2. h[m] = IF t[m] \in S THEN Append(h[m - 1], t[m]) ELSE h[m - 1]
    BY <1>5, <2>1 DEF Keeps, KeepsTo
  <2>. QED  BY <1>10, <2>1, <2>2
<1>. QED  BY <1>4, <1>5, <1>8, <1>9 DEF Extends, KeepsTo

LEMMA KeepOnlyAppend ==
  ASSUME NEW X, NEW S
  PROVE  /\ KeepOnly(<<>>, S) = <<>>
         /\ \A s \in Seq(X), e \in X, t \in Seq(X) :
              Extends(t, s, e) =>
                /\ e \in S => Extends(KeepOnly(t, S), KeepOnly(s, S), e)
                /\ e \notin S => KeepOnly(t, S) = KeepOnly(s, S)
<1>1. KeepOnly(<<>>, S) = <<>>
  <2>1. PICK s \in Seq(X), n \in Nat : s = <<>> /\ HasLen(s, n) /\ n = 0
    BY EmptySeq DEF HasLen
  <2>2. PICK f \in [0..n -> Seq(X)] : KeepsTo(f, s, S, n)
    BY <2>1, KeepsValue
  <2>. QED  BY <2>1, <2>2 DEF Keeps, KeepsTo
<1>. QED  BY <1>1, KeepOnlyStep

\* The elements of a sequence.
LEMMA ToSetIs ==
  ASSUME NEW X, NEW s \in Seq(X)
  PROVE  ToSet(s) = {s[k] : k \in 1..Len(s)} /\ ToSet(s) \subseteq X
BY LenProperties DEF ToSet

LEMMA ToSetAppend ==
  ASSUME NEW X
  PROVE  /\ ToSet(<<>>) = {}
         /\ \A s \in Seq(X), e \in X, t \in Seq(X) : Extends(t, s, e) => ToSet(t) = ToSet(s) \cup {e}
<1>1. ToSet(<<>>) = {}
  BY DEF ToSet
<1>2. ASSUME NEW s \in Seq(X), NEW e \in X, NEW t \in Seq(X), Extends(t, s, e)
      PROVE  ToSet(t) = ToSet(s) \cup {e}
  <2>1. PICK n \in Nat : Len(s) = n
    BY LenProperties
  <2>3. Len(t) = n + 1 /\ (\A k \in 1..n : t[k] = s[k]) /\ t[n + 1] = e
    BY <1>2, <2>1, AppendProperties DEF Extends
  <2>4. ToSet(s) = {s[k] : k \in 1..n} /\ ToSet(t) = {t[k] : k \in 1..(n + 1)}
    BY <2>1, <2>3, ToSetIs
  <2>5. \A k \in 1..(n + 1) : k \in 1..n \/ k = n + 1
    OBVIOUS
  <2>6. n + 1 \in 1..(n + 1) /\ \A k \in 1..n : k \in 1..(n + 1)
    OBVIOUS
  <2>7. {t[k] : k \in 1..(n + 1)} = {s[k] : k \in 1..n} \cup {e}
    BY <2>3, <2>5, <2>6
  <2>. QED  BY <2>4, <2>7
<1>. QED  BY <1>1, <1>2

LEMMA ToSetConcat ==
  ASSUME NEW X, NEW s \in Seq(X), NEW t \in Seq(X)
  PROVE  ToSet(s \o t) = ToSet(s) \cup ToSet(t)
<1>1. ToSet(s) = Range(s) /\ ToSet(t) = Range(t) /\ ToSet(s \o t) = Range(s \o t)
  BY Zenon DEF ToSet, Range
<1>. QED  BY <1>1, RangeConcatenation

\* The elements that are kept, and nothing else.
LEMMA KeepOnlyElements ==
  ASSUME NEW X, NEW S, NEW s \in Seq(X)
  PROVE  /\ KeepOnly(s, S) \in Seq(X)
         /\ ToSet(KeepOnly(s, S)) = ToSet(s) \cap S
<1> DEFINE T == {t \in Seq(X) : /\ KeepOnly(t, S) \in Seq(X)
                                /\ ToSet(KeepOnly(t, S)) = ToSet(t) \cap S}
<1>1. <<>> \in T
  BY KeepOnlyAppend, ToSetAppend, EmptySeq
<1>2. \A t \in Seq(X), e \in X, u \in Seq(X) : t \in T /\ Extends(u, t, e) => u \in T
  <2> SUFFICES ASSUME NEW t \in Seq(X), NEW e \in X, NEW u \in Seq(X), Extends(u, t, e),
                      NEW k \in Seq(X), KeepOnly(t, S) = k, ToSet(k) = ToSet(t) \cap S
               PROVE  KeepOnly(u, S) \in Seq(X) /\ ToSet(KeepOnly(u, S)) = ToSet(u) \cap S
    OBVIOUS
  <2> HIDE DEF T
  <2>1. ToSet(u) = ToSet(t) \cup {e}
    BY ToSetAppend
  <2>2. CASE e \in S
    <3>1. Extends(KeepOnly(u, S), KeepOnly(t, S), e)
      BY <2>2, KeepOnlyAppend
    <3>2. PICK l \in Seq(X) : KeepOnly(u, S) = l /\ Extends(l, k, e)
      BY <3>1, AppendProperties DEF Extends
    <3>3. ToSet(l) = ToSet(k) \cup {e}
      BY <3>2, ToSetAppend
    <3>. QED  BY <2>1, <2>2, <3>2, <3>3
  <2>3. CASE e \notin S
    <3>1. KeepOnly(u, S) = KeepOnly(t, S)
      BY <2>3, KeepOnlyAppend
    <3>. QED  BY <2>1, <2>3, <3>1
  <2>. QED  BY <2>2, <2>3
<1>3. Seq(X) \subseteq T
  <2> HIDE DEF T
  <2>. QED  BY <1>1, <1>2, SeqSetInduction
<1>. QED  BY <1>3
-----------------------------------------------------------------------------
(* Sequences of sequences, one behind the other. *)

\* The recursion of FlattenSeq, with the empty sequence before the first.
Joins(f, ss, n) == f[0] = <<>> /\ \A k \in 1..n : f[k] = f[k - 1] \o ss[k]

LEMMA JoinsExists ==
  ASSUME NEW X, NEW ss \in Seq(Seq(X)), NEW n \in Nat, HasLen(ss, n)
  PROVE  \E f : f \in [0..n -> Seq(X)] /\ Joins(f, ss, n)
<1>1. \A t \in Seq(X), k \in 1..n : t \o ss[k] \in Seq(X)
  BY DEF HasLen
<1>2. PICK steps : steps = [k \in 1..n |-> [t \in Seq(X) |-> t \o ss[k]]]
  OBVIOUS
<1>3. steps \in Steps(Seq(X), n)
  BY <1>1, <1>2 DEF Steps
<1>4. <<>> \in Seq(X)
  OBVIOUS
<1>5. PICK f : f \in [0..n -> Seq(X)] /\ Runs(f, <<>>, n, steps)
  BY <1>3, <1>4, RecursionExists
<1>6. f[0] = <<>>
  BY <1>5 DEF Runs
<1>7. ASSUME NEW k \in 1..n PROVE f[k] = f[k - 1] \o ss[k]
  <2>1. f[k - 1] \in Seq(X)
    BY <1>5
  <2>2. f[k] = steps[k][f[k - 1]]
    BY <1>5 DEF Runs
  <2>. QED  BY <1>2, <2>1, <2>2
<1>8. Joins(f, ss, n)
  BY <1>6, <1>7 DEF Joins
<1>. QED  BY <1>5, <1>8

LEMMA FlattenIs ==
  ASSUME NEW X, NEW ss \in Seq(Seq(X)), NEW n \in Nat, HasLen(ss, n),
         NEW f, f \in [0..n -> Seq(X)], Joins(f, ss, n)
  PROVE  FlattenSeq(ss) = f[n]
<1>1. CASE n = 0
  BY <1>1, EmptySeq DEF HasLen, FlattenSeq, Joins
<1>2. CASE n # 0
  <2> DEFINE Body(g) == [i \in 1..n |-> IF i = 1 THEN ss[i] ELSE g[i - 1] \o ss[i]]
             flatten == CHOOSE g : g = Body(g)
  <2>1. PICK e : e = [i \in 1..n |-> f[i]]
    OBVIOUS
  <2>2. \A i \in 1..n : e[i] = IF i = 1 THEN ss[i] ELSE e[i - 1] \o ss[i]
    <3> SUFFICES ASSUME NEW i \in 1..n PROVE e[i] = IF i = 1 THEN ss[i] ELSE e[i - 1] \o ss[i]
      OBVIOUS
    <3>1. e[i] = f[i] /\ f[i] = f[i - 1] \o ss[i] /\ ss[i] \in Seq(X)
      <4>1. e[i] = f[i]
        BY <2>1
      <4>2. f[i] = f[i - 1] \o ss[i]
        BY DEF Joins
      <4>3. ss[i] \in Seq(X)
        BY DEF HasLen
      <4>. QED  BY <4>1, <4>2, <4>3
    <3>2. CASE i = 1
      <4>1. f[i - 1] = <<>>
        BY <3>2 DEF Joins
      <4>2. <<>> \o ss[i] = ss[i]
        BY <3>1, ConcatEmptySeq
      <4>. QED  BY <3>1, <3>2, <4>1, <4>2
    <3>3. CASE i # 1
      <4>1. i - 1 \in 1..n
        BY <3>3
      <4>2. e[i - 1] = f[i - 1]
        BY <2>1, <4>1
      <4>. QED  BY <3>1, <3>3, <4>2
    <3>. QED  BY <3>2, <3>3
  <2>3. e = Body(e)
    BY <2>1, <2>2
  <2>4. flatten = Body(flatten)
    <3> HIDE DEF Body
    <3>. QED  BY <2>3
  <2>5. FlattenSeq(ss) = flatten[n]
    BY <1>2 DEF HasLen, FlattenSeq
  <2>6. PICK h : h = Body(h) /\ FlattenSeq(ss) = h[n]
    BY <2>4, <2>5
  <2>7. \A i \in 1..n : h[i] = IF i = 1 THEN ss[i] ELSE h[i - 1] \o ss[i]
    BY <2>6
  <2>8. PICK d : d = [k \in 0..n |-> IF k = 0 THEN <<>> ELSE h[k]]
    OBVIOUS
  <2>9. ASSUME NEW k \in 1..n, f[k - 1] = d[k - 1] PROVE f[k] = d[k]
    <3>1. d[k] = h[k] /\ f[k] = f[k - 1] \o ss[k] /\ ss[k] \in Seq(X)
      <4>1. d[k] = h[k]
        BY <2>8
      <4>2. f[k] = f[k - 1] \o ss[k]
        BY DEF Joins
      <4>3. ss[k] \in Seq(X)
        BY DEF HasLen
      <4>. QED  BY <4>1, <4>2, <4>3
    <3>2. CASE k = 1
      <4>1. f[k - 1] = <<>>
        BY <3>2 DEF Joins
      <4>2. <<>> \o ss[k] = ss[k]
        BY <3>1, ConcatEmptySeq
      <4>. QED  BY <2>7, <3>1, <3>2, <4>1, <4>2
    <3>3. CASE k # 1
      <4>1. k - 1 \in 0..n /\ k - 1 # 0
        BY <3>3
      <4>2. d[k - 1] = h[k - 1]
        BY <2>8, <4>1
      <4>. QED  BY <2>7, <2>9, <3>1, <3>3, <4>2
    <3>. QED  BY <3>2, <3>3
  <2>10. Alike(f, d, n)
    <3>1. f[0] = d[0]
      BY <2>8 DEF Joins
    <3>. QED  BY <2>9, <3>1 DEF Alike
  <2>11. f[n] = d[n]
    BY <2>10, RecursionUnique
  <2>. QED  BY <1>2, <2>6, <2>8, <2>11
<1>. QED  BY <1>1, <1>2

LEMMA FlattenAppend ==
  ASSUME NEW X
  PROVE  /\ FlattenSeq(<<>>) = <<>>
         /\ \A ss \in Seq(Seq(X)), s \in Seq(X), tt \in Seq(Seq(X)) :
              Extends(tt, ss, s) => FlattenSeq(tt) = FlattenSeq(ss) \o s
<1>1. FlattenSeq(<<>>) = <<>>
  BY DEF FlattenSeq
<1>2. ASSUME NEW ss \in Seq(Seq(X)), NEW s \in Seq(X), NEW tt \in Seq(Seq(X)), Extends(tt, ss, s)
      PROVE  FlattenSeq(tt) = FlattenSeq(ss) \o s
  <2>1. PICK n \in Nat : HasLen(ss, n)
    BY LenProperties DEF HasLen
  <2>2. PICK m \in Nat : m = n + 1
    OBVIOUS
  <2>3. HasLen(tt, m) /\ (\A k \in 1..n : tt[k] = ss[k]) /\ tt[m] = s
    BY <1>2, <2>1, <2>2, AppendProperties DEF Extends, HasLen
  <2>4. PICK f : f \in [0..n -> Seq(X)] /\ Joins(f, ss, n)
    BY <2>1, JoinsExists
  <2>5. PICK h : h \in [0..m -> Seq(X)] /\ Joins(h, tt, m)
    BY <2>3, JoinsExists
  <2>6. FlattenSeq(ss) = f[n]
    BY <2>1, <2>4, FlattenIs
  <2>7. FlattenSeq(tt) = h[m]
    BY <2>3, <2>5, FlattenIs
  <2>8. Alike(f, h, n)
    <3>1. \A k \in 1..n : k \in 1..m
      BY <2>2
    <3>. QED  BY <2>3, <2>4, <2>5, <3>1 DEF Joins, Alike
  <2>9. f[n] = h[n]
    BY <2>8, RecursionUnique
  <2>10. h[m] = h[n] \o s
    <3>1. m \in 1..m /\ m - 1 = n
      BY <2>2
    <3>. QED  BY <2>3, <2>5, <3>1 DEF Joins
  <2>. QED  BY <2>6, <2>7, <2>9, <2>10
<1>. QED  BY <1>1, <1>2
-----------------------------------------------------------------------------
(* Sequences in an order. *)

LEMMA InsertElements ==
  ASSUME NEW X, NEW s \in Seq(X), NEW x \in X, NEW R
  PROVE  /\ Insert(s, x, R) \in Seq(X)
         /\ ToSet(Insert(s, x, R)) = ToSet(s) \cup {x}
<1> DEFINE K == {k \in DOMAIN s : <<s[k], x>> \in R}
<1>1. PICK m \in Nat : HasLen(s, m)
  BY LenProperties DEF HasLen
<1>2. K \subseteq 1..m /\ DOMAIN s = 1..m
  BY <1>1, LenProperties DEF HasLen
<1>3. IsFiniteSet(1..m) /\ Cardinality(1..m) = m
  BY FS_Interval
<1>4. PICK n \in Nat : n = Cardinality(K) /\ n <= m
  <2> HIDE DEF K
  <2>1. IsFiniteSet(K) /\ Cardinality(K) <= Cardinality(1..m)
    BY <1>2, <1>3, FS_Subset
  <2>2. Cardinality(K) \in Nat
    BY <2>1, FS_CardinalityType
  <2>. QED  BY <1>3, <2>1, <2>2
<1>5. PICK a, b, u : a = SubSeq(s, 1, n) /\ b = SubSeq(s, n + 1, m) /\ u = <<x>>
  OBVIOUS
<1>6. Insert(s, x, R) = (a \o u) \o b
  BY <1>1, <1>4, <1>5 DEF HasLen, Insert
<1>7. a \in Seq(X) /\ b \in Seq(X) /\ u \in Seq(X) /\ a \o u \in Seq(X)
  <2>1. \A k \in 1..m : s[k] \in X
    BY <1>1, ElementOfSeq DEF HasLen
  <2>2. SubSeq(s, 1, n) \in Seq(X)
    <3>1. 1 \in Int /\ n \in Int /\ \A k \in 1..n : k \in 1..m
      <4>1. n <= m
        BY <1>4
      <4>. QED  BY <4>1
    <3>2. \A k \in 1..n : s[k] \in X
      BY <2>1, <3>1
    <3>. QED  BY <3>1, <3>2, SubSeqProperties
  <2>3. SubSeq(s, n + 1, m) \in Seq(X)
    BY <2>1, SubSeqProperties
  <2>4. <<x>> \in Seq(X)
    OBVIOUS
  <2>5. a \in Seq(X) /\ u \in Seq(X)
    BY <1>5, <2>2, <2>4
  <2>. QED  BY <1>5, <2>2, <2>3, <2>4, <2>5, ConcatProperties
<1>8. Insert(s, x, R) \in Seq(X)
  BY <1>6, <1>7, ConcatProperties
<1>9. a \o b = s
  <2>1. 1 \in 1..(m + 1) /\ n \in 0..m /\ m \in n..m
    BY <1>4
  <2>2. CASE m = 0
    BY <1>1, <1>4, <2>2, <1>5, EmptySeq, SubSeqEmpty DEF HasLen
  <2>3. CASE m # 0
    <3>1. SubSeq(s, 1, n) \o SubSeq(s, n + 1, m) = SubSeq(s, 1, m)
      BY <1>1, <2>1, ConcatAdjacentSubSeq DEF HasLen
    <3>2. SubSeq(s, 1, m) = s
      BY <1>1, SubSeqFull DEF HasLen
    <3>. QED  BY <1>5, <3>1, <3>2
  <2>. QED  BY <2>2, <2>3
<1>10. ToSet(s) = ToSet(a) \cup ToSet(b)
  BY <1>7, <1>9, ToSetConcat
<1>11. ToSet(u) = {x}
  BY <1>5 DEF ToSet
<1>12. ToSet(a \o u) = ToSet(a) \cup ToSet(u)
  BY <1>7, ToSetConcat
<1>13. PICK v \in Seq(X) : v = a \o u
  BY <1>7
<1>14. ToSet(v \o b) = ToSet(v) \cup ToSet(b)
  BY <1>7, ToSetConcat
<1>. QED  BY <1>6, <1>8, <1>10, <1>11, <1>12, <1>13, <1>14

\* The recursion of Sorted.
Sorts(f, s, R, n) == f[0] = <<>> /\ \A k \in 1..n : f[k] = Insert(f[k - 1], s[k], R)

LEMMA SortsExists ==
  ASSUME NEW X, NEW s \in Seq(X), NEW R, NEW n \in Nat, HasLen(s, n)
  PROVE  \E f \in [0..n -> Seq(X)] : Sorts(f, s, R, n)
<1>1. \A t \in Seq(X), k \in 1..n : Insert(t, s[k], R) \in Seq(X)
  BY InsertElements DEF HasLen
<1>2. PICK steps : steps = [k \in 1..n |-> [t \in Seq(X) |-> Insert(t, s[k], R)]]
  OBVIOUS
<1>3. steps \in Steps(Seq(X), n)
  BY <1>1, <1>2 DEF Steps
<1>4. <<>> \in Seq(X)
  OBVIOUS
<1>5. PICK f : f \in [0..n -> Seq(X)] /\ Runs(f, <<>>, n, steps)
  BY <1>3, <1>4, RecursionExists
<1>6. f[0] = <<>>
  BY <1>5 DEF Runs
<1>7. ASSUME NEW k \in 1..n PROVE f[k] = Insert(f[k - 1], s[k], R)
  <2>1. f[k - 1] \in Seq(X)
    BY <1>5
  <2>2. f[k] = steps[k][f[k - 1]]
    BY <1>5 DEF Runs
  <2>. QED  BY <1>2, <2>1, <2>2
<1>8. Sorts(f, s, R, n)
  BY <1>6, <1>7 DEF Sorts
<1>. QED  BY <1>5, <1>8

LEMMA SortedIs ==
  ASSUME NEW X, NEW s \in Seq(X), NEW R, NEW n \in Nat, HasLen(s, n),
         NEW f \in [0..n -> Seq(X)], Sorts(f, s, R, n)
  PROVE  Sorted(s, R) = f[n]
<1> DEFINE Body(g) == [k \in 0..n |-> IF k = 0 THEN <<>> ELSE Insert(g[k - 1], s[k], R)]
           sorted == CHOOSE g : g = Body(g)
<1>1. f = Body(f)
  BY DEF Sorts
<1>2. sorted = Body(sorted)
  <2> HIDE DEF Body
  <2>. QED  BY <1>1
<1>3. Sorted(s, R) = sorted[n]
  BY Zenon DEF Sorted, HasLen
<1>4. PICK h : h = Body(h) /\ Sorted(s, R) = h[n]
  BY <1>2, <1>3
<1>5. Sorts(h, s, R, n)
  <2>1. \A k \in 0..n : h[k] = IF k = 0 THEN <<>> ELSE Insert(h[k - 1], s[k], R)
    BY <1>4
  <2>2. 0 \in 0..n /\ \A k \in 1..n : k \in 0..n /\ k # 0
    OBVIOUS
  <2>. QED  BY <2>1, <2>2, Zenon DEF Sorts
<1>6. Alike(f, h, n)
  BY <1>5 DEF Sorts, Alike
<1>7. f[n] = h[n]
  BY <1>6, RecursionUnique
<1>. QED  BY <1>4, <1>7

\* It leads to the value of Sorted.
SortsTo(f, s, R, n) == Sorts(f, s, R, n) /\ Sorted(s, R) = f[n]

LEMMA SortsValue ==
  ASSUME NEW X, NEW s \in Seq(X), NEW R, NEW n \in Nat, HasLen(s, n)
  PROVE  \E f \in [0..n -> Seq(X)] : SortsTo(f, s, R, n)
<1>1. PICK f \in [0..n -> Seq(X)] : Sorts(f, s, R, n)
  BY SortsExists
<1>2. Sorted(s, R) = f[n]
  BY <1>1, SortedIs
<1>. QED  BY <1>1, <1>2 DEF SortsTo

LEMMA SortedAppend ==
  ASSUME NEW X, NEW R
  PROVE  /\ Sorted(<<>>, R) = <<>>
         /\ \A s \in Seq(X), e \in X, t \in Seq(X) :
              Extends(t, s, e) => Sorted(t, R) = Insert(Sorted(s, R), e, R)
<1>1. Sorted(<<>>, R) = <<>>
  <2>1. PICK s \in Seq(X), n \in Nat : s = <<>> /\ HasLen(s, n) /\ n = 0
    BY EmptySeq DEF HasLen
  <2>2. PICK f \in [0..n -> Seq(X)] : SortsTo(f, s, R, n)
    BY <2>1, SortsValue
  <2>. QED  BY <2>1, <2>2 DEF Sorts, SortsTo
<1>2. ASSUME NEW s \in Seq(X), NEW e \in X, NEW t \in Seq(X), Extends(t, s, e)
      PROVE  Sorted(t, R) = Insert(Sorted(s, R), e, R)
  <2>1. PICK n \in Nat : HasLen(s, n)
    BY LenProperties DEF HasLen
  <2>2. PICK m \in Nat : m = n + 1
    OBVIOUS
  <2>3. HasLen(t, m) /\ (\A k \in 1..n : t[k] = s[k]) /\ t[m] = e
    BY <1>2, <2>1, <2>2, AppendProperties DEF Extends, HasLen
  <2>4. PICK f \in [0..n -> Seq(X)] : SortsTo(f, s, R, n)
    BY <2>1, SortsValue
  <2>5. PICK h \in [0..m -> Seq(X)] : SortsTo(h, t, R, m)
    BY <2>3, SortsValue
  <2>8. Alike(f, h, n)
    BY <2>2, <2>3, <2>4, <2>5 DEF Sorts, SortsTo, Alike
  <2>9. f[n] = h[n]
    BY <2>8, RecursionUnique
  <2>10. h[m] = Insert(h[n], e, R)
    <3>1. Sorts(h, t, R, m)
      BY <2>5 DEF SortsTo
    <3>2. m \in 1..m /\ m - 1 = n
      BY <2>2
    <3>. QED  BY <2>3, <3>1, <3>2 DEF Sorts
  <2>. QED  BY <2>4, <2>5, <2>9, <2>10 DEF SortsTo
<1>. QED  BY <1>1, <1>2

\* Sorting keeps the elements.
LEMMA SortedElements ==
  ASSUME NEW X, NEW s \in Seq(X), NEW R
  PROVE  Sorted(s, R) \in Seq(X) /\ ToSet(Sorted(s, R)) = ToSet(s)
<1> DEFINE T == {t \in Seq(X) : Sorted(t, R) \in Seq(X) /\ ToSet(Sorted(t, R)) = ToSet(t)}
<1>1. <<>> \in T
  BY SortedAppend, EmptySeq
<1>2. \A t \in Seq(X), e \in X, u \in Seq(X) : t \in T /\ Extends(u, t, e) => u \in T
  <2> SUFFICES ASSUME NEW t \in Seq(X), NEW e \in X, NEW u \in Seq(X), Extends(u, t, e),
                      NEW k \in Seq(X), Sorted(t, R) = k, ToSet(k) = ToSet(t)
               PROVE  Sorted(u, R) \in Seq(X) /\ ToSet(Sorted(u, R)) = ToSet(u)
    OBVIOUS
  <2> HIDE DEF T
  <2>1. ToSet(u) = ToSet(t) \cup {e}
    BY ToSetAppend
  <2>2. Sorted(u, R) = Insert(Sorted(t, R), e, R)
    BY SortedAppend
  <2>3. Insert(k, e, R) \in Seq(X) /\ ToSet(Insert(k, e, R)) = ToSet(k) \cup {e}
    BY InsertElements
  <2>. QED  BY <2>1, <2>2, <2>3
<1>3. Seq(X) \subseteq T
  <2> HIDE DEF T
  <2>. QED  BY <1>1, <1>2, SeqSetInduction
<1>. QED  BY <1>3
-----------------------------------------------------------------------------
(* Decoding. *)

Byte == Char \X (1..4)

\* Byte k is the last of a character that is there whole.
EndsAt(b, k) == b[2] = Width[b[1]] /\ k >= Width[b[1]]

\* The recursion of Decode.
Decodes(f, s, n) ==
  /\ f[0] = <<>>
  /\ \A k \in 1..n : f[k] = IF EndsAt(s[k], k) THEN Append(f[k - 1], s[k][1]) ELSE f[k - 1]

LEMMA DecodesExists ==
  ASSUME NEW s \in Seq(Byte), NEW n \in Nat, HasLen(s, n)
  PROVE  \E f : f \in [0..n -> Seq(Char)] /\ Decodes(f, s, n)
<1>1. \A t \in Seq(Char), k \in 1..n :
        (IF EndsAt(s[k], k) THEN Append(t, s[k][1]) ELSE t) \in Seq(Char)
  BY DEF HasLen, Byte
<1>2. PICK steps : steps = [k \in 1..n |-> [t \in Seq(Char) |->
                             IF EndsAt(s[k], k) THEN Append(t, s[k][1]) ELSE t]]
  OBVIOUS
<1>3. steps \in Steps(Seq(Char), n)
  BY <1>1, <1>2 DEF Steps
<1>4. <<>> \in Seq(Char)
  OBVIOUS
<1>5. PICK f : f \in [0..n -> Seq(Char)] /\ Runs(f, <<>>, n, steps)
  BY <1>3, <1>4, RecursionExists
<1>6. f[0] = <<>>
  BY <1>5 DEF Runs
<1>7. ASSUME NEW k \in 1..n
      PROVE  f[k] = IF EndsAt(s[k], k) THEN Append(f[k - 1], s[k][1]) ELSE f[k - 1]
  <2>1. f[k - 1] \in Seq(Char)
    BY <1>5
  <2>2. f[k] = steps[k][f[k - 1]]
    BY <1>5 DEF Runs
  <2>. QED  BY <1>2, <2>1, <2>2
<1>8. Decodes(f, s, n)
  BY <1>6, <1>7 DEF Decodes
<1>. QED  BY <1>5, <1>8

LEMMA DecodeIs ==
  ASSUME NEW s \in Seq(Byte), NEW n \in Nat, HasLen(s, n),
         NEW f, f \in [0..n -> Seq(Char)], Decodes(f, s, n)
  PROVE  Decode(s) = f[n]
<1> DEFINE Body(g) == [k \in 0..n |-> IF k = 0 THEN <<>>
                         ELSE IF EndsAt(s[k], k) THEN Append(g[k - 1], s[k][1]) ELSE g[k - 1]]
           whole == CHOOSE g : g = Body(g)
<1>1. f = Body(f)
  <2>1. f = [k \in 0..n |-> f[k]]
    OBVIOUS
  <2>2. \A k \in 0..n : f[k] = IF k = 0 THEN <<>>
                         ELSE IF EndsAt(s[k], k) THEN Append(f[k - 1], s[k][1]) ELSE f[k - 1]
    <3>1. \A k \in 0..n : k = 0 \/ k \in 1..n
      OBVIOUS
    <3>. QED  BY <3>1 DEF Decodes
  <2>3. [k \in 0..n |-> f[k]] = Body(f)
    BY <2>2, Zenon
  <2>. QED  BY <2>1, <2>3
<1>2. whole = Body(whole)
  <2> HIDE DEF Body
  <2>. QED  BY <1>1
<1>3. Decode(s) = whole[n]
  BY Zenon DEF Decode, HasLen, EndsAt
<1>4. PICK h : h = Body(h) /\ Decode(s) = h[n]
  BY <1>2, <1>3
<1>5. Decodes(h, s, n)
  <2>1. \A k \in 0..n : h[k] = IF k = 0 THEN <<>>
                         ELSE IF EndsAt(s[k], k) THEN Append(h[k - 1], s[k][1]) ELSE h[k - 1]
    BY <1>4
  <2>2. 0 \in 0..n /\ \A k \in 1..n : k \in 0..n /\ k # 0
    OBVIOUS
  <2>. QED  BY <2>1, <2>2, Zenon DEF Decodes
<1>6. Alike(f, h, n)
  BY <1>5 DEF Decodes, Alike
<1>7. f[n] = h[n]
  BY <1>6, RecursionUnique
<1>. QED  BY <1>4, <1>7

\* A byte more completes a character, or does not.
LEMMA DecodeAppend ==
  /\ Decode(<<>>) = <<>>
  /\ \A s \in Seq(Byte), b \in Byte, t \in Seq(Byte) :
       Extends(t, s, b) =>
         /\ EndsAt(b, Len(s) + 1) => Extends(Decode(t), Decode(s), b[1])
         /\ ~EndsAt(b, Len(s) + 1) => Decode(t) = Decode(s)
<1>1. Decode(<<>>) = <<>>
  <2>1. PICK s \in Seq(Byte), n \in Nat : s = <<>> /\ HasLen(s, n) /\ n = 0
    BY EmptySeq DEF HasLen
  <2>2. PICK f : f \in [0..n -> Seq(Char)] /\ Decodes(f, s, n)
    BY <2>1, DecodesExists
  <2>3. HasLen(s, n)
    BY <2>1
  <2>4. Decode(s) = f[n]
    BY <2>2, <2>3, DecodeIs
  <2>. QED  BY <2>1, <2>2, <2>4 DEF Decodes
<1>2. ASSUME NEW s \in Seq(Byte), NEW b \in Byte, NEW t \in Seq(Byte), Extends(t, s, b)
      PROVE  /\ EndsAt(b, Len(s) + 1) => Extends(Decode(t), Decode(s), b[1])
             /\ ~EndsAt(b, Len(s) + 1) => Decode(t) = Decode(s)
  <2>1. PICK n \in Nat : HasLen(s, n)
    BY LenProperties DEF HasLen
  <2>2. PICK m \in Nat : m = n + 1
    OBVIOUS
  <2>3. HasLen(t, m) /\ (\A k \in 1..n : t[k] = s[k]) /\ t[m] = b
    BY <1>2, <2>1, <2>2, AppendProperties DEF Extends, HasLen
  <2>4. PICK f : f \in [0..n -> Seq(Char)] /\ Decodes(f, s, n)
    BY <2>1, DecodesExists
  <2>5. PICK h : h \in [0..m -> Seq(Char)] /\ Decodes(h, t, m)
    BY <2>3, DecodesExists
  <2>6. Decode(s) = f[n]
    BY <2>1, <2>4, DecodeIs
  <2>7. Decode(t) = h[m]
    BY <2>3, <2>5, DecodeIs
  <2>8. Alike(f, h, n)
    <3>1. \A k \in 1..n : k \in 1..m
      BY <2>2
    <3>. QED  BY <2>3, <2>4, <2>5, <3>1 DEF Decodes, Alike
  <2>9. f[n] = h[n]
    BY <2>8, RecursionUnique
  <2>10. h[m] = IF EndsAt(b, m) THEN Append(h[n], b[1]) ELSE h[n]
    BY <2>2, <2>3, <2>5 DEF Decodes
  <2>11. Len(s) + 1 = m
    BY <2>1, <2>2 DEF HasLen
  <2>. QED  BY <2>6, <2>7, <2>9, <2>10, <2>11 DEF Extends
<1>. QED  BY <1>1, <1>2

LEMMA DecodeType ==
  ASSUME NEW s \in Seq(Byte)
  PROVE  Decode(s) \in Seq(Char)
<1> DEFINE T == {t \in Seq(Byte) : Decode(t) \in Seq(Char)}
<1>1. <<>> \in T
  BY EmptySeq, DecodeAppend
<1>2. \A t \in Seq(Byte), e \in Byte, u \in Seq(Byte) : t \in T /\ Extends(u, t, e) => u \in T
  <2> SUFFICES ASSUME NEW t \in Seq(Byte), NEW e \in Byte, NEW u \in Seq(Byte), Extends(u, t, e),
                      NEW k \in Seq(Char), Decode(t) = k
               PROVE  Decode(u) \in Seq(Char)
    OBVIOUS
  <2> HIDE DEF T
  <2>1. e[1] \in Char
    BY DEF Byte
  <2>2. Extends(Decode(u), Decode(t), e[1]) \/ Decode(u) = Decode(t)
    BY DecodeAppend
  <2>3. Extends(Decode(u), k, e[1]) \/ Decode(u) = k
    BY <2>2
  <2>4. Append(k, e[1]) \in Seq(Char)
    BY <2>1, AppendProperties
  <2>. QED  BY <2>3, <2>4 DEF Extends
<1>3. Seq(Byte) \subseteq T
  <2> HIDE DEF T
  <2>. QED  BY <1>1, <1>2, SeqSetInduction
<1>. QED  BY <1>3
-----------------------------------------------------------------------------
(* Text that is shown, and text that is encoded. *)

Associative(X) == \A x, y, z \in Seq(X) : (x \o y) \o z = x \o (y \o z)

LEMMA ConcatIsAssociative ==
  ASSUME NEW X
  PROVE  Associative(X)
BY ConcatAssociative DEF Associative

LEMMA ExtendsConcat ==
  ASSUME NEW X, NEW s \in Seq(X), NEW t \in Seq(X), NEW e \in X, NEW u \in Seq(X), Extends(u, t, e)
  PROVE  Extends(s \o u, s \o t, e)
<1>1. PICK one \in Seq(X) : one = <<e>>
  <2>1. <<e>> \in Seq(X)
    OBVIOUS
  <2>. QED  BY <2>1
<1>2. u = t \o one
  BY <1>1, AppendIsConcat DEF Extends
<1>3. s \o (t \o one) = (s \o t) \o one
  BY <1>1, ConcatIsAssociative DEF Associative
<1>4. PICK v \in Seq(X) : v = s \o t
  BY ConcatProperties
<1>5. Append(v, e) = v \o one
  BY <1>1, AppendIsConcat
<1>. QED  BY <1>2, <1>3, <1>4, <1>5 DEF Extends

\* A function of each element.
Mapped(a, s, f) == a = [k \in DOMAIN s |-> f[s[k]]]

LEMMA MapExtends ==
  ASSUME NEW X, NEW Y, NEW f \in [X -> Y],
         NEW s \in Seq(X), NEW e \in X, NEW t \in Seq(X), Extends(t, s, e),
         NEW a, NEW b, Mapped(a, s, f), Mapped(b, t, f)
  PROVE  Extends(b, a, f[e])
<1>1. PICK n \in Nat : n = Len(s) /\ DOMAIN s = 1..n /\ \A k \in 1..n : s[k] \in X
  BY LenProperties
<1>2. Len(t) = n + 1 /\ DOMAIN t = 1..(n + 1) /\ (\A k \in 1..n : t[k] = s[k]) /\ t[n + 1] = e
  BY <1>1, AppendProperties, LenProperties DEF Extends
<1>3. a = [k \in DOMAIN s |-> f[s[k]]] /\ b = [k \in DOMAIN t |-> f[t[k]]]
  BY DEF Mapped
<1>4. a \in Seq(Y) /\ Len(a) = n
  BY <1>1, <1>3
<1>5. b \in Seq(Y) /\ Len(b) = n + 1
  BY <1>1, <1>2, <1>3
<1>6. PICK c \in Seq(Y) : c = Append(a, f[e])
  BY <1>4, AppendProperties
<1>7. Len(c) = n + 1 /\ (\A k \in 1..n : c[k] = a[k]) /\ c[n + 1] = f[e]
  BY <1>4, <1>6, AppendProperties
<1>8. \A k \in 1..(n + 1) : b[k] = c[k]
  <2> SUFFICES ASSUME NEW k \in 1..(n + 1) PROVE b[k] = c[k]
    OBVIOUS
  <2>1. b[k] = f[t[k]]
    BY <1>2, <1>3
  <2>2. CASE k \in 1..n
    BY <1>1, <1>3, <2>2, <1>2, <1>7, <2>1
  <2>3. CASE k = n + 1
    BY <1>2, <1>7, <2>1, <2>3
  <2>. QED  BY <2>2, <2>3
<1>9. b = c
  BY <1>5, <1>7, <1>8, SeqEqual
<1>. QED  BY <1>6, <1>9 DEF Extends

LEMMA MapType ==
  ASSUME NEW X, NEW Y, NEW f \in [X -> Y], NEW s \in Seq(X), NEW a, Mapped(a, s, f)
  PROVE  a \in Seq(Y)
BY LenProperties DEF Mapped

\* What is shown of each character, and the bytes of each.
LEMMA InertAppend ==
  /\ Inert(<<>>) = <<>>
  /\ \A s \in Seq(Char), c \in Char, t \in Seq(Char) :
       Extends(t, s, c) => Inert(t) = Inert(s) \o Visible[c]
<1>1. PICK Y : Y = Seq(Char) /\ Visible \in [Char -> Y]
  BY LogAssumption
<1>2. Inert(<<>>) = <<>>
  BY <1>1, EmptySeq, MapType, LenProperties, FlattenAppend DEF Mapped, Inert
<1>3. ASSUME NEW s \in Seq(Char), NEW c \in Char, NEW t \in Seq(Char), Extends(t, s, c)
      PROVE  Inert(t) = Inert(s) \o Visible[c]
  <2>1. PICK a, b : Mapped(a, s, Visible) /\ Mapped(b, t, Visible)
    BY DEF Mapped
  <2>2. a \in Seq(Seq(Char)) /\ b \in Seq(Seq(Char))
    BY <1>1, <2>1, MapType
  <2>3. Extends(b, a, Visible[c])
    BY <1>1, <1>3, <2>1, MapExtends
  <2>4. Visible[c] \in Seq(Char)
    BY <1>1
  <2>5. FlattenSeq(b) = FlattenSeq(a) \o Visible[c]
    BY <2>2, <2>3, <2>4, FlattenAppend
  <2>6. Inert(t) = FlattenSeq(b) /\ Inert(s) = FlattenSeq(a)
    BY <2>1, Zenon DEF Inert, Mapped
  <2>. QED  BY <2>5, <2>6
<1>. QED  BY <1>2, <1>3

Widths == [c \in Char |-> Beginning(c, Width[c])]

LEMMA BeginningType ==
  ASSUME NEW c \in Char, NEW n \in 0..4
  PROVE  /\ Beginning(c, n) \in Seq(Byte) /\ Len(Beginning(c, n)) = n
         /\ \A k \in 1..n : Beginning(c, n)[k] = <<c, k>>
BY DEF Beginning, Byte

LEMMA WidthsType == Widths \in [Char -> Seq(Byte)]
<1>1. \A c \in Char : Width[c] \in 0..4
  BY LogAssumption
<1>2. \A c \in Char : Beginning(c, Width[c]) \in Seq(Byte)
  BY <1>1, BeginningType
<1>. QED  BY <1>2 DEF Widths

LEMMA EncodeAppend ==
  /\ Encode(<<>>) = <<>>
  /\ \A s \in Seq(Char), c \in Char, t \in Seq(Char) :
       Extends(t, s, c) => Encode(t) = Encode(s) \o Beginning(c, Width[c])
<1>1. PICK Y : Y = Seq(Byte) /\ Widths \in [Char -> Y]
  BY WidthsType
<1>2. ASSUME NEW s \in Seq(Char) PROVE Encode(s) = FlattenSeq([k \in DOMAIN s |-> Widths[s[k]]])
  BY LenProperties DEF Widths, Encode
<1>3. Encode(<<>>) = <<>>
  <2>1. PICK s \in Seq(Char) : s = <<>>
    BY EmptySeq
  <2>2. PICK a : Mapped(a, s, Widths)
    BY DEF Mapped
  <2>6. a = <<>>
    BY <1>1, <2>2, <2>1, MapType, LenProperties, EmptySeq DEF Mapped
  <2>3. Encode(s) = FlattenSeq(<<>>)
    BY <1>2, <2>2, <2>6, Zenon DEF Mapped
  <2>4. FlattenSeq(<<>>) = <<>>
    BY FlattenAppend
  <2>. QED  BY <2>1, <2>3, <2>4
<1>4. ASSUME NEW s \in Seq(Char), NEW c \in Char, NEW t \in Seq(Char), Extends(t, s, c)
      PROVE  Encode(t) = Encode(s) \o Beginning(c, Width[c])
  <2>1. PICK a, b : Mapped(a, s, Widths) /\ Mapped(b, t, Widths)
    BY DEF Mapped
  <2>2. a \in Seq(Seq(Byte)) /\ b \in Seq(Seq(Byte))
    BY <1>1, <2>1, MapType
  <2>3. Extends(b, a, Widths[c])
    BY <1>1, <1>4, <2>1, MapExtends
  <2>4. Widths[c] \in Seq(Byte) /\ Widths[c] = Beginning(c, Width[c])
    BY <1>1 DEF Widths
  <2>5. FlattenSeq(b) = FlattenSeq(a) \o Widths[c]
    BY <2>2, <2>3, <2>4, FlattenAppend
  <2>6. Encode(t) = FlattenSeq(b) /\ Encode(s) = FlattenSeq(a)
    BY <1>2, <2>1, Zenon DEF Mapped
  <2>. QED  BY <2>4, <2>5, <2>6
<1>. QED  BY <1>3, <1>4
LEMMA InertType ==
  ASSUME NEW s \in Seq(Char)
  PROVE  Inert(s) \in Seq(Char)
<1> DEFINE T == {t \in Seq(Char) : Inert(t) \in Seq(Char)}
<1>1. <<>> \in T
  BY EmptySeq, InertAppend
<1>2. \A t \in Seq(Char), e \in Char, u \in Seq(Char) : t \in T /\ Extends(u, t, e) => u \in T
  <2> SUFFICES ASSUME NEW t \in Seq(Char), NEW e \in Char, NEW u \in Seq(Char), Extends(u, t, e),
                      NEW k \in Seq(Char), Inert(t) = k
               PROVE  Inert(u) \in Seq(Char)
    OBVIOUS
  <2> HIDE DEF T
  <2>1. Inert(u) = Inert(t) \o Visible[e]
    BY InertAppend
  <2>2. PICK v \in Seq(Char) : v = Visible[e]
    BY LogAssumption
  <2>3. k \o v \in Seq(Char)
    BY ConcatProperties
  <2>. QED  BY <2>1, <2>2, <2>3
<1>3. Seq(Char) \subseteq T
  <2> HIDE DEF T
  <2>. QED  BY <1>1, <1>2, SeqSetInduction
<1>. QED  BY <1>3

\* What is shown of a text is shown of its parts, one behind the other.
LEMMA InertConcat ==
  ASSUME NEW s \in Seq(Char), NEW t \in Seq(Char)
  PROVE  Inert(s \o t) = Inert(s) \o Inert(t)
<1> DEFINE T == {u \in Seq(Char) : Inert(s \o u) = Inert(s) \o Inert(u)}
<1>1. <<>> \in T
  BY EmptySeq, InertType, ConcatEmptySeq, InertAppend
<1>2. \A u \in Seq(Char), e \in Char, w \in Seq(Char) : u \in T /\ Extends(w, u, e) => w \in T
  <2> SUFFICES ASSUME NEW u \in Seq(Char), NEW e \in Char, NEW w \in Seq(Char), Extends(w, u, e), u \in T
               PROVE  w \in T
    OBVIOUS
  <2>0. Inert(s \o u) = Inert(s) \o Inert(u)
    OBVIOUS
  <2>7. Inert(s \o w) = Inert(s) \o Inert(w) => w \in T
    OBVIOUS
  <2> HIDE DEF T
  <2>1. PICK p, q \in Seq(Char) : p = s \o u /\ q = s \o w
    BY ConcatProperties
  <2>2. Extends(q, p, e)
    BY <2>1, ExtendsConcat
  <2>3. Inert(q) = Inert(p) \o Visible[e]
    BY <2>2, InertAppend
  <2>4. Inert(w) = Inert(u) \o Visible[e]
    BY InertAppend
  <2>5. PICK a, b, v \in Seq(Char) : a = Inert(s) /\ b = Inert(u) /\ v = Visible[e]
    BY InertType, LogAssumption
  <2>6. (a \o b) \o v = a \o (b \o v)
    <3>1. a \in Seq(Char) /\ b \in Seq(Char) /\ v \in Seq(Char)
      BY <2>5
    <3>2. \A x \in Seq(Char) : (a \o b) \o x = a \o (b \o x)
      <4>1. \A y, x \in Seq(Char) : (a \o y) \o x = a \o (y \o x)
        <5>1. Associative(Char)
          BY ConcatIsAssociative, Zenon
        <5>. QED  BY <3>1, <5>1, Zenon DEF Associative
      <4>. QED  BY <3>1, <4>1, Zenon
    <3>. QED  BY <3>1, <3>2, Zenon
  <2>. QED  BY <2>0, <2>1, <2>3, <2>4, <2>5, <2>6, <2>7
<1>3. Seq(Char) \subseteq T
  <2> HIDE DEF T
  <2>. QED  BY <1>1, <1>2, SeqSetInduction
<1>. QED  BY <1>3

LEMMA WidthType ==
  ASSUME NEW c \in Char
  PROVE  Width[c] \in 1..4 /\ Width[c] \in 0..4
BY LogAssumption

LEMMA EncodeType ==
  ASSUME NEW s \in Seq(Char)
  PROVE  Encode(s) \in Seq(Byte)
<1> DEFINE T == {t \in Seq(Char) : Encode(t) \in Seq(Byte)}
<1>1. <<>> \in T
  BY EmptySeq, EncodeAppend
<1>2. \A t \in Seq(Char), e \in Char, u \in Seq(Char) : t \in T /\ Extends(u, t, e) => u \in T
  <2> SUFFICES ASSUME NEW t \in Seq(Char), NEW e \in Char, NEW u \in Seq(Char), Extends(u, t, e),
                      NEW k \in Seq(Byte), Encode(t) = k
               PROVE  Encode(u) \in Seq(Byte)
    OBVIOUS
  <2> HIDE DEF T
  <2>1. Encode(u) = Encode(t) \o Beginning(e, Width[e])
    BY EncodeAppend
  <2>2. PICK v \in Seq(Byte) : v = Beginning(e, Width[e])
    BY WidthType, BeginningType
  <2>3. k \o v \in Seq(Byte)
    BY ConcatProperties
  <2>. QED  BY <2>1, <2>2, <2>3
<1>3. Seq(Char) \subseteq T
  <2> HIDE DEF T
  <2>. QED  BY <1>1, <1>2, SeqSetInduction
<1>. QED  BY <1>3

LEMMA EncodeConcat ==
  ASSUME NEW s \in Seq(Char), NEW t \in Seq(Char)
  PROVE  Encode(s \o t) = Encode(s) \o Encode(t)
<1> DEFINE T == {u \in Seq(Char) : Encode(s \o u) = Encode(s) \o Encode(u)}
<1>1. <<>> \in T
  BY EmptySeq, EncodeType, ConcatEmptySeq, EncodeAppend
<1>2. \A u \in Seq(Char), e \in Char, w \in Seq(Char) : u \in T /\ Extends(w, u, e) => w \in T
  <2> SUFFICES ASSUME NEW u \in Seq(Char), NEW e \in Char, NEW w \in Seq(Char), Extends(w, u, e),
                      Encode(s \o u) = Encode(s) \o Encode(u)
               PROVE  Encode(s \o w) = Encode(s) \o Encode(w)
    OBVIOUS
  <2> HIDE DEF T
  <2>1. PICK p, q \in Seq(Char) : p = s \o u /\ q = s \o w
    BY ConcatProperties
  <2>2. Extends(q, p, e)
    BY <2>1, ExtendsConcat
  <2>3. Encode(q) = Encode(p) \o Beginning(e, Width[e])
    BY <2>2, EncodeAppend
  <2>4. Encode(w) = Encode(u) \o Beginning(e, Width[e])
    BY EncodeAppend
  <2>5. PICK a, b, v \in Seq(Byte) : a = Encode(s) /\ b = Encode(u) /\ v = Beginning(e, Width[e])
    BY EncodeType, WidthType, BeginningType
  <2>6. (a \o b) \o v = a \o (b \o v)
    <3>1. Associative(Byte)
      BY ConcatIsAssociative, Zenon
    <3>2. a \in Seq(Byte) /\ b \in Seq(Byte) /\ v \in Seq(Byte)
      BY <2>5
    <3>. QED  BY <3>1, <3>2 DEF Associative
  <2>. QED  BY <2>1, <2>3, <2>4, <2>5, <2>6
<1>3. Seq(Char) \subseteq T
  <2> HIDE DEF T
  <2>. QED  BY <1>1, <1>2, SeqSetInduction
<1>. QED  BY <1>3

\* The smaller and the larger of two numbers.
LEMMA MinIs ==
  ASSUME NEW a \in Int, NEW b \in Int
  PROVE  Min({a, b}) = IF a <= b THEN a ELSE b
<1>1. PICK m \in Int : m = IF a <= b THEN a ELSE b
  OBVIOUS
<1>2. m \in {a, b} /\ \A y \in {a, b} : m <= y
  BY <1>1
<1>3. \A x \in {a, b} : (\A y \in {a, b} : x <= y) => x = m
  BY <1>1
<1>4. Min({a, b}) = m
  <2> DEFINE P(x) == x \in {a, b} /\ \A y \in {a, b} : x <= y
  <2>1. P(CHOOSE x : P(x))
    <3>1. P(m)
      BY <1>2
    <3> HIDE DEF P
    <3>. QED  BY <3>1, Zenon
  <2>2. Min({a, b}) = CHOOSE x : P(x)
    BY Zenon DEF Min
  <2>3. PICK c : c = (CHOOSE x : P(x)) /\ P(c)
    BY <2>1
  <2>. QED  BY <1>3, <2>2, <2>3
<1>. QED  BY <1>1, <1>4

LEMMA MaxIs ==
  ASSUME NEW a \in Int, NEW b \in Int
  PROVE  Max({a, b}) = IF a <= b THEN b ELSE a
<1>1. PICK m \in Int : m = IF a <= b THEN b ELSE a
  OBVIOUS
<1>2. m \in {a, b} /\ \A y \in {a, b} : m >= y
  BY <1>1
<1>3. \A x \in {a, b} : (\A y \in {a, b} : x >= y) => x = m
  BY <1>1
<1>4. Max({a, b}) = m
  <2> DEFINE P(x) == x \in {a, b} /\ \A y \in {a, b} : x >= y
  <2>1. P(CHOOSE x : P(x))
    <3>1. P(m)
      BY <1>2
    <3> HIDE DEF P
    <3>. QED  BY <3>1, Zenon
  <2>2. Max({a, b}) = CHOOSE x : P(x)
    BY Zenon DEF Max
  <2>3. PICK c : c = (CHOOSE x : P(x)) /\ P(c)
    BY <2>1
  <2>. QED  BY <1>3, <2>2, <2>3
<1>. QED  BY <1>1, <1>4
-----------------------------------------------------------------------------
(***************************************************************************)
(* A step of the program, by the tool that is called: the requests of a    *)
(* tool are made by its own actions, and what changes on GitHub is what    *)
(* the tool looks at.                                                      *)
(***************************************************************************)

RunListTools == {"list_runs", "list_jobs", "list_artifacts"}
ArchiveTools == {"archive_files", "read_file"}
WholeTools == {"list_all", "search"}

Requests ==
  [job_logs |-> {"job", "attempt", "member", "open", "stream"},
   run_logs |-> {"attempt", "list", "open", "stream"},
   failed_logs |-> {"resolve", "failed", "again"},
   list_runs |-> {"items", "names"}, list_jobs |-> {"pin", "jobs", "verify"},
   list_artifacts |-> {"pin", "items", "verify"},
   archive_files |-> {"artifact", "download", "inspect"},
   read_file |-> {"artifact", "download", "inspect"},
   watch |-> {"poll", "answer", "sleep"},
   list_all |-> {"whole"}, search |-> {"matches", "count"},
   pr_diff |-> {"look", "content"}, list_files |-> {"look", "content", "verify"},
   list_commits |-> {"look", "content", "verify"},
   list_reviews |-> {"look", "content", "following", "verify"},
   get_thread |-> {"look", "content", "verify"},
   get_ref |-> {"lookup", "probe", "is_empty"}, get_commit |-> {"lookup", "probe", "is_empty"},
   list_tree |-> {"lookup", "probe", "is_empty", "tree"},
   compare |-> {"compare", "lookup", "probe", "is_empty"}]

RequestOfTool ==
  /\ scenario \in Scenarios
  /\ pc \in Requests[call.tool] \cup Ended

othersOfLog == <<scenario, changes, runVars, listVars, watchVars, archiveVars, pullVars, exactVars>>
othersOfRunList == <<scenario, changes, runVars, logVars, watchVars, archiveVars, pullVars, exactVars>>
othersOfWatch == <<scenario, changes, runVars, logVars, listVars, archiveVars, pullVars, exactVars>>
othersOfArchive == <<scenario, changes, runVars, logVars, listVars, watchVars, pullVars, exactVars>>
othersOfWhole == <<scenario, changes, runReadVars, pullVars, exactVars>>
othersOfPull == <<scenario, changes, runReadVars, exactVars>>
othersOfExact == <<scenario, changes, runReadVars, listVars, pullVars>>

LogStep == call.tool \in LogTools /\ LogNext /\ UNCHANGED othersOfLog
RunListStep == call.tool \in RunListTools /\ RunListNext /\ UNCHANGED othersOfRunList
WatchStep == call.tool = "watch" /\ WatchNext /\ UNCHANGED othersOfWatch
ArchiveStep == call.tool \in ArchiveTools /\ ArchiveNext /\ UNCHANGED othersOfArchive
WholeStep == call.tool \in WholeTools /\ RepositoryListNext /\ UNCHANGED othersOfWhole
PullStep == call.tool \in PullTools /\ PullNext /\ UNCHANGED othersOfPull
ExactStep == call.tool \in ExactTools /\ ExactNext /\ UNCHANGED othersOfExact
FailStep == RequestFails /\ UNCHANGED <<scenario, changes, runReadVars, listVars, pullVars, exactVars>>
RunMoves == GitHub /\ UNCHANGED <<logVars, watchVars, archiveVars, listVars, pullVars, exactVars>>
ItemMoves == ListGitHub /\ UNCHANGED <<runReadVars, pullVars, exactVars>>
SnapshotMoves == PullGitHub /\ UNCHANGED <<runReadVars, exactVars>>
RepositoryMoves == ExactGitHub /\ UNCHANGED <<runReadVars, listVars, pullVars>>

\* Which tools make which requests.
LEMMA ToolOfRequest ==
  ASSUME RequestOfTool
  PROVE  /\ pc \in {"job", "attempt", "member", "list", "open", "stream", "resolve", "failed", "again"} =>
              call.tool \in LogTools
         /\ pc \in {"names", "pin", "jobs", "items"} => call.tool \in RunListTools
         /\ pc \in {"poll", "answer", "sleep"} => call.tool = "watch"
         /\ pc \in {"artifact", "download", "inspect"} => call.tool \in ArchiveTools
         /\ pc \in {"whole", "matches", "count"} => call.tool \in WholeTools
         /\ pc \in {"look", "content", "following"} => call.tool \in PullTools
         /\ pc \in {"lookup", "probe", "is_empty", "compare", "tree"} => call.tool \in ExactTools
<1>1. call.tool \in DOMAIN FirstRequest
  BY ToolAssumption DEF RequestOfTool, call
<1>. QED
  BY <1>1 DEF RequestOfTool, Requests, FirstRequest, Ended, LogTools, RunListTools, ArchiveTools,
     WholeTools, PullTools, ExactTools

LEMMA StepByTool ==
  ASSUME RequestOfTool, Next
  PROVE  \/ LogStep \/ RunListStep \/ WatchStep \/ ArchiveStep \/ WholeStep \/ PullStep \/ ExactStep
         \/ FailStep \/ RunMoves \/ ItemMoves \/ SnapshotMoves \/ RepositoryMoves
<1>1. CASE LogNext /\ UNCHANGED othersOfLog
  <2>1. pc \in {"job", "attempt", "member", "list", "open", "stream", "resolve", "failed", "again"}
    BY <1>1 DEF LogNext, ReadJob, ReadAttempt, ReadMember, ReadList, OpenLog, TakeChunk, EndStream,
       StreamFails, ResolveFailed, ReadFailed, VerifyFailed
  <2>. QED  BY <1>1, <2>1, ToolOfRequest DEF LogStep
<1>2. CASE RunListNext /\ UNCHANGED othersOfRunList
  BY <1>2, ToolOfRequest DEF RunListNext, ReadItems, ListRuns, PinRun, ReadJobs, ListJobs,
     ListArtifacts, RunListTools, RunListStep
<1>3. CASE WatchNext /\ UNCHANGED othersOfWatch
  BY <1>3, ToolOfRequest DEF WatchNext, Poll, AnswerPoll, Wake, Tick, WatchStep
<1>4. CASE ArchiveNext /\ UNCHANGED othersOfArchive
  BY <1>4, ToolOfRequest DEF ArchiveNext, ReadArtifact, Download, EndDownload, InspectArchive,
     ArchiveStep
<1>5. CASE RepositoryListNext /\ UNCHANGED othersOfWhole
  BY <1>5, ToolOfRequest DEF RepositoryListNext, ListAll, SearchItems, SearchCount, WholeStep
<1>6. CASE PullNext /\ UNCHANGED othersOfPull
  <2>1. pc \in {"look", "content", "following"}
        \/ call.tool \in {"list_files", "list_commits", "list_reviews", "get_thread"}
    BY <1>6 DEF PullNext, LookFirst, ReadDiff, ReadByNumber, ReadReviews, ReadFollowing, ReadThread,
       ListPullFiles, ListPullCommits, ListReviews, GetThread
  <2>2. call.tool \in PullTools
    BY <2>1, ToolOfRequest DEF PullTools
  <2>. QED  BY <1>6, <2>2 DEF PullStep
<1>7. CASE ExactNext /\ UNCHANGED othersOfExact
  BY <1>7, ToolOfRequest DEF ExactNext, LookUp, ProbeAccess, AskEmpty, Compare, ListTree, ExactStep
<1>8. CASE RequestFails /\ UNCHANGED <<scenario, changes, runReadVars, listVars, pullVars, exactVars>>
  BY <1>8 DEF FailStep
<1>9. CASE Step
  BY <1>9, <1>1, <1>2, <1>3, <1>4, <1>5, <1>6, <1>7, <1>8 DEF Step, othersOfLog, othersOfRunList,
     othersOfWatch, othersOfArchive, othersOfWhole, othersOfPull, othersOfExact
<1>10. CASE Elsewhere
  BY <1>10, Zenon DEF Elsewhere, RunMoves, ItemMoves, SnapshotMoves, RepositoryMoves
<1>. QED  BY <1>9, <1>10 DEF Next

\* Nothing that a step of one tool does concerns the requests of another.
LEMMA RequestOfToolInvariant == Spec => []RequestOfTool
<1>1. Init => RequestOfTool
  BY ToolAssumption DEF Init, ReadInit, call, RequestOfTool, Requests, FirstRequest
<1>2. RequestOfTool /\ [Next]_vars => RequestOfTool'
  <2> SUFFICES ASSUME RequestOfTool, [Next]_vars PROVE RequestOfTool'
    OBVIOUS
  <2> DEFINE Tool(t) == t \in DOMAIN FirstRequest
  <2>1. call.tool \in DOMAIN FirstRequest
    BY ToolAssumption DEF RequestOfTool, call
  <2>2. ASSUME scenario' = scenario, pc' \in Requests[call.tool] \cup Ended
        PROVE  RequestOfTool'
    BY <2>2 DEF RequestOfTool, call
  <2>3. CASE LogStep
    <3>1. scenario' = scenario
      BY <2>3 DEF LogStep, othersOfLog
    <3>2. pc' \in Requests[call.tool] \cup Ended
      <4>1. CASE ReadJob
        BY <2>1, <4>1 DEF ReadJob, Stop, Raise, Raises, Goto, Then, Requests, Ended, RequestOfTool, FirstRequest
      <4>2. CASE ReadAttempt
        BY <2>1, <4>2 DEF ReadAttempt, Stop, Raise, Raises, Goto, Then, Requests, Ended, RequestOfTool, FirstRequest
      <4>3. CASE ReadMember
        BY <2>1, <4>3 DEF ReadMember, DeliverEvidence, Deliver, Returns, callVars, Stop, Raise, Raises, Goto, Then,
           Requests, Ended, RequestOfTool, FirstRequest
      <4>4. CASE ReadList
        BY <2>1, <4>4 DEF ReadList, WithAllJobs, DeliverEvidence, Deliver, Returns, callVars, Stop, Raise, Raises, Goto, Then,
           Requests, Ended, RequestOfTool, FirstRequest
      <4>5. CASE OpenLog
        BY <2>1, <4>5 DEF OpenLog, Stop, Raise, Raises, Goto, Then, Requests, Ended, RequestOfTool, FirstRequest
      <4>6. CASE TakeChunk
        BY <2>1, <4>6 DEF TakeChunk, callVars, Requests, Ended, RequestOfTool, FirstRequest
      <4>7. CASE EndStream
        BY <4>7, <2>1 DEF EndStream, Goto, Then, Requests, Ended, RequestOfTool, FirstRequest
      <4>8. CASE StreamFails
        BY <2>1, <4>8 DEF StreamFails, StreamRetrySafe, Stop, Raise, Raises, Requests, Ended, RequestOfTool, FirstRequest
      <4>9. CASE ResolveFailed
        BY <2>1, <4>9 DEF ResolveFailed, Raise, Raises, Requests, Ended, RequestOfTool, FirstRequest
      <4>10. CASE ReadFailed
        BY <2>1, <4>10 DEF ReadFailed, Goto, Then, Requests, Ended, RequestOfTool, FirstRequest
      <4>11. CASE VerifyFailed
        BY <2>1, <4>11 DEF VerifyFailed, Deliver, Returns, Requests, Ended, RequestOfTool, FirstRequest
      <4>. QED  BY <2>3, <4>1, <4>2, <4>3, <4>4, <4>5, <4>6, <4>7, <4>8, <4>9, <4>10, <4>11 DEF LogStep, LogNext
    <3>. QED  BY <2>2, <3>1, <3>2
  <2>4. CASE RunListStep
    <3>1. scenario' = scenario
      BY <2>4 DEF RunListStep, othersOfRunList
    <3>2. pc' \in Requests[call.tool] \cup Ended
      <4>1. CASE ReadItems
        BY <2>1, <4>1 DEF ReadItems, Goto, Then, Requests, Ended, RequestOfTool, FirstRequest
      <4>2. CASE ListRuns
        BY <2>1, <4>2 DEF ListRuns, PageDone, HandOver, Returns, Then, Raise, Raises, Requests, Ended, RequestOfTool, FirstRequest
      <4>3. CASE PinRun
        BY <2>1, <4>3 DEF PinRun, Goto, Then, Raise, Raises, Requests, Ended, RequestOfTool, FirstRequest
      <4>4. CASE ReadJobs
        BY <2>1, <4>4 DEF ReadJobs, Goto, Then, Requests, Ended, RequestOfTool, FirstRequest
      <4>5. CASE ListJobs
        BY <2>1, <4>5 DEF ListJobs, PageDone, HandOver, Returns, Then, Requests, Ended, RequestOfTool, FirstRequest
      <4>6. CASE ListArtifacts
        BY <2>1, <4>6 DEF ListArtifacts, PageDone, HandOver, Returns, Then, Raise, Raises, Requests, Ended, RequestOfTool, FirstRequest
      <4>. QED  BY <2>4, <4>1, <4>2, <4>3, <4>4, <4>5, <4>6 DEF RunListStep, RunListNext
    <3>. QED  BY <2>2, <3>1, <3>2
  <2>5. CASE WatchStep
    <3>1. scenario' = scenario
      BY <2>5 DEF WatchStep, othersOfWatch
    <3>2. pc' \in Requests[call.tool] \cup Ended
      BY <2>1, <2>5 DEF WatchStep, WatchNext, Poll, AnswerPoll, Wake, Tick, callVars, Goto, Then, Deliver, Returns,
         Raise, Raises, Requests, Ended, RequestOfTool, FirstRequest
    <3>. QED  BY <2>2, <3>1, <3>2
  <2>6. CASE ArchiveStep
    <3>1. scenario' = scenario
      BY <2>6 DEF ArchiveStep, othersOfArchive
    <3>2. pc' \in Requests[call.tool] \cup Ended
      <4>1. CASE ReadArtifact
        BY <2>1, <4>1 DEF ReadArtifact, Goto, Then, Raise, Raises, Requests, Ended, RequestOfTool, FirstRequest
      <4>2. CASE Download
        BY <2>1, <4>2 DEF Download, callVars, Raise, Raises, Requests, Ended, RequestOfTool, FirstRequest
      <4>3. CASE EndDownload
        BY <2>1, <4>3 DEF EndDownload, Goto, Then, Raise, Raises, Requests, Ended, RequestOfTool, FirstRequest
      <4>4. CASE InspectArchive
        BY <2>6, <4>4 DEF InspectArchive, ArchiveStep, ArchiveTools, Raise, Raises, Ended, ListFiles,
           Deliver, Returns, ReadFile
      <4>. QED  BY <2>6, <4>1, <4>2, <4>3, <4>4 DEF ArchiveStep, ArchiveNext
    <3>. QED  BY <2>2, <3>1, <3>2
  <2>7. CASE WholeStep
    <3>1. scenario' = scenario
      BY <2>7 DEF WholeStep, othersOfWhole
    <3>2. pc' \in Requests[call.tool] \cup Ended
      <4>1. CASE ListAll
        BY <4>1 DEF ListAll, HandOver, Returns, Ended
      <4>2. CASE SearchItems
        BY <2>1, <4>2 DEF SearchItems, Then, Requests, Ended, RequestOfTool, FirstRequest
      <4>3. CASE SearchCount
        BY <4>3 DEF SearchCount, HandOver, Returns, Ended
      <4>. QED  BY <2>7, <4>1, <4>2, <4>3 DEF WholeStep, RepositoryListNext
    <3>. QED  BY <2>2, <3>1, <3>2
  <2>8. CASE PullStep
    <3>1. scenario' = scenario
      BY <2>8 DEF PullStep, othersOfPull
    <3>2. pc' \in Requests[call.tool] \cup Ended
      <4>1. CASE LookFirst
        BY <2>1, <4>1 DEF LookFirst, Returns, Then, Requests, Ended, RequestOfTool, FirstRequest
      <4>2. CASE ReadDiff
        BY <2>1, <4>2 DEF ReadDiff, HandOver, Returns, Then, Requests, Ended, RequestOfTool, FirstRequest
      <4>3. CASE ReadByNumber \/ ReadReviews \/ ReadFollowing \/ ReadThread
        BY <2>1, <4>3 DEF ReadByNumber, ReadReviews, ReadFollowing, ReadThread, Then, Requests, Ended, RequestOfTool, FirstRequest
      <4>4. CASE ListPullFiles \/ ListPullCommits \/ ListReviews
        BY <2>1, <4>4 DEF ListPullFiles, ListPullCommits, ListReviews, HandOver, Returns, Raises, Then, Requests, Ended, RequestOfTool, FirstRequest
      <4>5. CASE GetThread
        BY <2>1, <4>5 DEF GetThread, Returns, Requests, Ended, RequestOfTool, FirstRequest
      <4>. QED  BY <2>8, <4>1, <4>2, <4>3, <4>4, <4>5 DEF PullStep, PullNext
    <3>. QED  BY <2>2, <3>1, <3>2
  <2>9. CASE ExactStep
    <3>1. scenario' = scenario
      BY <2>9 DEF ExactStep, othersOfExact
    <3>2. pc' \in Requests[call.tool] \cup Ended
      <4>1. CASE LookUp
        BY <2>1, <2>9, <4>1 DEF LookUp, Found, Conclude, Returns, Raises, Then, Requests, Ended, RequestOfTool, FirstRequest, ExactStep, ExactTools
      <4>2. CASE ProbeAccess \/ AskEmpty
        BY <2>1, <2>9, <4>2 DEF ProbeAccess, AskEmpty, Found, Conclude, Returns, Raises, Then, Requests, Ended, RequestOfTool, FirstRequest, ExactStep, ExactTools
      <4>3. CASE Compare
        BY <2>1, <4>3 DEF Compare, Returns, Then, Requests, Ended, RequestOfTool, FirstRequest
      <4>4. CASE ListTree
        BY <2>1, <4>4 DEF ListTree, Returns, Raises, Requests, Ended, RequestOfTool, FirstRequest
      <4>. QED  BY <2>9, <4>1, <4>2, <4>3, <4>4 DEF ExactStep, ExactNext
    <3>. QED  BY <2>2, <3>1, <3>2
  <2>10. CASE FailStep
    BY <2>2, <2>10 DEF FailStep, RequestFails, Raises, Ended
  <2>11. CASE RunMoves
    BY <2>2, <2>11 DEF RunMoves, GitHub, JobAppears, JobCompletes, AttemptCompletes, Rerun, RunChange, Change, replyVars, RequestOfTool
  <2>12. CASE ItemMoves
    BY <2>2, <2>12 DEF ItemMoves, ListGitHub, ItemAppears, ItemDeleted, Change, replyVars, RequestOfTool
  <2>13. CASE SnapshotMoves
    BY <2>2, <2>13 DEF SnapshotMoves, PullGitHub, PullMoves, Change, replyVars, RequestOfTool
  <2>14. CASE RepositoryMoves
    BY <2>2, <2>14 DEF RepositoryMoves, ExactGitHub, AccessChanges, Pushed, RefDeleted, Change, replyVars, RequestOfTool
  <2>15. CASE UNCHANGED vars
    BY <2>2, <2>15 DEF vars, replyVars, RequestOfTool
  <2>. QED
    BY <2>3, <2>4, <2>5, <2>6, <2>7, <2>8, <2>9, <2>10, <2>11, <2>12, <2>13, <2>14, <2>15, StepByTool
<1>. QED  BY <1>1, <1>2, PTL DEF Spec

-----------------------------------------------------------------------------
(***************************************************************************)
(* The run that a call looks at, and the attempt that it is pinned to.     *)
(***************************************************************************)

RunSound ==
  /\ RunTypeOK
  /\ listed \in [Attempt -> Seq(Job)]
  /\ call.attempt # None => attempt = call.attempt
  /\ call.tool = "failed_logs" /\ pc \in {"failed", "again"} => attempt # None
  /\ call.tool = "list_jobs" /\ pc \in {"jobs", "verify"} => attempt # None

\* One more of a prefix is a prefix.
LEMMA PrefixGrows ==
  ASSUME NEW X, NEW s \in Seq(X), NEW t \in Seq(X), IsPrefix(s, t), Len(s) < Len(t)
  PROVE  Append(s, t[Len(s) + 1]) \in Seq(X) /\ IsPrefix(Append(s, t[Len(s) + 1]), t)
BY LenProperties, SubSeqProperties, AppendProperties, SeqEqual DEF IsPrefix

\* What a prefix holds.
LEMMA PrefixElements ==
  ASSUME NEW X, NEW s \in Seq(X), NEW t \in Seq(X), IsPrefix(s, t)
  PROVE  ToSet(s) \subseteq ToSet(t)
BY LenProperties, SubSeqProperties, ToSetIs DEF IsPrefix

\* A piece of a sequence.
LEMMA PieceElements ==
  ASSUME NEW X, NEW s \in Seq(X), NEW a \in Int, NEW b \in Int, 1 <= a, b <= Len(s)
  PROVE  SubSeq(s, a, b) \in Seq(X) /\ ToSet(SubSeq(s, a, b)) \subseteq ToSet(s)
<1>1. CASE a > b
  <2>1. SubSeq(s, a, b) = <<>>
    BY <1>1, SubSeqProperties
  <2>. QED  BY <2>1, EmptySeq, ToSetAppend
<1>2. CASE a <= b
  <2>5. \A k \in a..b : s[k] \in X
    BY LenProperties
  <2>1. PICK u \in Seq(X) : u = SubSeq(s, a, b)
    BY <2>5, SubSeqProperties
  <2>2. Len(u) = b - a + 1 /\ \A k \in 1..(b - a + 1) : u[k] = s[a + k - 1]
    BY <1>2, <2>1, <2>5, SubSeqProperties
  <2>3. ToSet(u) = {u[k] : k \in 1..(b - a + 1)} /\ ToSet(s) = {s[k] : k \in 1..Len(s)}
    BY <2>2, ToSetIs
  <2>4. \A k \in 1..(b - a + 1) : a + k - 1 \in 1..Len(s)
    BY LenProperties
  <2>. QED  BY <2>1, <2>2, <2>3, <2>4
<1>. QED  BY <1>1, <1>2

LEMMA BeginningIsPrefix ==
  ASSUME NEW X, NEW t \in Seq(X), NEW n \in Nat, n <= Len(t)
  PROVE  SubSeq(t, 1, n) \in Seq(X) /\ IsPrefix(SubSeq(t, 1, n), t)
BY LenProperties, SubSeqProperties, SubSeqFull DEF IsPrefix

LEMMA RunSoundInit ==
  ASSUME Init
  PROVE  RunSound
<1>1. scenario \in Scenarios /\ pc = FirstRequest[call.tool]
  BY DEF Init, ReadInit
<1>2. call.tool \in DOMAIN FirstRequest
  BY <1>1, ToolAssumption DEF call
<1>3. 1 \in Attempt
  BY RunAssumption DEF Attempt
<1>4. /\ scenario.jobs \in [Attempt -> Seq(Job)] /\ scenario.queued \in 0..Len(scenario.jobs[1])
      /\ call.attempt \in Attempt \cup {None}
      /\ scenario.done \in [Job -> Conclusion \cup {None}]
      /\ scenario.status \in {"in_progress", "completed"}
  BY <1>1, RunAssumption DEF call
<1>5. PICK t \in Seq(Job), n \in Nat : t = scenario.jobs[1] /\ n = scenario.queued /\ n <= Len(t)
  BY <1>3, <1>4
<1>6. SubSeq(t, 1, n) \in Seq(Job) /\ IsPrefix(SubSeq(t, 1, n), t)
  BY <1>5, BeginningIsPrefix
<1>7. /\ attempt = call.attempt /\ latest = 1
      /\ status = [a \in Attempt |-> IF a = 1 THEN scenario.status ELSE "absent"]
      /\ listed = [a \in Attempt |-> IF a = 1 THEN SubSeq(t, 1, n) ELSE <<>>]
      /\ done = scenario.done
  BY <1>5 DEF Init, RunInit
<1>8. <<>> \in Seq(Job) /\ \A a \in Attempt : IsPrefix(<<>>, scenario.jobs[a])
  BY <1>4, EmptySeq, SubSeqEmpty DEF IsPrefix
<1>9. listed \in [Attempt -> Seq(Job)] /\ \A a \in Attempt : IsPrefix(listed[a], scenario.jobs[a])
  BY <1>3, <1>5, <1>6, <1>7, <1>8
<1>10. status \in [Attempt -> {"absent", "in_progress", "completed"}]
  BY <1>4, <1>7
<1>11. RunTypeOK
  BY <1>3, <1>4, <1>7, <1>9, <1>10 DEF RunTypeOK
<1>12. pc \notin {"failed", "again", "jobs", "verify"}
  BY <1>1, <1>2 DEF FirstRequest
<1>. QED  BY <1>7, <1>9, <1>11, <1>12 DEF RunSound

\* What a call reads does not change the run.
LEMMA RunUnmoved ==
  ASSUME RunSound, scenario' = scenario, UNCHANGED runVars,
         attempt' \in Attempt \cup {None}, call.attempt # None => attempt' = call.attempt,
         call.tool = "failed_logs" /\ pc' \in {"failed", "again"} => attempt' # None,
         call.tool = "list_jobs" /\ pc' \in {"jobs", "verify"} => attempt' # None
  PROVE  RunSound'
BY DEF call, RunSound, RunTypeOK, runVars

LEMMA RunMovesSoundly ==
  ASSUME RequestOfTool, RunSound, GitHub
  PROVE  RunSound'
<1>1. /\ scenario' = scenario /\ call' = call /\ pc' = pc /\ attempt' = attempt
  BY DEF GitHub, JobAppears, JobCompletes, AttemptCompletes, Rerun, RunChange, Change, replyVars, call
<1>2. scenario.jobs \in [Attempt -> Seq(Job)]
  BY RunAssumption DEF RequestOfTool
<1>3. ASSUME latest' \in Attempt, status' \in [Attempt -> {"absent", "in_progress", "completed"}],
             \A a \in Attempt : IsPrefix(listed'[a], scenario.jobs[a]),
             listed' \in [Attempt -> Seq(Job)], done' \in [Job -> Conclusion \cup {None}]
      PROVE  RunSound'
  BY <1>1, <1>3 DEF RunSound, RunTypeOK
<1>4. ASSUME NEW a \in Attempt, JobAppears(a) PROVE RunSound'
  BY <1>2, <1>4, <1>3, PrefixGrows DEF RunSound, RunTypeOK, JobAppears
<1>5. ASSUME NEW a \in Attempt, AttemptCompletes(a) PROVE RunSound'
  BY <1>3, <1>5 DEF RunSound, RunTypeOK, AttemptCompletes
<1>6. ASSUME NEW a \in Attempt, NEW j \in Job, NEW c \in Conclusion, JobCompletes(a, j, c)
      PROVE  RunSound'
  BY <1>3, <1>6 DEF RunSound, RunTypeOK, JobCompletes
<1>7. CASE Rerun
  BY <1>7, <1>3, RunAssumption DEF RunSound, RunTypeOK, Rerun, Attempt
<1>. QED  BY <1>4, <1>5, <1>6, <1>7 DEF GitHub

LEMMA RunSoundInvariant == Spec => []RunSound
<1>1. RequestOfTool /\ RequestOfTool' /\ RunSound /\ [Next]_vars => RunSound'
  <2> SUFFICES ASSUME RequestOfTool, RequestOfTool', RunSound, [Next]_vars PROVE RunSound'
    OBVIOUS
  <2>1. call.tool \in DOMAIN FirstRequest /\ call.attempt \in Attempt \cup {None}
    BY ToolAssumption, RunAssumption DEF RequestOfTool, call
  <2>2. call.tool \notin {"failed_logs", "list_jobs"} =>
          ~(call.tool = "failed_logs") /\ ~(call.tool = "list_jobs")
    OBVIOUS
  <2>3. ASSUME scenario' = scenario, UNCHANGED runVars, attempt' = attempt,
               call.tool \notin {"failed_logs", "list_jobs"} \/ pc' = pc \/ pc' \in Ended
        PROVE  RunSound'
    BY <2>3, RunUnmoved DEF RunSound, RunTypeOK, Ended
  <2>4. CASE LogStep
    <3>1. scenario' = scenario /\ UNCHANGED runVars /\ call.tool \in LogTools
      BY <2>4 DEF LogStep, othersOfLog
    <3>2. CASE ResolveFailed
      <4>1. (attempt' \in Attempt /\ attempt' # None) \/ (pc' = "raised" /\ attempt' = attempt)
        BY <3>2, RunAssumption DEF RunSound, RunTypeOK, Attempt, ResolveFailed, Raise, Raises
      <4>2. attempt # None => attempt' = attempt
        BY <3>2 DEF ResolveFailed, Raise, Raises
      <4>3. call.tool # "list_jobs"
        BY <3>1 DEF LogTools
      <4>4. call.attempt # None => attempt' = call.attempt
        BY <4>2 DEF RunSound
      <4>5. attempt' \in Attempt \cup {None}
        BY <4>1 DEF RunSound, RunTypeOK
      <4>6. call.tool = "failed_logs" /\ pc' \in {"failed", "again"} => attempt' # None
        BY <4>1
      <4>. QED  BY <3>1, <4>3, <4>4, <4>5, <4>6, RunUnmoved
    <3>3. CASE ReadFailed
      <4>1. pc = "failed" /\ attempt' = attempt /\ call.tool = "failed_logs"
        BY <3>3, <2>1 DEF ReadFailed, Goto, RequestOfTool, Requests, Ended, FirstRequest
      <4>2. attempt # None /\ attempt \in Attempt \cup {None} /\ (call.attempt # None => attempt = call.attempt)
        BY <4>1 DEF RunSound, RunTypeOK
      <4>. QED  BY <3>1, <4>1, <4>2, RunUnmoved
    <3>4. CASE LogNext /\ ~ResolveFailed /\ ~ReadFailed
      <4>1. attempt' = attempt
        BY <3>4 DEF LogNext, ReadJob, ReadAttempt, ReadMember, ReadList, WithAllJobs, OpenLog, TakeChunk, EndStream,
           StreamFails, StreamRetrySafe, VerifyFailed, DeliverEvidence, Stop, Raise, Goto, Deliver, callVars
      <4>2. call.tool = "failed_logs" => pc' \in Ended
        <5>1. VerifyFailed => pc' \in Ended
          BY DEF VerifyFailed, Deliver, Returns, Ended
        <5>2. ~VerifyFailed => pc \in {"job", "attempt", "member", "list", "open", "stream"}
          BY <3>4 DEF LogNext, ReadJob, ReadAttempt, ReadMember, ReadList, OpenLog, TakeChunk, EndStream, StreamFails
        <5>. QED  BY <2>1, <5>1, <5>2 DEF RequestOfTool, Requests, Ended, FirstRequest
      <4>3. call.tool # "list_jobs"
        BY <3>1 DEF LogTools
      <4>. QED  BY <2>3, <3>1, <4>1, <4>2, <4>3
    <3>. QED  BY <2>4, <3>2, <3>3, <3>4 DEF LogStep
  <2>5. CASE RunListStep
    <3>1. scenario' = scenario /\ UNCHANGED runVars /\ call.tool \in RunListTools
      BY <2>5 DEF RunListStep, othersOfRunList
    <3>2. call.tool # "failed_logs"
      BY <3>1 DEF RunListTools
    <3>3. ASSUME attempt' \in Attempt \cup {None}, call.attempt # None => attempt' = call.attempt,
                 call.tool = "list_jobs" /\ pc' \in {"jobs", "verify"} => attempt' # None
          PROVE  RunSound'
      BY <3>1, <3>2, <3>3, RunUnmoved
    <3>4. attempt \in Attempt \cup {None} /\ (call.attempt # None => attempt = call.attempt)
      BY DEF RunSound, RunTypeOK
    <3>5. ASSUME NEW ids, NEW more, NEW incomplete, NEW of, PageDone(ids, more, incomplete, of)
          PROVE  RunSound'
      BY <3>5, <2>1, <3>3, <3>4 DEF PageDone, HandOver, Then, Returns
    <3>6. CASE ReadItems
      BY <3>6, <2>1, <3>3, <3>4 DEF ReadItems, Goto, RequestOfTool, Requests, Ended, FirstRequest
    <3>7. CASE ListRuns
      BY <3>7, <3>3, <3>4, <3>5 DEF ListRuns, Raise, Raises
    <3>8. CASE PinRun
      <4>1. CASE call.tool = "list_jobs"
        <5>1. latest \in Attempt /\ None \notin Attempt
          BY RunAssumption DEF RunSound, RunTypeOK, Attempt
        <5>2. PICK a : a = IF call.attempt = None THEN latest ELSE call.attempt
          OBVIOUS
        <5>3. a \in Attempt /\ (call.attempt # None => a = call.attempt)
          BY <2>1, <5>1, <5>2
        <5>4. Raise \/ attempt' = a
          BY <3>8, <4>1, <5>2 DEF PinRun
        <5>5. CASE Raise
          BY <3>3, <3>4, <5>5 DEF Raise, Raises
        <5>6. CASE attempt' = a
          BY <3>3, <5>1, <5>3, <5>6
        <5>. QED  BY <5>4, <5>5, <5>6
      <4>2. CASE call.tool # "list_jobs"
        BY <3>8, <4>2, <3>3, <3>4 DEF PinRun, Goto
      <4>. QED  BY <4>1, <4>2
    <3>9. CASE ReadJobs
      BY <3>9, <3>3, <3>4 DEF ReadJobs, Goto, RunSound
    <3>10. CASE ListJobs
      BY <3>5, <3>10 DEF ListJobs
    <3>11. CASE ListArtifacts
      BY <3>11, <3>3, <3>4, <3>5 DEF ListArtifacts, Raise, Raises
    <3>. QED  BY <2>5, <3>6, <3>7, <3>8, <3>9, <3>10, <3>11 DEF RunListStep, RunListNext
  <2>6. CASE WatchStep
    <3>1. scenario' = scenario /\ UNCHANGED runVars /\ call.tool = "watch"
      BY <2>6 DEF WatchStep, othersOfWatch
    <3>2. attempt' = attempt
      BY <2>6 DEF WatchStep, WatchNext, Poll, AnswerPoll, Wake, Tick, callVars, Goto, Deliver, Raise
    <3>. QED  BY <2>3, <3>1, <3>2
  <2>7. CASE ArchiveStep
    <3>1. scenario' = scenario /\ UNCHANGED runVars /\ call.tool \in ArchiveTools
      BY <2>7 DEF ArchiveStep, othersOfArchive
    <3>2. attempt' = attempt
      <4>1. CASE InspectArchive
        BY <2>7, <4>1 DEF InspectArchive, ArchiveStep, ArchiveTools, Raise, ListFiles, ReadFile, Deliver
      <4>2. CASE ReadArtifact \/ Download \/ EndDownload
        BY <4>2 DEF ReadArtifact, Download, EndDownload, callVars, Goto, Raise
      <4>. QED  BY <2>7, <4>1, <4>2 DEF ArchiveStep, ArchiveNext
    <3>. QED  BY <2>3, <3>1, <3>2 DEF ArchiveTools
  <2>8. CASE WholeStep
    BY <2>3, <2>8 DEF WholeStep, othersOfWhole, runReadVars, WholeTools
  <2>9. CASE PullStep
    BY <2>3, <2>9 DEF PullStep, othersOfPull, runReadVars, PullTools
  <2>10. CASE ExactStep
    BY <2>3, <2>10 DEF ExactStep, othersOfExact, runReadVars, ExactTools
  <2>11. CASE FailStep
    BY <2>3, <2>11 DEF FailStep, runReadVars, RequestFails, Raises, Ended
  <2>12. CASE RunMoves
    BY <2>12, RunMovesSoundly DEF RunMoves
  <2>13. CASE ItemMoves
    BY <2>3, <2>13 DEF ItemMoves, ListGitHub, ItemAppears, ItemDeleted, Change, replyVars, runReadVars
  <2>14. CASE SnapshotMoves
    BY <2>3, <2>14 DEF SnapshotMoves, PullGitHub, PullMoves, Change, replyVars, runReadVars
  <2>15. CASE RepositoryMoves
    BY <2>3, <2>15 DEF RepositoryMoves, ExactGitHub, AccessChanges, Pushed, RefDeleted, Change, replyVars, runReadVars
  <2>16. CASE UNCHANGED vars
    BY <2>3, <2>16 DEF vars, replyVars, runReadVars
  <2>. QED
    BY <2>4, <2>5, <2>6, <2>7, <2>8, <2>9, <2>10, <2>11, <2>12, <2>13, <2>14, <2>15, <2>16, StepByTool
<1>2. Init => RunSound
  BY RunSoundInit
<1>. QED  BY <1>1, <1>2, RequestOfToolInvariant, PTL DEF Spec

-----------------------------------------------------------------------------
(***************************************************************************)
(* The types of the other parts.  Each part is changed by its own tools.   *)
(***************************************************************************)

ListSound ==
  items \in Seq(Item) /\ listPage \in Nat \ {0} /\ flagged \in BOOLEAN /\ deleted \in BOOLEAN

LEMMA HandOverSoundly ==
  ASSUME ListSound, NEW ids, NEW more, NEW incomplete, NEW of, NEW first,
         HandOver(ids, more, incomplete, of, first)
  PROVE  ListSound'
BY DEF HandOver, ListSound

LEMMA ListSoundInvariant == Spec => []ListSound
<1>1. Init => ListSound
  <2> SUFFICES ASSUME Init PROVE ListSound
    OBVIOUS
  <2>1. scenario \in Scenarios /\ items = scenario.items /\ listPage = 1 /\ flagged = FALSE /\ deleted = FALSE
    BY DEF Init, ReadInit, ListInit
  <2>2. scenario.items \in Seq(Item)
    BY <2>1, ListAssumption
  <2>3. items \in Seq(Item)
    BY <2>1, <2>2, Zenon
  <2>4. flagged \in BOOLEAN /\ deleted \in BOOLEAN
    BY <2>1, Zenon
  <2>5. 1 \in Nat \ {0} /\ listPage = 1
    BY <2>1
  <2>6. listPage \in Nat \ {0}
    BY <2>5, Zenon
  <2>. QED  BY <2>3, <2>4, <2>6, Zenon DEF ListSound
<1>2. RequestOfTool /\ ListSound /\ [Next]_vars => ListSound'
  <2> SUFFICES ASSUME RequestOfTool, ListSound, [Next]_vars PROVE ListSound'
    OBVIOUS
  <2>1. ASSUME UNCHANGED <<items, listPage, flagged, deleted>> PROVE ListSound'
    BY <2>1 DEF ListSound
  <2>2. CASE RunListStep
    <3>1. RunListNext
      BY <2>2 DEF RunListStep
    <3>2. ASSUME NEW ids, NEW more, NEW incomplete, NEW of, PageDone(ids, more, incomplete, of)
          PROVE  ListSound'
      BY <3>2, HandOverSoundly DEF PageDone
    <3>3. CASE ReadItems
      BY <2>1, <3>3 DEF ReadItems, cursorVars
    <3>4. CASE ListRuns
      BY <3>4, <2>1, <3>2 DEF ListRuns, listVars
    <3>5. CASE PinRun
      BY <2>1, <3>5 DEF PinRun, cursorVars, listVars
    <3>6. CASE ReadJobs
      BY <2>1, <3>6 DEF ReadJobs, cursorVars
    <3>7. CASE ListJobs
      BY <3>2, <3>7 DEF ListJobs
    <3>8. CASE ListArtifacts
      BY <3>8, <2>1, <3>2 DEF ListArtifacts, listVars
    <3>. QED  BY <3>1, <3>3, <3>4, <3>5, <3>6, <3>7, <3>8 DEF RunListNext
  <2>3. CASE WholeStep
    BY <2>3, <2>1, HandOverSoundly DEF WholeStep, ListAll, SearchItems, cursorVars, SearchCount,
       RepositoryListNext
  <2>4. CASE PullStep
    <3>1. PullNext
      BY <2>4 DEF PullStep
    <3>2. CASE LookFirst \/ ReadByNumber \/ ReadReviews \/ ReadFollowing \/ ReadThread
      BY <2>1, <3>2 DEF LookFirst, ReadByNumber, ReadReviews, ReadFollowing, ReadThread, cursorVars
    <3>3. CASE ReadDiff
      BY <3>3, HandOverSoundly DEF ReadDiff
    <3>4. CASE ListPullFiles
      BY <2>1, <3>4, HandOverSoundly DEF ListPullFiles, listVars
    <3>5. CASE ListPullCommits
      BY <2>1, <3>5, HandOverSoundly DEF ListPullCommits, listVars
    <3>6. CASE ListReviews
      BY <2>1, <3>6, HandOverSoundly DEF ListReviews, listVars
    <3>7. CASE GetThread
      BY <2>1, <3>7 DEF GetThread, listVars
    <3>. QED  BY <3>1, <3>2, <3>3, <3>4, <3>5, <3>6, <3>7 DEF PullNext
  <2>5. CASE ItemMoves
    <3>1. PICK i \in Item : ItemAppears(i) \/ ItemDeleted(i)
      BY <2>5 DEF ItemMoves, ListGitHub
    <3>2. CASE ItemAppears(i)
      BY <3>2, ConcatProperties DEF ListSound, ItemAppears
    <3>3. CASE ItemDeleted(i)
      BY <3>3, KeepOnlyElements DEF ListSound, ItemDeleted
    <3>. QED  BY <3>1, <3>2, <3>3
  <2>6. CASE LogStep \/ WatchStep \/ ArchiveStep \/ ExactStep \/ FailStep \/ RunMoves \/ RepositoryMoves
    BY <2>1, <2>6 DEF LogStep, othersOfLog, WatchStep, othersOfWatch, ArchiveStep, othersOfArchive,
       ExactStep, othersOfExact, FailStep, RunMoves, RepositoryMoves, listVars
  <2>7. CASE SnapshotMoves \/ UNCHANGED vars
    BY <2>1, <2>7 DEF SnapshotMoves, PullGitHub, PullMoves, vars, listVars
  <2>. QED  BY <2>2, <2>3, <2>4, <2>5, <2>6, <2>7, StepByTool
<1>. QED  BY <1>1, <1>2, RequestOfToolInvariant, PTL DEF Spec

WatchSound == now \in 0..MaxNow /\ wakeAt \in 0..MaxNow

LEMMA WatchSoundInvariant == Spec => []WatchSound
<1>1. Init => WatchSound
  BY WatchAssumption DEF Init, WatchInit, WatchSound, MaxNow
<1>2. RequestOfTool /\ WatchSound /\ [Next]_vars => WatchSound'
  <2> SUFFICES ASSUME RequestOfTool, WatchSound, [Next]_vars PROVE WatchSound'
    OBVIOUS
  <2>1. ASSUME UNCHANGED <<now, wakeAt>> PROVE WatchSound'
    BY <2>1 DEF WatchSound
  <2>2. CASE WatchStep
    BY <2>2, <2>1, WatchAssumption DEF WatchStep, Poll, Wake, watchVars, AnswerPoll, WatchSound, MaxNow,
       Tick, WatchNext
  <2>3. CASE LogStep \/ RunListStep \/ ArchiveStep \/ WholeStep \/ PullStep \/ ExactStep \/ FailStep
    BY <2>1, <2>3 DEF LogStep, othersOfLog, RunListStep, othersOfRunList, ArchiveStep, othersOfArchive, WholeStep,
       othersOfWhole, PullStep, othersOfPull, ExactStep, othersOfExact, FailStep, runReadVars, watchVars
  <2>4. CASE RunMoves \/ ItemMoves \/ SnapshotMoves \/ RepositoryMoves \/ UNCHANGED vars
    BY <2>1, <2>4 DEF RunMoves, ItemMoves, SnapshotMoves, RepositoryMoves, vars, runReadVars, watchVars
  <2>. QED  BY <2>2, <2>3, <2>4, StepByTool
<1>. QED  BY <1>1, <1>2, RequestOfToolInvariant, PTL DEF Spec

PullSound == snapshot \in Snapshot /\ cameBack \in BOOLEAN

LEMMA PullSoundInvariant == Spec => []PullSound
<1>1. Init => PullSound
  BY PullAssumption DEF Init, ReadInit, PullInit, PullSound
<1>2. RequestOfTool /\ PullSound /\ [Next]_vars => PullSound'
  <2> SUFFICES ASSUME RequestOfTool, PullSound, [Next]_vars PROVE PullSound'
    OBVIOUS
  <2>1. ASSUME UNCHANGED pullVars PROVE PullSound'
    BY <2>1 DEF PullSound, pullVars
  <2>2. CASE SnapshotMoves
    BY <2>2 DEF SnapshotMoves, PullGitHub, PullMoves, PullSound
  <2>3. CASE LogStep \/ RunListStep \/ WatchStep \/ ArchiveStep \/ WholeStep \/ PullStep \/ ExactStep \/ FailStep
    BY <2>1, <2>3 DEF LogStep, othersOfLog, RunListStep, othersOfRunList, WatchStep, othersOfWatch, ArchiveStep,
       othersOfArchive, WholeStep, othersOfWhole, PullStep, PullNext, ExactStep, othersOfExact, FailStep
  <2>4. CASE RunMoves \/ ItemMoves \/ RepositoryMoves \/ UNCHANGED vars
    BY <2>1, <2>4 DEF RunMoves, ItemMoves, RepositoryMoves, vars
  <2>. QED  BY <2>2, <2>3, <2>4, StepByTool
<1>. QED  BY <1>1, <1>2, RequestOfToolInvariant, PTL DEF Spec

ChangesSound == changes \in 0..scenario.changes

LEMMA ChangesSoundInvariant == Spec => []ChangesSound
<1>1. Init => ChangesSound
  BY ReadAssumption DEF Init, ReadInit, ChangesSound
<1>2. RequestOfTool /\ ChangesSound /\ [Next]_vars => ChangesSound'
  <2> SUFFICES ASSUME RequestOfTool, ChangesSound, [Next]_vars PROVE ChangesSound'
    OBVIOUS
  <2>1. ASSUME UNCHANGED <<scenario, changes>> PROVE ChangesSound'
    BY <2>1 DEF ChangesSound
  <2>2. ASSUME NEW tools, Change(tools) PROVE ChangesSound'
    BY <2>2, ReadAssumption DEF RequestOfTool, Change, ChangesSound
  <2>3. CASE LogStep \/ RunListStep \/ WatchStep \/ ArchiveStep \/ WholeStep \/ PullStep \/ ExactStep \/ FailStep
    BY <2>1, <2>3 DEF LogStep, othersOfLog, RunListStep, othersOfRunList, WatchStep, othersOfWatch, ArchiveStep,
       othersOfArchive, WholeStep, othersOfWhole, PullStep, othersOfPull, ExactStep, othersOfExact, FailStep
  <2>4. CASE RunMoves
    BY <2>2, <2>4 DEF RunMoves, GitHub, JobAppears, JobCompletes, AttemptCompletes, Rerun, RunChange
  <2>5. CASE ItemMoves
    BY <2>2, <2>5 DEF ItemMoves, ListGitHub, ItemAppears, ItemDeleted
  <2>6. CASE SnapshotMoves
    BY <2>2, <2>6 DEF SnapshotMoves, PullGitHub, PullMoves
  <2>7. CASE RepositoryMoves
    BY <2>2, <2>7 DEF RepositoryMoves, ExactGitHub, AccessChanges, Pushed, RefDeleted
  <2>8. CASE UNCHANGED vars
    BY <2>1, <2>8 DEF vars
  <2>. QED  BY <2>3, <2>4, <2>5, <2>6, <2>7, <2>8, StepByTool
<1>. QED  BY <1>1, <1>2, RequestOfToolInvariant, PTL DEF Spec

-----------------------------------------------------------------------------
(***************************************************************************)
(* Exact objects.  What is not there is among what has been absent; the    *)
(* second request finds access only if the first had it, or it came in     *)
(* between.                                                                *)
(***************************************************************************)

LookingUp == {"lookup", "probe", "is_empty", "compare"}

ExactSound ==
  /\ present \subseteq Object /\ missing \subseteq Object
  /\ empty \in BOOLEAN /\ access \in BOOLEAN /\ regained \in BOOLEAN
  /\ call.tool \in ExactTools /\ pc \in LookingUp => targets \in Seq(Object) /\ targets # <<>>

AbsenceSound ==
  /\ Object \ present \subseteq absent /\ (empty => present = {})
  /\ call.tool \in ExactTools /\ ~regained =>
       /\ missing \subseteq absent
       /\ pc = "probe" => targets[1] \in absent \/ ~access
       /\ pc = "delivered" => result.missing \subseteq absent

\* An object has been looked up: it was there, or it was not.
LEMMA FoundSoundly ==
  ASSUME RequestOfTool, ExactSound, AbsenceSound, call.tool \in ExactTools, pc \in LookingUp,
         NEW isFound, Found(isFound), isFound \/ regained \/ targets[1] \in absent,
         UNCHANGED <<repositoryVars, scenario>>
  PROVE  ExactSound' /\ AbsenceSound'
BY DEF call, ExactSound, Found, repositoryVars, AbsenceSound, Then, Conclude, Raises, Returns,
   LookingUp

LEMMA ExactSoundInvariant == Spec => [](ExactSound /\ AbsenceSound)
<1>1. Init => ExactSound /\ AbsenceSound
  <2> SUFFICES ASSUME Init PROVE ExactSound /\ AbsenceSound
    OBVIOUS
  <2>1. /\ scenario \in Scenarios /\ pc = FirstRequest[call.tool] /\ call.tool \in DOMAIN FirstRequest
        /\ present = scenario.present /\ empty = scenario.empty /\ access = scenario.access
        /\ targets = <<call.object>> /\ missing = {}
        /\ absent = Object \ present /\ regained = FALSE
    BY ToolAssumption DEF Init, ReadInit, ExactInit, call
  <2>2. /\ scenario.present \subseteq Object
        /\ scenario.empty \in BOOLEAN /\ scenario.access \in BOOLEAN
        /\ scenario.empty => scenario.present = {}
        /\ call.tool \in ExactTools => call.object \in Object
    BY <2>1, ExactAssumption DEF call
  <2>3. pc \notin {"probe", "delivered"}
    BY <2>1 DEF FirstRequest
  <2>4. call.tool \in ExactTools => targets \in Seq(Object) /\ targets # <<>>
    BY <2>1, <2>2
  <2>5. ExactSound
    BY <2>1, <2>2, <2>4 DEF ExactSound
  <2>. QED  BY <2>1, <2>2, <2>3, <2>5 DEF AbsenceSound
<1>2. RequestOfTool /\ ExactSound /\ AbsenceSound /\ [Next]_vars => ExactSound' /\ AbsenceSound'
  <2> SUFFICES ASSUME RequestOfTool, ExactSound, AbsenceSound, [Next]_vars PROVE ExactSound' /\ AbsenceSound'
    OBVIOUS
  <2>1. ASSUME UNCHANGED <<exactVars, scenario>>,
               call.tool \notin ExactTools \/ pc' = "raised" \/ UNCHANGED replyVars
        PROVE  ExactSound' /\ AbsenceSound'
    BY <2>1 DEF call, exactVars, repositoryVars, ExactSound, LookingUp, replyVars, AbsenceSound
  <2>2. CASE ExactStep
    <3>1. /\ ExactNext /\ call.tool \in ExactTools /\ scenario' = scenario /\ call' = call
      BY <2>2 DEF ExactStep, othersOfExact, call
    <3>2. ASSUME UNCHANGED <<repositoryVars, targets, missing>>, pc' \in {"probe", "is_empty", "tree", "raised"},
                 pc \in LookingUp \/ pc' = "raised", pc' = "probe" => targets[1] \in absent \/ ~access
          PROVE  ExactSound' /\ AbsenceSound'
      BY <3>2, <3>1 DEF repositoryVars, ExactSound, LookingUp, AbsenceSound
    <3>3. CASE LookUp
      <4>1. pc \in LookingUp /\ UNCHANGED repositoryVars
        BY <3>3 DEF LookUp, LookingUp
      <4>2. CASE access /\ empty
        BY <3>3, <4>2, <3>2, <4>1 DEF LookUp, Then
      <4>3. CASE access /\ ~empty /\ targets[1] \in present
        BY <3>3, <4>3, <3>1, <4>1, FoundSoundly DEF LookUp
      <4>4. CASE ~(access /\ empty) /\ ~(access /\ ~empty /\ targets[1] \in present)
        <5>1. pc' = "probe" /\ UNCHANGED <<targets, missing>>
          BY <3>3, <4>4 DEF LookUp, Then
        <5>2. targets[1] \in Object
          BY <3>1, <4>1 DEF ExactSound
        <5>3. targets[1] \in absent \/ ~access
          BY <4>4, <5>2 DEF AbsenceSound, ExactSound
        <5>. QED  BY <3>2, <4>1, <5>1, <5>3
      <4>. QED  BY <4>2, <4>3, <4>4
    <3>4. CASE ProbeAccess
      BY <3>4, <3>1, <3>2, FoundSoundly DEF ProbeAccess, LookingUp, AbsenceSound, Raises
    <3>5. CASE AskEmpty
      <4>1. pc \in LookingUp /\ UNCHANGED repositoryVars
        BY <3>5 DEF AskEmpty, LookingUp
      <4>2. CASE access /\ empty
        <5>1. Found(FALSE)
          BY <3>5, <4>2 DEF AskEmpty
        <5>2. targets[1] \in Object
          BY <3>1, <4>1 DEF ExactSound
        <5>3. targets[1] \in absent
          BY <4>2, <5>2 DEF AbsenceSound
        <5>. QED  BY <3>1, <4>1, <5>1, <5>3, FoundSoundly
      <4>3. CASE ~(access /\ empty)
        BY <3>5, <4>3, <3>2, <4>1 DEF AskEmpty, Raises
      <4>. QED  BY <4>2, <4>3
    <3>6. CASE Compare
      <4>1. pc = "compare" /\ UNCHANGED <<present, empty, access, absent, regained, missing>>
        BY <3>6 DEF Compare, repositoryVars
      <4>2. call.tool = "compare"
        BY <3>1, <4>1 DEF RequestOfTool, Requests, Ended, ExactTools
      <4>3. call.object \in Object /\ call.head \in Object
        BY <4>2, ExactAssumption DEF RequestOfTool, call, ExactTools
      <4>4. CASE access /\ {call.object, call.head} \subseteq present /\ scenario.related
        BY <3>6, <4>4, <3>1, <4>1 DEF Compare, Returns, Comparison, ExactSound, LookingUp, AbsenceSound
      <4>5. CASE ~(access /\ {call.object, call.head} \subseteq present /\ scenario.related)
        <5>1. pc' = "lookup" /\ (targets' = targets \/ targets' = <<call.object, call.head>>)
          BY <3>6, <4>5 DEF Compare, Then
        <5>2. targets \in Seq(Object) /\ targets # <<>>
          BY <3>1, <4>1 DEF ExactSound, LookingUp
        <5>3. targets' \in Seq(Object) /\ targets' # <<>>
          <6>1. <<call.object, call.head>> \in Seq(Object) /\ <<call.object, call.head>> # <<>>
            BY <4>3
          <6>. QED  BY <5>1, <5>2, <6>1, Zenon
        <5>4. ExactSound'
          BY <3>1, <4>1, <5>3 DEF ExactSound
        <5>. QED  BY <3>1, <4>1, <5>1, <5>4 DEF AbsenceSound
      <4>. QED  BY <4>4, <4>5
    <3>7. CASE ListTree
      BY <3>7, <3>1 DEF ListTree, exactVars, repositoryVars, Raises, Returns, ExactSound, LookingUp,
         AbsenceSound
    <3>. QED  BY <3>1, <3>3, <3>4, <3>5, <3>6, <3>7 DEF ExactNext
  <2>3. CASE RepositoryMoves
    <3>1. UNCHANGED <<scenario, replyVars, targets, missing>> /\ call' = call
      BY <2>3 DEF RepositoryMoves, ExactGitHub, AccessChanges, Pushed, RefDeleted, Change, call
    <3>2. \/ AccessChanges \/ \E o \in Object : Pushed(o) \/ RefDeleted(o)
      BY <2>3 DEF RepositoryMoves, ExactGitHub
    <3>3. CASE AccessChanges
      BY <3>3, <3>1 DEF AccessChanges, ExactSound, replyVars, AbsenceSound
    <3>4. ASSUME NEW o \in Object, Pushed(o) PROVE ExactSound' /\ AbsenceSound'
      BY <3>4, <3>1 DEF Pushed, ExactSound, replyVars, AbsenceSound
    <3>5. ASSUME NEW o \in Object, RefDeleted(o) PROVE ExactSound' /\ AbsenceSound'
      BY <3>5, <3>1 DEF RefDeleted, ExactSound, replyVars, AbsenceSound
    <3>. QED  BY <3>2, <3>3, <3>4, <3>5
  <2>4. CASE LogStep \/ RunListStep \/ WatchStep \/ ArchiveStep
    <3>1. UNCHANGED <<exactVars, scenario>>
      BY <2>4 DEF LogStep, othersOfLog, RunListStep, othersOfRunList, WatchStep, othersOfWatch, ArchiveStep, othersOfArchive
    <3>2. call.tool \notin ExactTools
      BY <2>4 DEF LogStep, RunListStep, WatchStep, ArchiveStep, LogTools, RunListTools, ArchiveTools, ExactTools
    <3>. QED  BY <2>1, <3>1, <3>2
  <2>5. CASE WholeStep \/ PullStep
    BY <2>5, <2>1 DEF WholeStep, othersOfWhole, PullStep, othersOfPull, WholeTools, PullTools,
       ExactTools
  <2>6. CASE FailStep
    BY <2>1, <2>6 DEF FailStep, RequestFails, Raises
  <2>7. CASE RunMoves
    BY <2>1, <2>7 DEF RunMoves, GitHub, JobAppears, JobCompletes, AttemptCompletes, Rerun, RunChange, Change
  <2>8. CASE ItemMoves
    BY <2>1, <2>8 DEF ItemMoves, ListGitHub, ItemAppears, ItemDeleted, Change
  <2>9. CASE SnapshotMoves
    BY <2>1, <2>9 DEF SnapshotMoves, PullGitHub, PullMoves, Change
  <2>10. CASE UNCHANGED vars
    BY <2>1, <2>10 DEF vars
  <2>. QED  BY <2>2, <2>3, <2>4, <2>5, <2>6, <2>7, <2>8, <2>9, <2>10, StepByTool
<1>. QED  BY <1>1, <1>2, RequestOfToolInvariant, PTL DEF Spec

\* What is said to be missing was missing at some moment of the call.
LEMMA AbsenceIsRealInvariant == Spec => []AbsenceIsReal
<1>1. AbsenceSound => AbsenceIsReal
  BY DEF AbsenceSound, AbsenceIsReal
<1>. QED  BY <1>1, ExactSoundInvariant, PTL

-----------------------------------------------------------------------------
(***************************************************************************)
(* Lists.  What there was at first is either with the caller or behind the *)
(* pages it has had, as long as nothing is deleted; once a page has been   *)
(* read, that holds with the page in the caller's hands, if the page is as *)
(* long as its total says; and nothing is behind a page that is the last.  *)
(***************************************************************************)

PageStart == (listPage - 1) * PageLimit
PageEnd == listPage * PageLimit

\* What is behind place n of a list.
BehindIn(list, n) == {list[k] : k \in (n + 1)..Len(list)}
Behind(n) == BehindIn(items, n)

\* A page and its total, as they were read.
PageCovers(count, ids, rest) ==
  Len(ids) >= Expected(listPage, PageLimit, count) =>
    /\ atFirst \subseteq collected \cup ToSet(ids) \cup rest
    /\ PageEnd >= count => atFirst \subseteq collected \cup ToSet(ids)

ListCovers ==
  call.tool \in Paged /\ ~deleted /\ ~flagged =>
    /\ pc \in {"items", "pin", "whole", "matches", "look", "content"} =>
         atFirst \subseteq collected \cup Behind(PageStart)
    /\ pc = "names" \/ (pc = "verify" /\ call.tool = "list_artifacts") =>
         /\ read.total \in Nat /\ Len(read.page) \in Nat
         /\ PageCovers(read.total, read.page, Behind(PageEnd))
    /\ pc = "count" =>
         read \in Seq(Item) /\ atFirst \subseteq collected \cup ToSet(read) \cup Behind(Len(read))
    /\ pc = "following" \/ (pc = "verify" /\ call.tool = "list_reviews") =>
         /\ atFirst \subseteq collected \cup ToSet(read.page) \cup Behind(PageEnd)
         /\ pc = "verify" /\ ~read.more => atFirst \subseteq collected \cup ToSet(read.page)
    /\ pc = "following" => DOMAIN read = {"page", "more"}
    /\ pc = "delivered" => atFirst \subseteq collected

JobsCover ==
  call.tool = "list_jobs" /\ pinnedTo \subseteq {1} =>
    /\ pc \in {"pin", "jobs"} => atFirst \subseteq collected \cup BehindIn(listed[1], PageStart)
    /\ pc = "verify" /\ attempt = 1 =>
         /\ read.total \in Nat
         /\ atFirst \subseteq collected \cup ToSet(read.page) \cup BehindIn(listed[1], PageEnd)
         /\ PageEnd >= read.total => atFirst \subseteq collected \cup ToSet(read.page)
    /\ pc = "delivered" /\ pinnedTo = {1} => atFirst \subseteq collected

\* The pages of one snapshot so far.
Records(s, n) == {<<s, <<s, k>>>> : k \in {k \in 1..scenario.size[s] : k <= n}}

PullsCover ==
  call.tool \in {"pr_diff", "list_files", "list_commits"} /\ ~cameBack =>
    /\ pc \in {"look", "content", "verify"} =>
         /\ pinnedTo = {} => collected = {} /\ listPage = 1
         /\ \A s \in pinnedTo : s \in Snapshot /\ (pinnedTo = {s} => collected = Records(s, PageStart))
    /\ pc \in {"content", "verify"} => seen \in Snapshot
    /\ pc = "verify" /\ snapshot = seen => read.page = Page(Content(seen))
    /\ pc = "delivered" /\ ~flagged =>
         \A s \in pinnedTo : pinnedTo = {s} => collected = {<<s, <<s, k>>>> : k \in 1..scenario.size[s]}

LEMMA PageSizes ==
  ASSUME RequestOfTool, ListSound, call.tool \in ListTools
  PROVE  /\ PageLimit \in Nat \ {0} /\ PageStart \in Nat /\ PageEnd \in Nat
         /\ PageEnd = PageStart + PageLimit
         /\ listPage = 1 => PageStart = 0
         /\ (listPage + 1 - 1) * PageLimit = PageEnd
<1>1. call.perPage \in Nat \ {0} /\ HardPerPage \in Nat \ {0}
  BY ListAssumption DEF RequestOfTool, call
<1>2. PageLimit = IF call.perPage <= HardPerPage THEN call.perPage ELSE HardPerPage
  BY <1>1, MinIs DEF PageLimit, PerPage
<1>3. PageLimit \in Nat \ {0}
  BY <1>1, <1>2
<1>4. PICK p \in Nat \ {0}, per \in Nat \ {0} : p = listPage /\ per = PageLimit
  BY <1>3 DEF ListSound
<1>5. PICK a \in Nat : a = p - 1
  BY <1>4
<1>6. a * per \in Nat /\ (a + 1) * per = a * per + per /\ 0 * per = 0
  OBVIOUS
<1>7. p - 1 = a /\ p = a + 1 /\ p + 1 - 1 = a + 1
  BY <1>5
<1>8. PageStart = a * per /\ PageEnd = (a + 1) * per
  BY <1>4, <1>7 DEF PageStart, PageEnd
<1>9. listPage = 1 => PageStart = 0
  BY <1>4, <1>5, <1>6, <1>8
<1>10. (listPage + 1 - 1) * PageLimit = PageEnd
  BY <1>4, <1>7, <1>8
<1>. QED  BY <1>3, <1>4, <1>6, <1>8, <1>9, <1>10

\* A slice of a list, and what is behind it.
LEMMA Slice ==
  ASSUME NEW X, NEW s \in Seq(X), NEW lo \in Nat, NEW m \in Int, m <= Len(s)
  PROVE  /\ SubSeq(s, lo + 1, m) \in Seq(X)
         /\ Len(SubSeq(s, lo + 1, m)) = (IF lo < m THEN m - lo ELSE 0)
         /\ ToSet(SubSeq(s, lo + 1, m)) = {s[k] : k \in (lo + 1)..m}
         /\ \A k \in (lo + 1)..m : s[k] \in ToSet(SubSeq(s, lo + 1, m))
         /\ \A k \in 1..(m - lo) : SubSeq(s, lo + 1, m)[k] = s[lo + k]
<1>1. \A k \in (lo + 1)..m : s[k] \in X
  BY LenProperties
<1>2. PICK i \in Int : i = lo + 1
  OBVIOUS
<1>3. /\ SubSeq(s, i, m) \in Seq(X)
      /\ Len(SubSeq(s, i, m)) = (IF i <= m THEN m - i + 1 ELSE 0)
      /\ \A k \in 1..(m - i + 1) : SubSeq(s, i, m)[k] = s[i + k - 1]
  BY <1>1, <1>2, SubSeqProperties
<1>4. PICK u \in Seq(X), n \in Nat : u = SubSeq(s, i, m) /\ n = Len(u)
  BY <1>3, LenProperties
<1>5. n = (IF lo < m THEN m - lo ELSE 0) /\ \A k \in 1..(m - lo) : u[k] = s[lo + k]
  BY <1>3, <1>4, <1>2
<1>6. ToSet(u) = {s[k] : k \in (lo + 1)..m}
  <2>0. n = Len(u)
    BY <1>4
  <2>1. ToSet(u) = {u[k] : k \in 1..n}
    BY <2>0, ToSetIs
  <2>2. ASSUME NEW k \in 1..n PROVE u[k] = s[lo + k] /\ lo + k \in (lo + 1)..m
    BY <1>5
  <2>3. ASSUME NEW k \in (lo + 1)..m PROVE k - lo \in 1..n /\ u[k - lo] = s[k]
    BY <1>5
  <2>4. ToSet(u) \subseteq {s[k] : k \in (lo + 1)..m}
    BY <2>1, <2>2
  <2>5. {s[k] : k \in (lo + 1)..m} \subseteq ToSet(u)
    BY <2>1, <2>3
  <2>. QED  BY <2>4, <2>5
<1>7. \A k \in (lo + 1)..m : s[k] \in ToSet(u)
  BY <1>6
<1>. QED  BY <1>2, <1>4, <1>5, <1>6, <1>7

\* A page that ends at the end of the page or of the list.
LEMMA SliceCovers ==
  ASSUME NEW X, NEW s \in Seq(X), NEW lo \in Nat, NEW hi \in Nat, NEW m \in Int, m <= Len(s),
         m >= hi \/ m >= Len(s)
  PROVE  BehindIn(s, lo) \subseteq ToSet(SubSeq(s, lo + 1, m)) \cup BehindIn(s, hi)
BY LenProperties, Slice DEF BehindIn

LEMMA NothingBehind ==
  ASSUME NEW X, NEW s \in Seq(X), NEW n \in Int, n >= Len(s)
  PROVE  BehindIn(s, n) = {}
BY LenProperties DEF BehindIn

\* GitHub's page of a list.
LEMMA PageOfList ==
  ASSUME RequestOfTool, ListSound, call.tool \in ListTools, NEW X, NEW s \in Seq(X)
  PROVE  /\ Page(s) \in Seq(X)
         /\ BehindIn(s, PageStart) \subseteq ToSet(Page(s)) \cup BehindIn(s, PageEnd)
         /\ Len(Page(s)) \in Nat
         /\ Len(Page(s)) < PageLimit => BehindIn(s, PageEnd) = {}
<1>1. PICK lo \in Nat, hi \in Nat, per \in Nat \ {0} : lo = PageStart /\ hi = PageEnd /\ per = PageLimit /\ hi = lo + per
  BY PageSizes
<1>2. PICK n \in Nat, m \in Int : n = Len(s) /\ m = (IF hi <= n THEN hi ELSE n)
  BY LenProperties
<1>3. Page(s) = SubSeq(s, lo + 1, m)
  <2>1. Min({hi, n}) = m
    BY <1>2, MinIs
  <2>. QED  BY <1>1, <1>2, <2>1 DEF Page, PageStart, PageEnd
<1>4. /\ SubSeq(s, lo + 1, m) \in Seq(X)
      /\ Len(SubSeq(s, lo + 1, m)) = (IF lo < m THEN m - lo ELSE 0)
  BY <1>2, Slice
<1>5. BehindIn(s, lo) \subseteq ToSet(SubSeq(s, lo + 1, m)) \cup BehindIn(s, hi)
  BY <1>2, SliceCovers
<1>6. Len(Page(s)) < per => hi >= n
  BY <1>1, <1>2, <1>3, <1>4
<1>7. Len(Page(s)) < per => BehindIn(s, hi) = {}
  BY <1>2, <1>6, NothingBehind
<1>. QED  BY <1>1, <1>3, <1>4, <1>5, <1>7, LenProperties

\* How much of a page its total expects.
LEMMA ExpectedIs ==
  ASSUME RequestOfTool, ListSound, call.tool \in ListTools, NEW count \in Nat
  PROVE  /\ Expected(listPage, PageLimit, count) =
              (IF count <= PageStart THEN 0 ELSE IF count >= PageEnd THEN PageLimit ELSE count - PageStart)
         /\ HasMore(listPage, PageLimit, count) <=> PageEnd < count
BY PageSizes, MinIs, MaxIs DEF Expected, PageStart, HasMore

\* What a page was, with what is behind it, holds what was behind the pages before.
LEMMA ItemsRead ==
  ASSUME RequestOfTool, ListSound, call.tool \in ListTools, ReadItems
  PROVE  /\ read'.total \in Nat /\ read'.page \in Seq(Item)
         /\ Len(read'.page) >= Expected(listPage, PageLimit, read'.total) =>
              /\ Behind(PageStart) \subseteq ToSet(read'.page) \cup Behind(PageEnd)
              /\ PageEnd >= read'.total => Behind(PageEnd) = {}
<1>1. PICK lo \in Nat, hi \in Nat, per \in Nat \ {0} : lo = PageStart /\ hi = PageEnd /\ per = PageLimit /\ hi = lo + per
  BY PageSizes
<1>2. PICK size \in Nat : size = Len(items)
  BY LenProperties DEF ListSound
<1>3. PICK reach \in Nat : /\ reach <= size
                           /\ reach = IF call.filtered THEN Min({SearchWindow, Len(items)}) ELSE Len(items)
  BY <1>2, WindowAssumption, MinIs
<1>4. PICK last \in Nat : last = Min({hi, reach}) /\ last <= reach /\ last <= hi
  BY MinIs
<1>5. PICK n \in 0..1 : read' = [page |-> SubSeq(items, lo + 1, last - n), total |-> size]
  BY <1>1, <1>2, <1>3, <1>4 DEF ReadItems, PageStart, PageEnd, Answer
<1>6. PICK m \in Int : m = last - n
  OBVIOUS
<1>13. m <= Len(items) /\ items \in Seq(Item)
  BY <1>2, <1>3, <1>4, <1>6 DEF ListSound
<1>14. /\ SubSeq(items, lo + 1, m) \in Seq(Item)
       /\ Len(SubSeq(items, lo + 1, m)) = IF lo < m THEN m - lo ELSE 0
  BY <1>13, Slice
<1>7. PICK u \in Seq(Item) : u = SubSeq(items, lo + 1, m)
  BY <1>14
<1>8. read'.page = u /\ read'.total = size
  BY <1>5, <1>6, <1>7
<1>9. Len(u) = IF lo < m THEN m - lo ELSE 0
  BY <1>7, <1>14, Zenon
<1>10. Expected(listPage, PageLimit, size) = (IF size <= lo THEN 0 ELSE IF size >= hi THEN per ELSE size - lo)
  BY <1>1, ExpectedIs
<1>11. ASSUME Len(u) >= Expected(listPage, PageLimit, size)
       PROVE  BehindIn(items, lo) \subseteq ToSet(u) \cup BehindIn(items, hi)
  <2>1. CASE size <= lo
    BY <1>2, <2>1, NothingBehind DEF ListSound
  <2>2. CASE size > lo
    <3>1. m >= hi \/ m >= size
      BY <1>1, <1>9, <1>10, <1>11, <2>2
    <3>2. m <= size
      BY <1>3, <1>4, <1>6
    <3>3. BehindIn(items, lo) \subseteq ToSet(SubSeq(items, lo + 1, m)) \cup BehindIn(items, hi)
      BY <1>2, <3>1, <3>2, SliceCovers DEF ListSound
    <3>. QED  BY <1>7, <3>3
  <2>. QED  BY <2>1, <2>2
<1>12. hi >= size => BehindIn(items, hi) = {}
  BY <1>2, NothingBehind DEF ListSound
<1>. QED  BY <1>1, <1>8, <1>11, <1>12 DEF Behind

\* The caller has a page.
LEMMA HandOverCovers ==
  ASSUME RequestOfTool, ListSound, call.tool \in Paged, scenario' = scenario,
         NEW ids, NEW more, NEW incomplete, NEW of, NEW first, HandOver(ids, more, incomplete, of, first),
         first \in {"items", "pin", "whole", "matches", "look"},
         ~deleted /\ ~flagged /\ ~incomplete =>
           /\ more => atFirst \subseteq collected \cup ToSet(ids) \cup Behind(PageEnd)
           /\ ~more => atFirst \subseteq collected \cup ToSet(ids)
  PROVE  ListCovers'
<1>1. /\ call' = call /\ collected' = collected \cup ToSet(ids) /\ UNCHANGED <<items, deleted, atFirst>>
      /\ flagged' = (flagged \/ incomplete)
  BY DEF call, HandOver
<1>2. call.tool \in ListTools
  BY DEF Paged, Shrinking, ListTools
<1>3. SUFFICES ASSUME ~deleted', ~flagged' PROVE ListCovers'
  BY DEF ListCovers
<1>4. ~deleted /\ ~flagged /\ ~incomplete
  BY <1>1, <1>3
<1>5. CASE more
  BY <1>5, <1>1, <1>4 DEF HandOver, Then, PageLimit, PageStart, ListSound, PageEnd, Behind, ListCovers
<1>6. CASE ~more
  BY <1>6, <1>1, <1>4 DEF HandOver, Returns, ListCovers
<1>. QED  BY <1>5, <1>6

\* A list that grows keeps what is behind a place of it.
LEMMA GrownBehind ==
  ASSUME NEW X, NEW s \in Seq(X), NEW one \in Seq(X), Len(one) = 1, NEW t \in Seq(X),
         t = s \o one \/ t = one \o s, NEW n \in Nat
  PROVE  BehindIn(s, n) \subseteq BehindIn(t, n)
<1>1. PICK m \in Nat : m = Len(s) /\ \A k \in 1..m : s[k] \in X
  BY LenProperties
<1>2. ASSUME NEW k \in (n + 1)..m PROVE \E l \in (n + 1)..Len(t) : t[l] = s[k]
  <2>1. CASE t = s \o one
    BY <1>1, <2>1, ConcatProperties
  <2>2. CASE t = one \o s
    <3>1. Len(t) = m + 1 /\ t[k + 1] = s[k]
      <4>0. /\ Len(one \o s) = Len(one) + Len(s)
            /\ \A j \in 1..(Len(one) + Len(s)) : (one \o s)[j] = IF j <= Len(one) THEN one[j] ELSE s[j - Len(one)]
        BY ConcatProperties
      <4>1. /\ Len(one \o s) = 1 + m
            /\ \A i \in 1..(1 + m) : (one \o s)[i] = IF i <= 1 THEN one[i] ELSE s[i - 1]
        BY <1>1, <4>0
      <4>2. k + 1 \in 1..(1 + m) /\ ~(k + 1 <= 1) /\ k + 1 - 1 = k
        BY <1>1
      <4>3. (one \o s)[k + 1] = s[k]
        BY <4>1, <4>2
      <4>. QED  BY <2>2, <4>1, <4>3
    <3>. QED  BY <3>1
  <2>. QED  BY <2>1, <2>2
<1>. QED  BY <1>1, <1>2 DEF BehindIn

LEMMA ListCoversGrows ==
  ASSUME RequestOfTool, ListSound, ListCovers, NEW i \in Item, ItemAppears(i)
  PROVE  ListCovers'
<1>1. /\ UNCHANGED <<scenario, pc, listPage, read, collected, flagged, deleted, atFirst>> /\ call' = call
      /\ call.tool \in Paged
  BY DEF ItemAppears, Change, replyVars, call, Paged
<1>2. PICK one \in Seq(Item) : one = <<i>> /\ Len(one) = 1
  <2>1. <<i>> \in Seq(Item) /\ Len(<<i>>) = 1
    OBVIOUS
  <2>. QED  BY <2>1, Zenon
<1>3. PICK t \in Seq(Item) : t = items' /\ (t = items \o one \/ t = one \o items)
  BY <1>2, ConcatProperties DEF ListSound, ItemAppears
<1>4. ASSUME NEW n \in Nat PROVE Behind(n) \subseteq Behind(n)'
  BY <1>2, <1>3, GrownBehind DEF ListSound, Behind
<1>5. call.tool \in ListTools
  BY <1>1 DEF Paged, Shrinking, ListTools
<1>6. PageStart' = PageStart /\ PageEnd' = PageEnd /\ PageLimit' = PageLimit /\ PageStart \in Nat /\ PageEnd \in Nat
  BY <1>1, <1>5, PageSizes DEF PageStart, PageEnd, PageLimit
<1>7. /\ Behind(PageStart) \subseteq Behind(PageStart)' /\ Behind(PageEnd) \subseteq Behind(PageEnd)'
  BY <1>6, <1>4 DEF Behind
<1>8. SUFFICES ASSUME ~deleted, ~flagged PROVE ListCovers'
  BY <1>1 DEF ListCovers
<1>9. pc' \in {"items", "pin", "whole", "matches", "look", "content"} =>
        atFirst' \subseteq collected' \cup Behind(PageStart)'
  BY <1>1, <1>7, <1>8 DEF ListCovers
<1>10. pc' = "names" \/ (pc' = "verify" /\ call'.tool = "list_artifacts") =>
         read'.total \in Nat /\ Len(read'.page) \in Nat /\ PageCovers(read.total, read.page, Behind(PageEnd))'
  BY <1>1, <1>8, <1>7, <1>6 DEF ListCovers, PageCovers
<1>11. pc' = "count" =>
         read' \in Seq(Item) /\ atFirst' \subseteq collected' \cup ToSet(read') \cup Behind(Len(read))'
  BY <1>1, <1>8, <1>4, LenProperties DEF ListCovers, Behind
<1>12. pc' = "following" \/ (pc' = "verify" /\ call'.tool = "list_reviews") =>
         /\ atFirst' \subseteq collected' \cup ToSet(read'.page) \cup Behind(PageEnd)'
         /\ pc' = "verify" /\ ~read'.more => atFirst' \subseteq collected' \cup ToSet(read'.page)
  BY <1>1, <1>7, <1>8 DEF ListCovers
<1>13. pc' = "delivered" => atFirst' \subseteq collected'
  BY <1>1, <1>8 DEF ListCovers
<1>14. pc' = "following" => DOMAIN read' = {"page", "more"}
  BY <1>1, <1>8 DEF ListCovers
<1>. QED  BY <1>9, <1>10, <1>11, <1>12, <1>13, <1>14 DEF ListCovers

\* A page with a total has been checked against it.
LEMMA PageDoneCovers ==
  ASSUME RequestOfTool, ListSound, call.tool \in Paged, scenario' = scenario,
         NEW count, NEW incomplete, NEW of,
         PageDone(read.page, PageEvidence(listPage, call.perPage, HardPerPage, count, Len(read.page)).hasMore,
                  incomplete, of),
         ~deleted /\ ~flagged /\ ~incomplete =>
           /\ count \in Nat /\ Len(read.page) \in Nat
           /\ ~PageEvidence(listPage, call.perPage, HardPerPage, count, Len(read.page)).truncated
           /\ PageCovers(count, read.page, Behind(PageEnd))
  PROVE  ListCovers'
<1> DEFINE evidence == PageEvidence(listPage, call.perPage, HardPerPage, count, Len(read.page))
           first == IF call.tool = "list_runs" THEN "items" ELSE "pin"
<1>1. HandOver(read.page, evidence.hasMore, incomplete, of, first)
  BY DEF PageDone
<1>2. first \in {"items", "pin", "whole", "matches", "look"}
  OBVIOUS
<1>3. call.tool \in ListTools
  BY DEF Paged, Shrinking, ListTools
<1>4. /\ evidence.hasMore = HasMore(listPage, PageLimit, count)
      /\ evidence.truncated = (\/ Len(read.page) < Expected(listPage, PageLimit, count)
                               \/ call.perPage > HardPerPage /\ HasMore(listPage, PageLimit, count))
  BY Zenon DEF PageEvidence, PageLimit
<1>5. ASSUME ~deleted, ~flagged, ~incomplete
      PROVE  /\ evidence.hasMore => atFirst \subseteq collected \cup ToSet(read.page) \cup Behind(PageEnd)
             /\ ~evidence.hasMore => atFirst \subseteq collected \cup ToSet(read.page)
  BY <1>5, <1>3, <1>4, PageSizes, ExpectedIs DEF PageCovers
<1>. HIDE DEF evidence, first
<1>. QED  BY <1>1, <1>2, <1>5, HandOverCovers

LEMMA ListCoversStays ==
  ASSUME ListCovers, call' = call, call.tool \notin Paged \/ pc' = "raised" \/ UNCHANGED <<pc, listVars>>
  PROVE  ListCovers'
BY DEF ListCovers, listVars, Behind, PageCovers, PageStart, PageEnd, PageLimit

LEMMA RunListCovers ==
  ASSUME RequestOfTool, ListSound, ListCovers, RunListStep
  PROVE  ListCovers'
<1>1. /\ RunListNext /\ scenario' = scenario /\ call' = call /\ call.tool \in RunListTools
  BY DEF RunListStep, othersOfRunList, call
<1>2. SUFFICES ASSUME call.tool \in {"list_runs", "list_artifacts"} PROVE ListCovers'
  BY <1>1, ListCoversStays DEF RunListTools, Paged, Shrinking
<1>3. call.tool \in Paged /\ call.tool \in ListTools
  BY <1>2 DEF Paged, Shrinking, ListTools
<1>4. call.tool \in DOMAIN FirstRequest
  BY <1>2 DEF FirstRequest
<1>5. CASE ReadItems
  BY <1>5, <1>3, <1>1, <1>2, ItemsRead, LenProperties DEF ReadItems, Goto, Then, cursorVars, ListCovers,
     PageEnd, PageLimit, Behind, PageCovers
<1>6. CASE ListRuns
  <2> DEFINE accessible == IF call.filtered THEN Min({read.total, SearchWindow}) ELSE read.total
             evidence == PageEvidence(listPage, call.perPage, HardPerPage, accessible, Len(read.page))
             uncertain == call.filtered /\ read.total >= SearchWindow
  <2>1. pc = "names"
    BY <1>6 DEF ListRuns
  <2>2. \/ (Raise /\ UNCHANGED listVars)
        \/ PageDone(read.page, evidence.hasMore, evidence.truncated \/ uncertain, {})
    BY <1>6, Zenon DEF ListRuns
  <2>3. CASE Raise /\ UNCHANGED listVars
    BY <1>1, <2>3, ListCoversStays DEF Raise, Raises
  <2>4. CASE PageDone(read.page, evidence.hasMore, evidence.truncated \/ uncertain, {})
    <3>1. ASSUME ~deleted, ~flagged, ~(evidence.truncated \/ uncertain)
          PROVE  /\ accessible \in Nat /\ Len(read.page) \in Nat
                 /\ ~evidence.truncated /\ PageCovers(accessible, read.page, Behind(PageEnd))
      <4>1. read.total \in Nat /\ Len(read.page) \in Nat /\ PageCovers(read.total, read.page, Behind(PageEnd))
        BY <1>3, <2>1, <3>1 DEF ListCovers
      <4>2. accessible = read.total
        BY <4>1, <3>1, WindowAssumption, MinIs
      <4>. HIDE DEF accessible
      <4>3. ~evidence.truncated
        BY <3>1
      <4>. QED  BY <4>1, <4>2, <4>3
    <3>. HIDE DEF accessible, uncertain
    <3>. QED  BY <1>1, <1>3, <2>4, <3>1, PageDoneCovers
  <2>. QED  BY <2>2, <2>3, <2>4
<1>7. CASE PinRun
  BY <1>7, <1>2, <1>1 DEF PinRun, Goto, Then, cursorVars, Behind, PageStart, PageLimit, ListCovers
<1>8. CASE ReadJobs \/ ListJobs
  <2>1. pc = "jobs" \/ call.tool = "list_jobs"
    BY <1>8 DEF ReadJobs, ListJobs
  <2>. QED  BY <1>2, <1>4, <2>1 DEF RequestOfTool, Requests, Ended
<1>9. CASE ListArtifacts
  <2> DEFINE evidence == PageEvidence(listPage, call.perPage, HardPerPage, read.total, Len(read.page))
  <2>1. pc = "verify" /\ call.tool = "list_artifacts"
    BY <1>9 DEF ListArtifacts
  <2>2. \/ (Raise /\ UNCHANGED listVars)
        \/ PageDone(read.page, evidence.hasMore, evidence.truncated, {seen})
    BY <1>9, Zenon DEF ListArtifacts
  <2>3. CASE Raise /\ UNCHANGED listVars
    BY <1>1, <2>3, ListCoversStays DEF Raise, Raises
  <2>4. CASE PageDone(read.page, evidence.hasMore, evidence.truncated, {seen})
    BY <1>3, <2>1, <1>1, <2>4, PageDoneCovers DEF ListCovers
  <2>. QED  BY <2>2, <2>3, <2>4
<1>. QED  BY <1>1, <1>5, <1>6, <1>7, <1>8, <1>9 DEF RunListNext

LEMMA WholeCovers ==
  ASSUME RequestOfTool, ListSound, ListCovers, WholeStep
  PROVE  ListCovers'
<1>1. /\ RepositoryListNext /\ scenario' = scenario /\ call' = call /\ call.tool \in WholeTools
  BY DEF WholeStep, othersOfWhole, call
<1>2. call.tool \in Paged /\ call.tool \in ListTools
  BY <1>1 DEF Paged, Shrinking, ListTools, WholeTools
<1>3. /\ Page(items) \in Seq(Item) /\ Len(Page(items)) \in Nat
      /\ Behind(PageStart) \subseteq ToSet(Page(items)) \cup Behind(PageEnd)
      /\ Len(Page(items)) < PageLimit => Behind(PageEnd) = {}
  BY <1>2, PageOfList DEF ListSound, Behind
<1>4. PageLimit \in Nat
  BY <1>2, PageSizes
<1>5. CASE ListAll
  <2>1. pc = "whole" /\ HandOver(Page(items), FALSE, Len(Page(items)) >= PageLimit, {}, "whole")
    BY <1>5 DEF ListAll
  <2>2. ASSUME ~deleted, ~flagged, ~(Len(Page(items)) >= PageLimit)
        PROVE  atFirst \subseteq collected \cup ToSet(Page(items))
    BY <1>2, <2>1, <2>2, <1>3, <1>4 DEF ListCovers
  <2>. QED  BY <1>1, <1>2, <2>1, <2>2, HandOverCovers
<1>6. CASE SearchItems
  <2>1. pc = "matches" /\ pc' = "count" /\ UNCHANGED <<items, listPage, collected, flagged, deleted, atFirst>>
    BY <1>6 DEF SearchItems, Then, cursorVars
  <2>2. PICK n \in 0..Len(Page(items)) : read' = SubSeq(items, 1, n)
    BY <1>6 DEF SearchItems
  <2>3. SUFFICES ASSUME ~deleted, ~flagged PROVE ListCovers'
    BY <2>1 DEF ListCovers
  <2>4. atFirst \subseteq collected \cup Behind(PageStart)
    BY <1>2, <2>1, <2>3 DEF ListCovers
  <2>5. n \in Nat /\ n <= Len(items)
    <3>1. Len(Page(items)) <= Len(items)
      <4>1. PICK lo \in Nat, m \in Int : /\ lo = PageStart /\ m <= Len(items)
                                         /\ m = Min({PageEnd, Len(items)})
        BY <1>2, PageSizes, LenProperties, MinIs DEF ListSound
      <4>2. Page(items) = SubSeq(items, lo + 1, m)
        BY <4>1 DEF Page, PageStart, PageEnd
      <4>3. Len(SubSeq(items, lo + 1, m)) = (IF lo < m THEN m - lo ELSE 0)
        BY <4>1, Slice DEF ListSound
      <4>4. Len(items) \in Nat
        BY LenProperties DEF ListSound
      <4>. QED  BY <4>1, <4>2, <4>3, <4>4
    <3>2. Len(items) \in Nat
      BY LenProperties DEF ListSound
    <3>. QED  BY <1>3, <3>1, <3>2
  <2>20. PICK z \in Nat : z = 0
    OBVIOUS
  <2>6. /\ SubSeq(items, z + 1, n) \in Seq(Item)
        /\ Len(SubSeq(items, z + 1, n)) = IF z < n THEN n - z ELSE 0
    BY <2>5, Slice DEF ListSound
  <2>7. BehindIn(items, z) \subseteq ToSet(SubSeq(items, z + 1, n)) \cup BehindIn(items, n)
    BY <2>5, SliceCovers DEF ListSound
  <2>21. z + 1 = 1
    BY <2>20
  <2>8. PICK u \in Seq(Item) : u = SubSeq(items, 1, n)
    BY <2>6, <2>21
  <2>9. Len(u) = n /\ BehindIn(items, 0) \subseteq ToSet(u) \cup BehindIn(items, n)
    BY <2>8, <2>21, <2>6, <2>7, <2>5, <2>20
  <2>10. Behind(PageStart) \subseteq BehindIn(items, 0)
    BY <1>2, PageSizes DEF Behind, BehindIn
  <2>11. read' = u /\ Behind(Len(read))' = BehindIn(items, n)
    BY <2>1, <2>2, <2>8, <2>9 DEF Behind
  <2>12. read' \in Seq(Item) /\ atFirst' \subseteq collected' \cup ToSet(read') \cup Behind(Len(read))'
    BY <2>1, <2>4, <2>9, <2>10, <2>11
  <2>. QED  BY <2>1, <2>12 DEF ListCovers
<1>7. CASE SearchCount
  <2>1. pc = "count"
    BY <1>7 DEF SearchCount
  <2>2. PICK incomplete \in BOOLEAN, count \in 0..Len(items) :
          /\ incomplete \/ count = Len(items)
          /\ HandOver(read, FALSE,
                      incomplete \/ count < Len(read) \/ Len(read) < Max({count, Len(read)}), {}, "matches")
    BY <1>7, Zenon DEF SearchCount
  <2>3. ASSUME ~deleted, ~flagged, ~(incomplete \/ count < Len(read) \/ Len(read) < Max({count, Len(read)}))
        PROVE  atFirst \subseteq collected \cup ToSet(read)
    BY <1>2, <2>1, <2>3, <2>2, LenProperties, MaxIs, NothingBehind DEF ListCovers, ListSound, Behind
  <2>. QED  BY <1>1, <1>2, <2>2, <2>3, HandOverCovers
<1>. QED  BY <1>1, <1>5, <1>6, <1>7 DEF RepositoryListNext

LEMMA ReviewsCover ==
  ASSUME RequestOfTool, ListSound, ListCovers, PullStep
  PROVE  ListCovers'
<1>1. /\ PullNext /\ scenario' = scenario /\ call' = call /\ call.tool \in PullTools
  BY DEF PullStep, othersOfPull, call
<1>2. SUFFICES ASSUME call.tool = "list_reviews" PROVE ListCovers'
  BY <1>1, ListCoversStays DEF PullTools, Paged, Shrinking
<1>3. call.tool \in Paged /\ call.tool \in ListTools
  BY <1>2 DEF Paged, ListTools
<1>4. PageLimit \in Nat /\ PageEnd \in Nat
  BY <1>3, PageSizes
<1>5. CASE LookFirst
  BY <1>2, <1>5, <1>1 DEF LookFirst, Then, cursorVars, Behind, PageStart, PageLimit, ListCovers
<1>6. CASE ReadReviews
  BY <1>6, <1>3, <1>1, <1>2, PageOfList DEF ReadReviews, cursorVars, Then, ListSound, Behind,
     ListCovers, PageEnd, PageLimit
<1>7. CASE ReadFollowing
  <2>1. pc = "following" /\ pc' = "verify" /\ UNCHANGED <<items, listPage, collected, flagged, deleted, atFirst>>
    BY <1>7 DEF ReadFollowing, Then, cursorVars
  <2>2. read' = [read EXCEPT !.more = Len(items) > PageEnd]
    BY <1>7 DEF ReadFollowing, PageEnd
  <2>3. SUFFICES ASSUME ~deleted, ~flagged PROVE ListCovers'
    BY <2>1 DEF ListCovers
  <2>4. atFirst \subseteq collected \cup ToSet(read.page) \cup Behind(PageEnd)
    BY <1>3, <2>1, <2>3 DEF ListCovers
  <2>5. Behind(PageEnd)' = Behind(PageEnd)
    BY <1>1, <2>1 DEF Behind, PageEnd, PageLimit
  <2>6. read'.page = read.page /\ (~read'.more => Behind(PageEnd) = {})
    <3>1. DOMAIN read = {"page", "more"}
      BY <1>3, <2>1, <2>3 DEF ListCovers
    <3>2. read'.page = read.page /\ read'.more = (Len(items) > PageEnd)
      BY <2>2, <3>1
    <3>3. ~(Len(items) > PageEnd) => Behind(PageEnd) = {}
      BY <1>4, LenProperties, NothingBehind DEF ListSound, Behind
    <3>. QED  BY <3>2, <3>3
  <2>7. call'.tool # "list_artifacts"
    BY <1>1, <1>2
  <2>. QED  BY <2>1, <2>4, <2>5, <2>6, <2>7 DEF ListCovers
<1>8. CASE ListReviews
  BY <1>8, <1>1, <1>2, <1>3, ListCoversStays, HandOverCovers DEF ListReviews, Raises, ListCovers
<1>9. CASE ReadDiff \/ ReadByNumber \/ ReadThread \/ ListPullFiles \/ ListPullCommits \/ GetThread
  BY <1>2, <1>9 DEF ReadDiff, ReadByNumber, ReadThread, ListPullFiles, ListPullCommits, GetThread
<1>. QED  BY <1>1, <1>5, <1>6, <1>7, <1>8, <1>9 DEF PullNext

LEMMA ListCoversInvariant == Spec => []ListCovers
<1>1. Init => ListCovers
  <2> SUFFICES ASSUME Init, call.tool \in Paged PROVE ListCovers
    BY DEF ListCovers
  <2>1. /\ scenario \in Scenarios /\ pc = FirstRequest[call.tool]
        /\ items = scenario.items /\ listPage = 1 /\ collected = {}
        /\ atFirst = (IF call.tool = "list_jobs" THEN ToSet(listed[1]) ELSE ToSet(items))
    BY DEF Init, ReadInit, ListInit
  <2>2. atFirst = ToSet(items) /\ pc \in {"items", "pin", "whole", "matches", "look"}
    BY <2>1 DEF Paged, Shrinking, FirstRequest
  <2>3. scenario.items \in Seq(Item)
    BY <2>1, ListAssumption
  <2>4. items \in Seq(Item)
    BY <2>1, <2>3, Zenon
  <2>5. PageStart = 0
    BY <2>1, ListAssumption, MinIs DEF call, Paged, Shrinking, ListTools, PageLimit, PerPage, PageStart
  <2>6. ToSet(items) \subseteq Behind(PageStart)
    BY <2>4, <2>5, ToSetIs, LenProperties DEF Behind, BehindIn
  <2>. QED  BY <2>2, <2>6 DEF ListCovers
<1>2. RequestOfTool /\ ListSound /\ ListCovers /\ [Next]_vars => ListCovers'
  <2> SUFFICES ASSUME RequestOfTool, ListSound, ListCovers, [Next]_vars PROVE ListCovers'
    OBVIOUS
  <2>1. CASE LogStep \/ WatchStep \/ ArchiveStep
    <3>1. call' = call
      BY <2>1 DEF LogStep, othersOfLog, WatchStep, othersOfWatch, ArchiveStep, othersOfArchive, call
    <3>2. call.tool \notin Paged
      BY <2>1 DEF LogStep, WatchStep, ArchiveStep, LogTools, ArchiveTools, Paged, Shrinking
    <3>. QED  BY <3>1, <3>2, ListCoversStays
  <2>2. CASE ExactStep
    BY <2>2, ListCoversStays DEF ExactStep, othersOfExact, call, ExactTools, Paged, Shrinking
  <2>3. CASE FailStep
    BY <2>3, ListCoversStays DEF FailStep, RequestFails, Raises, call
  <2>4. CASE RunMoves
    BY <2>4, ListCoversStays DEF RunMoves, GitHub, JobAppears, JobCompletes, AttemptCompletes, Rerun,
       RunChange, Change, replyVars, call
  <2>5. CASE ItemMoves
    BY <2>5, ListCoversGrows DEF ItemMoves, ListGitHub, ItemDeleted, ListCovers
  <2>6. CASE SnapshotMoves
    BY <2>6, ListCoversStays DEF SnapshotMoves, PullGitHub, PullMoves, Change, replyVars, call
  <2>7. CASE RepositoryMoves
    BY <2>7, ListCoversStays DEF RepositoryMoves, ExactGitHub, AccessChanges, Pushed, RefDeleted,
       Change, replyVars, call
  <2>8. CASE UNCHANGED vars
    BY <2>8, ListCoversStays DEF vars, replyVars, call
  <2>. QED  BY <2>1, <2>2, <2>3, <2>4, <2>5, <2>6, <2>7, <2>8, StepByTool, RunListCovers, WholeCovers, ReviewsCover
<1>. QED  BY <1>1, <1>2, RequestOfToolInvariant, ListSoundInvariant, PTL DEF Spec

LEMMA JobsCoverStays ==
  ASSUME JobsCover, call' = call,
         \/ call.tool # "list_jobs" \/ pc' = "raised"
         \/ /\ UNCHANGED <<pc, attempt, listVars>>
            /\ \A n \in Nat : BehindIn(listed[1], n) \subseteq BehindIn(listed'[1], n),
         RequestOfTool, ListSound
  PROVE  JobsCover'
BY PageSizes DEF JobsCover, listVars, PageStart, PageEnd, PageLimit, ListTools, BehindIn

LEMMA JobsListCovers ==
  ASSUME RequestOfTool, ListSound, RunSound, JobsCover, RunListStep, call.tool = "list_jobs"
  PROVE  JobsCover'
<1>1. /\ RunListNext /\ scenario' = scenario /\ call' = call /\ UNCHANGED listed
  BY DEF RunListStep, othersOfRunList, call, runVars
<1>2. call.tool \in ListTools /\ call.tool \in DOMAIN FirstRequest
  BY DEF ListTools, FirstRequest
<1>3. PageEnd \in Nat
  BY <1>2, PageSizes
<1>4. CASE PinRun
  <2>1. pc = "pin" /\ (pc' = "raised" \/ (pc' = "jobs" /\ UNCHANGED listVars))
    BY <1>4 DEF PinRun, Raise, Raises
  <2>2. CASE pc' = "raised"
    BY <1>1, <2>2, JobsCoverStays
  <2>3. CASE pc' = "jobs" /\ UNCHANGED listVars
    BY <1>1, <2>3, <2>1 DEF listVars, PageStart, PageLimit, BehindIn, JobsCover
  <2>. QED  BY <2>1, <2>2, <2>3
<1>5. CASE ReadJobs
  <2>1. pc = "jobs" /\ pc' = "verify" /\ attempt' = attempt
    BY <1>5 DEF ReadJobs, Goto, Then
  <2>2. UNCHANGED <<listPage, collected, pinnedTo, atFirst>>
    BY <1>5 DEF ReadJobs, cursorVars
  <2>3. PageStart' = PageStart /\ PageEnd' = PageEnd
    BY <1>1, <2>2 DEF PageStart, PageEnd, PageLimit
  <2>4. BehindIn(listed[1], PageEnd)' = BehindIn(listed[1], PageEnd)
    BY <1>1, <2>3 DEF BehindIn
  <2>5. SUFFICES ASSUME pinnedTo \subseteq {1}, attempt = 1 PROVE JobsCover'
    BY <1>1, <2>1, <2>2 DEF JobsCover
  <2>6. PICK jobs \in Seq(Job), size \in Nat : jobs = listed[1] /\ size = Len(jobs)
    BY RunAssumption, LenProperties DEF Attempt, RunSound
  <2>7. read' = [page |-> Page(jobs), total |-> size]
    BY <1>5, <2>5, <2>6 DEF ReadJobs, Answer, JobsPage, Page
  <2>8. BehindIn(jobs, PageStart) \subseteq ToSet(Page(jobs)) \cup BehindIn(jobs, PageEnd)
    BY <1>2, PageOfList
  <2>9. PageEnd >= size => BehindIn(jobs, PageEnd) = {}
    BY <1>3, <2>6, NothingBehind
  <2>10. atFirst \subseteq collected \cup BehindIn(listed[1], PageStart)
    BY <2>1, <2>5 DEF JobsCover
  <2>11. read'.page = Page(jobs) /\ read'.total = size
    BY <2>7
  <2>12. /\ atFirst' \subseteq collected' \cup ToSet(read'.page) \cup BehindIn(listed[1], PageEnd)'
         /\ PageEnd' >= read'.total => atFirst' \subseteq collected' \cup ToSet(read'.page)
    BY <2>2, <2>3, <2>4, <2>6, <2>8, <2>9, <2>10, <2>11
  <2>. QED  BY <2>1, <2>11, <2>12 DEF JobsCover
<1>6. CASE ListJobs
  <2>1. pc = "verify" /\ HandOver(read.page, PageEnd < read.total, FALSE, {attempt}, "pin")
    BY <1>6 DEF ListJobs, PageDone, PageEnd
  <2>2. collected' = collected \cup ToSet(read.page) /\ pinnedTo' = pinnedTo \cup {attempt} /\ atFirst' = atFirst
    BY <2>1 DEF HandOver
  <2>3. SUFFICES ASSUME pinnedTo' \subseteq {1} PROVE JobsCover'
    BY DEF JobsCover
  <2>4. pinnedTo \subseteq {1} /\ attempt = 1
    BY <2>2, <2>3
  <2>5. /\ read.total \in Nat
        /\ atFirst \subseteq collected \cup ToSet(read.page) \cup BehindIn(listed[1], PageEnd)
        /\ PageEnd >= read.total => atFirst \subseteq collected \cup ToSet(read.page)
    BY <2>1, <2>4 DEF JobsCover
  <2>6. CASE PageEnd < read.total
    BY <2>1, <2>6, <1>1, <2>2, <2>5 DEF HandOver, Then, PageStart, ListSound, PageLimit, PageEnd,
       BehindIn, JobsCover
  <2>7. CASE ~(PageEnd < read.total)
    BY <2>1, <2>7, <1>3, <2>5, <2>2 DEF HandOver, Returns, JobsCover
  <2>. QED  BY <2>6, <2>7
<1>7. CASE ReadItems \/ ListRuns \/ ListArtifacts
  BY <1>7, <1>2 DEF ReadItems, ListRuns, ListArtifacts, RequestOfTool, Requests, Ended
<1>. QED  BY <1>1, <1>4, <1>5, <1>6, <1>7 DEF RunListNext

LEMMA JobsCoverInvariant == Spec => []JobsCover
<1>1. Init => JobsCover
  <2> SUFFICES ASSUME Init, call.tool = "list_jobs" PROVE JobsCover
    BY DEF JobsCover
  <2>1. /\ scenario \in Scenarios /\ pc = "pin" /\ listPage = 1 /\ collected = {}
        /\ atFirst = ToSet(listed[1]) /\ 1 \in Attempt
    BY RunAssumption DEF Init, ReadInit, ListInit, FirstRequest, Attempt
  <2>2. PICK jobs \in Seq(Job), size \in Nat : jobs = listed[1] /\ size = Len(jobs)
    BY <2>1, RunSoundInit, LenProperties DEF RunSound
  <2>3. PageStart = 0
    <3>1. call.perPage \in Nat \ {0} /\ HardPerPage \in Nat \ {0}
      BY <2>1, ListAssumption DEF call, ListTools
    <3>2. PageLimit \in Nat
      BY <3>1, MinIs DEF PageLimit, PerPage
    <3>3. PageStart = (1 - 1) * PageLimit
      BY <2>1 DEF PageStart
    <3>. QED  BY <3>2, <3>3
  <2>4. ToSet(jobs) \subseteq BehindIn(jobs, 0)
    BY ToSetIs, LenProperties DEF BehindIn
  <2>. QED  BY <2>1, <2>2, <2>3, <2>4 DEF JobsCover
<1>2. RequestOfTool /\ ListSound /\ RunSound /\ JobsCover /\ [Next]_vars => JobsCover'
  <2> SUFFICES ASSUME RequestOfTool, ListSound, RunSound, JobsCover, [Next]_vars PROVE JobsCover'
    OBVIOUS
  <2>1. CASE LogStep \/ WatchStep \/ ArchiveStep \/ WholeStep
    <3>1. call' = call
      BY <2>1 DEF LogStep, othersOfLog, WatchStep, othersOfWatch, ArchiveStep, othersOfArchive, WholeStep, othersOfWhole, call
    <3>2. call.tool # "list_jobs"
      BY <2>1 DEF LogStep, WatchStep, ArchiveStep, WholeStep, LogTools, ArchiveTools, WholeTools
    <3>. QED  BY <3>1, <3>2, JobsCoverStays
  <2>2. CASE PullStep \/ ExactStep
    BY <2>2, JobsCoverStays DEF PullStep, othersOfPull, ExactStep, othersOfExact, call, PullTools,
       ExactTools
  <2>3. CASE FailStep
    BY <2>3, JobsCoverStays DEF FailStep, RequestFails, Raises, call
  <2>4. CASE RunMoves
    <3>1. /\ UNCHANGED <<pc, attempt, listVars>> /\ call' = call
      BY <2>4 DEF RunMoves, GitHub, JobAppears, JobCompletes, AttemptCompletes, Rerun, RunChange, Change, replyVars, call
    <3>2. ASSUME NEW n \in Nat PROVE BehindIn(listed[1], n) \subseteq BehindIn(listed'[1], n)
      <4>1. UNCHANGED listed \/ \E a \in Attempt : JobAppears(a)
        BY <2>4 DEF RunMoves, GitHub, JobCompletes, AttemptCompletes, Rerun
      <4>2. CASE UNCHANGED listed
        BY <4>2
      <4>3. ASSUME NEW a \in Attempt, JobAppears(a) PROVE BehindIn(listed[1], n) \subseteq BehindIn(listed'[1], n)
        <5>1. PICK s \in Seq(Job), t \in Seq(Job) : s = listed[a] /\ t = scenario.jobs[a]
          BY RunAssumption DEF RunSound, RequestOfTool
        <5>2. Len(s) < Len(t) /\ listed' = [listed EXCEPT ![a] = Append(s, t[Len(s) + 1])]
          BY <4>3, <5>1 DEF JobAppears
        <5>3. PICK e \in Job : e = t[Len(s) + 1]
          BY <5>2, LenProperties
        <5>4. PICK one \in Seq(Job) : one = <<e>> /\ Len(one) = 1
          <6>1. <<e>> \in Seq(Job) /\ Len(<<e>>) = 1
            OBVIOUS
          <6>. QED  BY <6>1, Zenon
        <5>5. PICK u \in Seq(Job) : u = Append(s, e) /\ u = s \o one
          BY <5>4, AppendIsConcat, AppendProperties
        <5>6. listed' = [listed EXCEPT ![a] = u]
          BY <5>2, <5>3, <5>5
        <5>7. BehindIn(s, n) \subseteq BehindIn(u, n)
          BY <5>4, <5>5, GrownBehind
        <5>8. CASE a = 1
          BY <5>1, <5>6, <5>7, <5>8 DEF RunSound
        <5>9. CASE a # 1
          BY <5>6, <5>9, RunAssumption DEF RunSound, Attempt
        <5>. QED  BY <5>8, <5>9
      <4>. QED  BY <4>1, <4>2, <4>3
    <3>. QED  BY <3>1, <3>2, JobsCoverStays
  <2>5. ASSUME UNCHANGED <<scenario, pc, attempt, listVars, listed>> PROVE JobsCover'
    BY <2>5, JobsCoverStays DEF call
  <2>6. CASE ItemMoves
    BY <2>6, JobsCoverStays DEF ItemMoves, ListGitHub, ItemAppears, ItemDeleted, Change, Shrinking, call
  <2>7. CASE SnapshotMoves
    BY <2>5, <2>7 DEF SnapshotMoves, PullGitHub, PullMoves, Change, replyVars, runReadVars, runVars
  <2>8. CASE RepositoryMoves
    BY <2>5, <2>8 DEF RepositoryMoves, ExactGitHub, AccessChanges, Pushed, RefDeleted, Change, replyVars, runReadVars, runVars
  <2>9. CASE UNCHANGED vars
    BY <2>5, <2>9 DEF vars, replyVars, runReadVars, runVars
  <2>10. CASE RunListStep
    BY <2>10, JobsListCovers, JobsCoverStays DEF RunListStep, othersOfRunList, call
  <2>. QED  BY <2>1, <2>2, <2>3, <2>4, <2>6, <2>7, <2>8, <2>9, <2>10, StepByTool
<1>. QED  BY <1>1, <1>2, RequestOfToolInvariant, ListSoundInvariant, RunSoundInvariant, PTL DEF Spec

-----------------------------------------------------------------------------
(***************************************************************************)
(* What belongs to a snapshot: the pages of one snapshot that a caller has *)
(* had hold what is between its base and its head, from the first record   *)
(* to the end of the last of these pages.                                  *)
(***************************************************************************)

\* The records of a slice, as the caller is given them.
LEMMA NamedSlice ==
  ASSUME NEW s, scenario.size[s] \in Nat, NEW lo \in Nat, NEW m \in Int, m <= scenario.size[s]
  PROVE  /\ ToSet(Named(s, SubSeq(Content(s), lo + 1, m))) = {<<s, <<s, k>>>> : k \in (lo + 1)..m}
         /\ Len(SubSeq(Content(s), lo + 1, m)) = (IF lo < m THEN m - lo ELSE 0)
         /\ Len(Content(s)) = scenario.size[s]
<1>1. PICK n \in Nat : n = scenario.size[s]
  OBVIOUS
<1>2. PICK X : X = {<<s, k>> : k \in 1..n}
  OBVIOUS
<1>3. PICK c \in Seq(X) : c = Content(s) /\ Len(c) = n /\ \A k \in 1..n : c[k] = <<s, k>>
  <2>1. Content(s) = [k \in 1..n |-> <<s, k>>]
    BY <1>1 DEF Content
  <2>2. \A k \in 1..n : <<s, k>> \in X
    BY <1>2
  <2>3. [k \in 1..n |-> <<s, k>>] \in [1..n -> X]
    BY <2>2
  <2>4. [k \in 1..n |-> <<s, k>>] \in Seq(X) /\ Len([k \in 1..n |-> <<s, k>>]) = n
    BY <2>3, IsASeq
  <2>5. \A k \in 1..n : [j \in 1..n |-> <<s, j>>][k] = <<s, k>>
    OBVIOUS
  <2>. QED  BY <2>1, <2>4, <2>5, Zenon
<1>4. /\ SubSeq(c, lo + 1, m) \in Seq(X)
      /\ Len(SubSeq(c, lo + 1, m)) = (IF lo < m THEN m - lo ELSE 0)
      /\ \A k \in 1..(m - lo) : SubSeq(c, lo + 1, m)[k] = c[lo + k]
  BY <1>1, <1>3, Slice
<1>5. PICK u \in Seq(X), l \in Nat : u = SubSeq(c, lo + 1, m) /\ l = Len(u) /\ l = (IF lo < m THEN m - lo ELSE 0)
                                     /\ \A k \in 1..(m - lo) : u[k] = c[lo + k]
  BY <1>4, LenProperties
<1>6. DOMAIN u = 1..l
  BY <1>5, LenProperties
<1>7. ToSet(Named(s, u)) = {<<s, u[k]>> : k \in 1..l}
  BY <1>6 DEF Named, ToSet
<1>8. \A k \in 1..l : u[k] = <<s, lo + k>> /\ lo + k \in (lo + 1)..m
  BY <1>1, <1>5, <1>3
<1>9. \A k \in (lo + 1)..m : k - lo \in 1..l /\ u[k - lo] = <<s, k>>
  <2> TAKE k \in (lo + 1)..m
  <2>1. k - lo \in 1..l /\ lo + (k - lo) = k
    BY <1>5
  <2>. QED  BY <1>8, <2>1
<1>10. {<<s, u[k]>> : k \in 1..l} = {<<s, <<s, k>>>> : k \in (lo + 1)..m}
  <2>1. ASSUME NEW e \in {<<s, u[k]>> : k \in 1..l} PROVE e \in {<<s, <<s, k>>>> : k \in (lo + 1)..m}
    BY <1>8, <2>1
  <2>2. ASSUME NEW e \in {<<s, <<s, k>>>> : k \in (lo + 1)..m} PROVE e \in {<<s, u[k]>> : k \in 1..l}
    BY <1>9, <2>2
  <2>. QED  BY <2>1, <2>2
<1>. QED  BY <1>1, <1>3, <1>5, <1>7, <1>10

\* A page that is added to those before it.
LEMMA PageOfRecords ==
  ASSUME RequestOfTool, ListSound, call.tool \in ListTools, NEW s, scenario.size[s] \in Nat
  PROVE  /\ Records(s, PageStart) \cup ToSet(Named(s, Page(Content(s)))) = Records(s, PageEnd)
         /\ Len(Page(Content(s))) # PageLimit =>
              Records(s, PageEnd) = {<<s, <<s, k>>>> : k \in 1..scenario.size[s]}
         /\ listPage = 1 => Records(s, PageStart) = {}
<1>1. PICK lo \in Nat, hi \in Nat, per \in Nat \ {0} : lo = PageStart /\ hi = PageEnd /\ per = PageLimit /\ hi = lo + per
  BY PageSizes
<1>2. PICK n \in Nat, m \in Int : n = scenario.size[s] /\ m = (IF hi <= n THEN hi ELSE n)
  OBVIOUS
<1>3. /\ ToSet(Named(s, SubSeq(Content(s), lo + 1, m))) = {<<s, <<s, k>>>> : k \in (lo + 1)..m}
      /\ Len(SubSeq(Content(s), lo + 1, m)) = (IF lo < m THEN m - lo ELSE 0)
      /\ Len(Content(s)) = n
  <2>1. m <= scenario.size[s]
    BY <1>2
  <2>2. /\ ToSet(Named(s, SubSeq(Content(s), lo + 1, m))) = {<<s, <<s, k>>>> : k \in (lo + 1)..m}
        /\ Len(SubSeq(Content(s), lo + 1, m)) = (IF lo < m THEN m - lo ELSE 0)
        /\ Len(Content(s)) = scenario.size[s]
    BY <2>1, NamedSlice
  <2>. QED  BY <1>2, <2>2, Zenon
<1>4. Page(Content(s)) = SubSeq(Content(s), lo + 1, m)
  <2>1. Min({hi, n}) = m
    BY <1>2, MinIs
  <2>. QED  BY <1>1, <1>3, <2>1 DEF Page, PageStart, PageEnd
<1>5. \A d \in Nat : Records(s, d) = {<<s, <<s, k>>>> : k \in {k \in 1..n : k <= d}}
  BY <1>2 DEF Records
<1>6. {k \in 1..n : k <= lo} \cup (lo + 1)..m = {k \in 1..n : k <= hi}
  BY <1>1, <1>2
<1>7. {<<s, <<s, k>>>> : k \in {k \in 1..n : k <= lo}} \cup {<<s, <<s, k>>>> : k \in (lo + 1)..m}
        = {<<s, <<s, k>>>> : k \in {k \in 1..n : k <= hi}}
  BY <1>6
<1>8. Records(s, lo) \cup ToSet(Named(s, Page(Content(s)))) = Records(s, hi)
  BY <1>3, <1>4, <1>5, <1>7
<1>9. ASSUME Len(Page(Content(s))) # per PROVE Records(s, hi) = {<<s, <<s, k>>>> : k \in 1..n}
  BY <1>1, <1>2, <1>3, <1>4, <1>9, <1>5
<1>10. ASSUME listPage = 1 PROVE Records(s, lo) = {}
  BY <1>1, <1>10, <1>5, PageSizes
<1>. QED  BY <1>1, <1>2, <1>8, <1>9, <1>10

\* The diff as far as it is returned: all of it, or it is said to be cut.
LEMMA DiffOfRecords ==
  ASSUME RequestOfTool, ListSound, call.tool \in ListTools, NEW s, scenario.size[s] \in Nat,
         NEW diff, diff = Content(s), NEW bounded, bounded = SubSeq(diff, 1, Min({Len(diff), PageLimit})),
         ~(Len(bounded) < Len(diff))
  PROVE  ToSet(Named(s, bounded)) = {<<s, <<s, k>>>> : k \in 1..scenario.size[s]}
<1>1. PICK per \in Nat \ {0} : per = PageLimit
  BY PageSizes
<1>2. PICK n \in Nat, m \in Int : n = scenario.size[s] /\ m = (IF n <= per THEN n ELSE per)
  BY <1>1
<1>3. PICK zero \in Nat, one \in Nat : zero = 0 /\ one = 1 /\ one = zero + 1
  OBVIOUS
<1>4. /\ ToSet(Named(s, SubSeq(Content(s), one, m))) = {<<s, <<s, k>>>> : k \in one..m}
      /\ Len(SubSeq(Content(s), one, m)) = (IF zero < m THEN m - zero ELSE 0)
      /\ Len(Content(s)) = n
  <2>1. m <= scenario.size[s]
    BY <1>2
  <2>2. /\ ToSet(Named(s, SubSeq(Content(s), zero + 1, m))) = {<<s, <<s, k>>>> : k \in (zero + 1)..m}
        /\ Len(SubSeq(Content(s), zero + 1, m)) = (IF zero < m THEN m - zero ELSE 0)
        /\ Len(Content(s)) = scenario.size[s]
    BY <2>1, NamedSlice
  <2>. QED  BY <1>2, <1>3, <2>2, Zenon
<1>5. Min({n, per}) = m
  BY <1>1, <1>2, MinIs
<1>6. bounded = SubSeq(Content(s), one, m)
  BY <1>1, <1>3, <1>4, <1>5
<1>7. m = n
  <2>1. PICK l \in Nat : l = Len(SubSeq(Content(s), one, m)) /\ l = (IF zero < m THEN m - zero ELSE 0)
    BY <1>2, <1>3, <1>4
  <2>2. Len(bounded) = l /\ Len(diff) = n
    BY <1>4, <1>6, <2>1, Zenon
  <2>3. ~(l < n)
    BY <2>2
  <2>. QED  BY <1>2, <1>3, <2>1, <2>3
<1>. QED  BY <1>2, <1>3, <1>4, <1>6, <1>7

PagedPulls == {"pr_diff", "list_files", "list_commits"}

\* A page of one snapshot is handed over.
LEMMA HandOverRecords ==
  ASSUME RequestOfTool, ListSound, PullsCover, call' = call, scenario' = scenario, call.tool \in PagedPulls,
         ~cameBack, pc \in {"content", "verify"}, NEW ids, NEW more, NEW incomplete,
         HandOver(ids, more, incomplete, {seen}, "look"),
         LET all == {<<seen, <<seen, k>>>> : k \in 1..scenario.size[seen]}
         IN  /\ more => Records(seen, PageStart) \cup ToSet(ids) = Records(seen, PageEnd)
             /\ ~more /\ ~incomplete => Records(seen, PageStart) \cup ToSet(ids) = all
  PROVE  PullsCover'
<1> DEFINE all == {<<seen, <<seen, k>>>> : k \in 1..scenario.size[seen]}
<1>1. seen \in Snapshot
  BY DEF PullsCover, PagedPulls
<1>2. call.tool \in ListTools
  BY DEF PagedPulls, ListTools
<1>3. scenario.size[seen] \in Nat
  BY <1>1, PullAssumption DEF RequestOfTool, call, PagedPulls, PullTools
<1>4. pinnedTo' = pinnedTo \cup {seen} /\ collected' = collected \cup ToSet(ids) /\ flagged' = (flagged \/ incomplete)
  BY DEF HandOver
<1>5. /\ pinnedTo = {} => collected = {} /\ listPage = 1
      /\ \A s \in pinnedTo : s \in Snapshot /\ (pinnedTo = {s} => collected = Records(s, PageStart))
  BY DEF PullsCover, PagedPulls
<1>6. \A s \in pinnedTo' : s \in Snapshot
  BY <1>1, <1>4, <1>5
<1>7. pinnedTo' = {seen} => collected = Records(seen, PageStart)
  <2>1. listPage = 1 => Records(seen, PageStart) = {}
    BY <1>2, <1>3, PageOfRecords
  <2>2. pinnedTo' = {seen} => pinnedTo = {} \/ pinnedTo = {seen}
    BY <1>4
  <2>. QED  BY <1>5, <2>1, <2>2
<1>8. \A s : pinnedTo' = {s} => s = seen
  BY <1>4
<1>9. CASE more
  BY <1>9, <1>4, <1>7, <1>8, <1>6 DEF HandOver, Then, PageStart, ListSound, PageLimit, PageEnd, Records,
     PullsCover
<1>10. CASE ~more
  <2>1. pc' = "delivered"
    BY <1>10 DEF HandOver, Returns
  <2>2. ~incomplete => Records(seen, PageStart) \cup ToSet(ids) = all
    BY <1>10
  <2>3. ~incomplete => (pinnedTo' = {seen} => collected' = all)
    BY <1>4, <1>7, <2>2
  <2>4. \A s \in pinnedTo' : ~incomplete => (pinnedTo' = {s} =>
            collected' = {<<s, <<s, k>>>> : k \in 1..scenario'.size[s]})
    BY <1>8, <2>3
  <2>. QED  BY <1>4, <2>1, <2>4 DEF PullsCover
<1>. QED  BY <1>9, <1>10

LEMMA PullsCoverStays ==
  ASSUME PullsCover, call' = call, scenario' = scenario,
         \/ call.tool \notin PagedPulls \/ pc' = "raised"
         \/ UNCHANGED <<pc, listVars, pullVars>>
  PROVE  PullsCover'
BY DEF PullsCover, PagedPulls, listVars, pullVars, Records, PageStart, PageLimit, Page, Content

LEMMA PullsListCovers ==
  ASSUME RequestOfTool, ListSound, PullSound, PullsCover, PullStep, call.tool \in PagedPulls
  PROVE  PullsCover'
<1>1. PullNext /\ scenario' = scenario /\ call' = call /\ UNCHANGED <<snapshot, cameBack>>
  BY DEF PullStep, othersOfPull, call, PullNext, pullVars
<1>2. call.tool \in ListTools
  BY DEF PagedPulls, ListTools
<1>3. SUFFICES ASSUME ~cameBack PROVE PullsCover'
  BY <1>1 DEF PullsCover
<1>4. \A s \in Snapshot : scenario.size[s] \in Nat
  BY PullAssumption DEF RequestOfTool, call, PagedPulls, PullTools
<1>5. CASE LookFirst
  BY <1>5, <1>1, <1>3 DEF PagedPulls, LookFirst, Then, cursorVars, Records, PageStart, PageLimit,
     PullSound, PullsCover
<1>6. CASE ReadDiff
  <2>1. pc = "content" /\ call.tool = "pr_diff"
    BY <1>6 DEF ReadDiff
  <2>2. PICK diff, bounded : /\ diff = Content(seen) /\ bounded = SubSeq(diff, 1, Min({Len(diff), PageLimit}))
                             /\ HandOver(Named(seen, bounded), FALSE, Len(bounded) < Len(diff), {seen}, "look")
    BY <1>6 DEF ReadDiff
  <2>3. seen \in Snapshot /\ scenario.size[seen] \in Nat
    BY <1>3, <1>4, <2>1 DEF PullsCover
  <2>4. PICK ids : ids = Named(seen, bounded)
    OBVIOUS
  <2>5. PICK all : all = {<<seen, <<seen, k>>>> : k \in 1..scenario.size[seen]}
    OBVIOUS
  <2>6. ~(Len(bounded) < Len(diff)) => ToSet(ids) = all
    BY <1>2, <2>2, <2>3, <2>4, <2>5, DiffOfRecords
  <2>7. Records(seen, PageStart) \subseteq all
    BY <2>5 DEF Records
  <2>8. ~(Len(bounded) < Len(diff)) => Records(seen, PageStart) \cup ToSet(ids) = all
    BY <2>6, <2>7
  <2>9. PICK incomplete : incomplete = (Len(bounded) < Len(diff))
    OBVIOUS
  <2>10. HandOver(ids, FALSE, incomplete, {seen}, "look")
    BY <2>2, <2>4, <2>9
  <2>11. ~incomplete => Records(seen, PageStart) \cup ToSet(ids) = all
    BY <2>8, <2>9
  <2>. QED  BY <1>1, <1>3, <2>1, <2>5, <2>10, <2>11, HandOverRecords
<1>7. CASE ReadByNumber
  BY <1>7, <1>1, <1>3 DEF ReadByNumber, Then, cursorVars, Records, PageStart, PageLimit, Page, Content,
     PullsCover, PagedPulls
<1>8. CASE ListPullFiles \/ ListPullCommits
  <2>1. pc = "verify"
    BY <1>8 DEF ListPullFiles, ListPullCommits
  <2>2. CASE pc' = "raised"
    BY <1>1, <2>2, PullsCoverStays
  <2>3. CASE snapshot = seen /\ HandOver(Named(seen, read.page), Full(read.page), FALSE, {seen}, "look")
    <3>1. seen \in Snapshot /\ scenario.size[seen] \in Nat /\ read.page = Page(Content(seen))
      BY <1>3, <1>4, <2>1, <2>3 DEF PullsCover, PagedPulls
    <3>2. PICK ids : ids = Named(seen, Page(Content(seen)))
      OBVIOUS
    <3>3. PICK all : all = {<<seen, <<seen, k>>>> : k \in 1..scenario.size[seen]}
      OBVIOUS
    <3>4. PICK more : more = (Len(Page(Content(seen))) = PageLimit)
      OBVIOUS
    <3>5. HandOver(ids, more, FALSE, {seen}, "look")
      BY <2>3, <3>1, <3>2, <3>4, Zenon DEF Full
    <3>6. /\ Records(seen, PageStart) \cup ToSet(ids) = Records(seen, PageEnd)
          /\ ~more => Records(seen, PageEnd) = all
      BY <1>2, <3>1, <3>2, <3>3, <3>4, PageOfRecords
    <3>7. ~more => Records(seen, PageStart) \cup ToSet(ids) = all
      BY <3>6
    <3>. QED  BY <1>1, <1>3, <2>1, <3>3, <3>5, <3>6, <3>7, HandOverRecords
  <2>. QED  BY <1>8, <2>2, <2>3 DEF ListPullFiles, ListPullCommits, Unmoved, Raises
<1>9. CASE ReadReviews \/ ReadFollowing \/ ReadThread \/ ListReviews \/ GetThread
  BY <1>9 DEF ReadReviews, ReadFollowing, ReadThread, ListReviews, GetThread, PagedPulls, RequestOfTool,
     Requests, Ended
<1>. QED  BY <1>1, <1>5, <1>6, <1>7, <1>8, <1>9 DEF PullNext

LEMMA PullsCoverInvariant == Spec => []PullsCover
<1>1. Init => PullsCover
  BY DEF PullsCover, PagedPulls, Init, ReadInit, ListInit, FirstRequest
<1>2. RequestOfTool /\ ListSound /\ PullSound /\ PullsCover /\ [Next]_vars => PullsCover'
  <2> SUFFICES ASSUME RequestOfTool, ListSound, PullSound, PullsCover, [Next]_vars PROVE PullsCover'
    OBVIOUS
  <2>1. CASE LogStep \/ RunListStep \/ WatchStep \/ ArchiveStep
    <3>1. call' = call /\ scenario' = scenario
      BY <2>1 DEF LogStep, othersOfLog, RunListStep, othersOfRunList, WatchStep, othersOfWatch, ArchiveStep,
         othersOfArchive, call
    <3>2. call.tool \notin PagedPulls
      BY <2>1 DEF LogStep, RunListStep, WatchStep, ArchiveStep, LogTools, RunListTools, ArchiveTools, PagedPulls
    <3>. QED  BY <3>1, <3>2, PullsCoverStays
  <2>2. CASE WholeStep \/ ExactStep
    BY <2>2, PullsCoverStays DEF WholeStep, othersOfWhole, ExactStep, othersOfExact, call, WholeTools,
       ExactTools, PagedPulls
  <2>3. CASE PullStep
    BY <2>3, PullsListCovers, PullsCoverStays DEF PullStep, othersOfPull, call
  <2>4. CASE FailStep
    BY <2>4, PullsCoverStays DEF FailStep, RequestFails, Raises, call
  <2>5. ASSUME UNCHANGED <<scenario, pc, listVars, pullVars>> PROVE PullsCover'
    BY <2>5, PullsCoverStays DEF call
  <2>6. CASE RunMoves
    BY <2>5, <2>6 DEF RunMoves, GitHub, JobAppears, JobCompletes, AttemptCompletes, Rerun, RunChange, Change, replyVars
  <2>7. CASE ItemMoves
    BY <2>7, PullsCoverStays DEF ItemMoves, ListGitHub, ItemAppears, ItemDeleted, Change, Shrinking,
       call, PagedPulls
  <2>8. CASE SnapshotMoves
    <3>1. PICK s \in Snapshot : PullMoves(s)
      BY <2>8 DEF SnapshotMoves, PullGitHub
    <3>2. /\ UNCHANGED <<scenario, pc, listVars>> /\ call' = call
          /\ snapshot' = s /\ cameBack' = (cameBack \/ s = seen)
      BY <3>1 DEF PullMoves, Change, replyVars, call
    <3>3. UNCHANGED <<listPage, seen, read, collected, flagged, pinnedTo>>
      BY <3>2 DEF listVars
    <3>4. \A r : Records(r, PageStart)' = Records(r, PageStart)
      BY <3>2, <3>3 DEF Records, PageStart, PageLimit
    <3>5. ~cameBack' => ~cameBack /\ snapshot' # seen'
      BY <3>2, <3>3
    <3>. QED  BY <3>2, <3>3, <3>4, <3>5 DEF PullsCover
  <2>9. CASE RepositoryMoves
    BY <2>5, <2>9 DEF RepositoryMoves, ExactGitHub, AccessChanges, Pushed, RefDeleted, Change, replyVars
  <2>10. CASE UNCHANGED vars
    BY <2>5, <2>10 DEF vars, replyVars
  <2>. QED  BY <2>1, <2>2, <2>3, <2>4, <2>6, <2>7, <2>8, <2>9, <2>10, StepByTool
<1>. QED  BY <1>1, <1>2, RequestOfToolInvariant, ListSoundInvariant, PullSoundInvariant, PTL DEF Spec

-----------------------------------------------------------------------------
(***************************************************************************)
(* Records: what is said to be complete of commits, files and entries.     *)
(***************************************************************************)

LEMMA MinOfThree ==
  ASSUME NEW a \in Int, NEW b \in Int, NEW c \in Int
  PROVE  Min({a, b, c}) \in Int
BY DEF Min

LEMMA ComparisonIsComplete ==
  ASSUME RequestOfTool, call.tool = "compare"
  PROVE  /\ Comparison.missing = {}
         /\ Comparison.commitsComplete => Comparison.commits = scenario.commits
         /\ Comparison.filesComplete => Comparison.files = scenario.files
         /\ Comparison.filesTotal \in {None, scenario.files}
<1>1. /\ HardRecords \in Nat \ {0} /\ FilesSaturated \in Nat \ {0}
      /\ scenario.commits \in Nat /\ scenario.files \in Nat /\ call.perPage \in Nat \ {0}
  BY ExactAssumption DEF RequestOfTool, call, ExactTools
<1>2. PICK f \in Nat, sat \in Nat \ {0} : f = scenario.files /\ sat = FilesSaturated
  BY <1>1
<1>3. PICK limit \in Int : limit = RecordLimit(FilesSaturated - 1)
  BY <1>1, MinOfThree DEF RecordLimit
<1>4. PICK answered \in Int : answered = Min({f, sat}) /\ answered = (IF f <= sat THEN f ELSE sat)
  BY <1>2, MinIs
<1>5. PICK files \in Int : files = Min({answered, limit}) /\ files = (IF answered <= limit THEN answered ELSE limit)
  BY <1>3, <1>4, MinIs
<1>6. PICK commits, whole : /\ commits = Min({scenario.commits, RecordLimit(CommitsMax)})
                            /\ whole = (commits = scenario.commits /\ ~(scenario.longMessage /\ commits > 0))
  OBVIOUS
<1>7. PICK saturated : saturated = (answered >= sat)
  OBVIOUS
<1>8. PICK complete, filesTotal : /\ complete = (~saturated /\ answered <= limit)
                                  /\ filesTotal = (IF saturated THEN None ELSE answered)
  OBVIOUS
<1>9. Comparison = [missing |-> {}, commits |-> commits, commitsComplete |-> whole, files |-> files,
                    filesTotal |-> filesTotal, filesComplete |-> complete]
  BY <1>2, <1>3, <1>4, <1>5, <1>6, <1>7, <1>8, Zenon DEF Comparison
<1>10. /\ Comparison.missing = {} /\ Comparison.commits = commits /\ Comparison.commitsComplete = whole
       /\ Comparison.files = files /\ Comparison.filesTotal = filesTotal /\ Comparison.filesComplete = complete
  BY <1>9
<1>11. whole => commits = scenario.commits
  BY <1>6
<1>12. ~saturated => answered = f
  <2>1. answered < sat => answered = f
    BY <1>4
  <2>2. (answered >= sat) \/ answered < sat
    BY <1>2, <1>4
  <2>3. saturated \/ answered < sat
    BY <1>7, <2>2, Zenon
  <2>. QED  BY <2>1, <2>3
<1>13. complete => files = f
  BY <1>5, <1>8, <1>12
<1>14. filesTotal \in {None, f}
  BY <1>8, <1>12
<1>. QED  BY <1>2, <1>10, <1>11, <1>13, <1>14

LEMMA TreeIsComplete ==
  ASSUME RequestOfTool, call.tool = "list_tree", ListTree, pc' = "delivered"
  PROVE  result'.complete => result'.entries = scenario.listing
<1>1. /\ HardRecords \in Nat \ {0} /\ TreeSaturated \in Nat \ {0}
      /\ scenario.listing \in Nat /\ call.perPage \in Nat \ {0}
  BY ExactAssumption DEF RequestOfTool, call, ExactTools
<1>2. PICK l \in Nat, sat \in Nat \ {0}, limit \in Int : l = scenario.listing /\ sat = TreeSaturated /\ limit = Min({call.perPage, HardRecords})
  BY <1>1, MinIs
<1>3. PICK answered \in Int : answered = Min({l, sat}) /\ answered = (IF l <= sat THEN l ELSE sat)
  BY <1>2, MinIs
<1>4. PICK entries \in Int : entries = Min({answered, limit}) /\ entries = (IF answered <= limit THEN answered ELSE limit)
  BY <1>2, <1>3, MinIs
<1>5. PICK complete : complete = (answered <= limit /\ l <= sat)
  OBVIOUS
<1>6. result' = [missing |-> {}, entries |-> entries, complete |-> complete]
  BY <1>2, <1>3, <1>4, <1>5 DEF ListTree, Raises, Returns
<1>7. result'.entries = entries /\ result'.complete = complete
  BY <1>6
<1>8. complete => entries = l
  BY <1>3, <1>4, <1>5
<1>. QED  BY <1>2, <1>7, <1>8

LEMMA RecordsAreCompleteInvariant == Spec => []RecordsAreComplete
<1>1. Init => RecordsAreComplete
  BY DEF RecordsAreComplete, Init, ReadInit, FirstRequest
<1>2. RequestOfTool /\ RecordsAreComplete /\ [Next]_vars => RecordsAreComplete'
  <2> SUFFICES ASSUME RequestOfTool, RecordsAreComplete, [Next]_vars PROVE RecordsAreComplete'
    OBVIOUS
  <2>1. ASSUME UNCHANGED scenario,
               call.tool \notin {"compare", "list_tree"} \/ pc' # "delivered" \/ UNCHANGED <<pc, result>>
        PROVE  RecordsAreComplete'
    BY <2>1 DEF RecordsAreComplete, call
  <2>2. CASE LogStep \/ RunListStep \/ WatchStep \/ ArchiveStep
    <3>1. UNCHANGED scenario
      BY <2>2 DEF LogStep, othersOfLog, RunListStep, othersOfRunList, WatchStep, othersOfWatch, ArchiveStep,
         othersOfArchive
    <3>2. call.tool \notin {"compare", "list_tree"}
      BY <2>2 DEF LogStep, RunListStep, WatchStep, ArchiveStep, LogTools, RunListTools, ArchiveTools
    <3>. QED  BY <2>1, <3>1, <3>2
  <2>3. CASE WholeStep \/ PullStep
    BY <2>1, <2>3 DEF WholeStep, othersOfWhole, PullStep, othersOfPull, WholeTools, PullTools
  <2>4. CASE FailStep
    BY <2>1, <2>4 DEF FailStep, RequestFails, Raises
  <2>5. CASE RunMoves
    BY <2>1, <2>5 DEF RunMoves, GitHub, JobAppears, JobCompletes, AttemptCompletes, Rerun, RunChange, Change, replyVars
  <2>6. CASE ItemMoves
    BY <2>1, <2>6 DEF ItemMoves, ListGitHub, ItemAppears, ItemDeleted, Change, replyVars
  <2>7. CASE SnapshotMoves
    BY <2>1, <2>7 DEF SnapshotMoves, PullGitHub, PullMoves, Change, replyVars
  <2>8. CASE RepositoryMoves
    BY <2>1, <2>8 DEF RepositoryMoves, ExactGitHub, AccessChanges, Pushed, RefDeleted, Change, replyVars
  <2>9. CASE UNCHANGED vars
    BY <2>1, <2>9 DEF vars, replyVars
  <2>10. CASE ExactStep
    <3>1. ExactNext /\ UNCHANGED scenario /\ call' = call
      BY <2>10 DEF ExactStep, othersOfExact, call
    <3>2. SUFFICES ASSUME call.tool \in {"compare", "list_tree"}, pc' = "delivered", result'.missing = {}
                   PROVE  RecordsAreComplete'
      BY <3>1 DEF RecordsAreComplete
    <3>3. ASSUME NEW gone, Conclude(gone) PROVE FALSE
      BY <3>2, <3>3 DEF Conclude, Raises, Returns, Then
    <3>4. ASSUME NEW isFound, Found(isFound) PROVE FALSE
      BY <3>2, <3>3, <3>4 DEF Found, Then
    <3>5. ~LookUp /\ ~ProbeAccess /\ ~AskEmpty
      BY <3>2, <3>4 DEF LookUp, ProbeAccess, AskEmpty, Then, Raises
    <3>6. CASE Compare
      BY <3>6, <3>2, <3>1, ComparisonIsComplete DEF Compare, RequestOfTool, Requests, Ended, Returns,
         Then, RecordsAreComplete
    <3>7. CASE ListTree
      BY <3>7, <3>2, <3>1, TreeIsComplete DEF ListTree, RequestOfTool, Requests, Ended,
         RecordsAreComplete
    <3>. QED  BY <3>1, <3>5, <3>6, <3>7 DEF ExactNext
  <2>. QED  BY <2>2, <2>3, <2>4, <2>5, <2>6, <2>7, <2>8, <2>9, <2>10, StepByTool
<1>. QED  BY <1>1, <1>2, RequestOfToolInvariant, PTL DEF Spec

(***************************************************************************)
(* Nothing is missed: what complete evidence does not hold was not there.  *)
(* From the coverage of the pages so far (ListCovers, JobsCover,           *)
(* PullsCover), the completeness of the records of a single answer, and    *)
(* what the two requests that tell a missing object from a hidden one have *)
(* seen (AbsenceSound).                                                    *)
(***************************************************************************)
THEOREM NothingIsMissedInvariant == Spec => []NothingIsMissed
<1>1. ListCovers /\ JobsCover /\ PullsCover => PagesCoverList
  BY DEF ListCovers, JobsCover, PullsCover, PagesCoverList
<1>2. PagesCoverList /\ RecordsAreComplete /\ AbsenceIsReal => NothingIsMissed
  BY DEF NothingIsMissed
<1>. QED  BY <1>1, <1>2, ListCoversInvariant, JobsCoverInvariant, PullsCoverInvariant, RecordsAreCompleteInvariant,
             AbsenceIsRealInvariant, PTL

-----------------------------------------------------------------------------
(***************************************************************************)
(* The types of the evidence: whatever is selected, cut and decoded of a   *)
(* log stays a text or its bytes.                                          *)
(***************************************************************************)

Accumulator ==
  [seen : Seq(Char), kept : Seq(Char), closed : BOOLEAN, tail : Seq(Byte),
   active : BOOLEAN, ended : BOOLEAN, startTail : Seq(Char), endTail : Seq(Char)]

\* What a caller may ask for.
Selectable(sel) ==
  /\ sel.max \in Nat \ {0} \/ sel.max = None
  /\ sel.tail \in Nat \ {0} \/ sel.tail = None
  /\ sel.start \in Seq(Char) \ {<<>>} \/ sel.start = None
  /\ sel.end \in Seq(Char) \ {<<>>} \/ sel.end = None

\* A set of numbers that is not empty has a least one.
LEMMA LeastOf ==
  ASSUME NEW S, S \subseteq Nat, S # {}
  PROVE  Min(S) \in S /\ \A k \in S : Min(S) <= k
<1>1. \E x \in S : \A k \in S : x <= k
  <2> SUFFICES ASSUME \A x \in S : \E k \in S : ~(x <= k) PROVE FALSE
    OBVIOUS
  <2> DEFINE T == {n \in Nat : \A k \in 0..n : k \notin S}
  <2>1. 0 \in T
    OBVIOUS
  <2>2. ASSUME NEW n \in Nat, n \in T PROVE n + 1 \in T
    BY <2>2
  <2>3. Nat \subseteq T
    <3> HIDE DEF T
    <3>. QED  BY <2>1, <2>2, NatSetInduction
  <2>4. PICK x \in S : TRUE
    OBVIOUS
  <2>. QED  BY <2>3, <2>4
<1>. QED  BY <1>1 DEF Min

\* Where a marker is first found.
LEMMA FirstAtIs ==
  ASSUME NEW text \in Seq(Char), NEW marker \in Seq(Char), marker # <<>>
  PROVE  /\ FirstAt(text, marker) \in 0..Len(text)
         /\ FirstAt(text, marker) # 0 =>
              /\ FirstAt(text, marker) + Len(marker) - 1 \in 1..Len(text)
              /\ SubSeq(text, FirstAt(text, marker), FirstAt(text, marker) + Len(marker) - 1) = marker
         /\ \A k \in 1..(Len(text) + 1 - Len(marker)) :
              SubSeq(text, k, k + Len(marker) - 1) = marker =>
                FirstAt(text, marker) \in 1..k
<1>1. PICK n \in Nat, m \in Nat \ {0} : n = Len(text) /\ m = Len(marker)
  BY LenProperties, EmptySeq
<1>2. PICK at \in SUBSET Nat : at = {k \in 1..(n + 1 - m) : SubSeq(text, k, k + m - 1) = marker}
  <2>1. {k \in 1..(n + 1 - m) : SubSeq(text, k, k + m - 1) = marker} \in SUBSET Nat
    BY 1..(n + 1 - m) \subseteq Nat
  <2>. QED  BY <2>1, Zenon
<1>3. FirstAt(text, marker) = IF at = {} THEN 0 ELSE Min(at)
  BY <1>1, <1>2, Zenon DEF FirstAt
<1>4. CASE at = {}
  <2>1. FirstAt(text, marker) = 0
    BY <1>3, <1>4
  <2>2. \A k \in 1..(n + 1 - m) : SubSeq(text, k, k + m - 1) # marker
    BY <1>2, <1>4
  <2>3. \A k \in 1..(Len(text) + 1 - Len(marker)) : SubSeq(text, k, k + Len(marker) - 1) # marker
    BY <1>1, <2>2, Zenon
  <2>4. \A k \in 1..(Len(text) + 1 - Len(marker)) :
          SubSeq(text, k, k + Len(marker) - 1) = marker => FirstAt(text, marker) \in 1..k
    BY <2>3, Zenon
  <2>5. FirstAt(text, marker) \in 0..Len(text)
    BY <1>1, <2>1
  <2>. QED  BY <2>1, <2>4, <2>5, Zenon
<1>5. CASE at # {}
  <2>1. PICK f \in at : f = Min(at) /\ \A k \in at : f <= k
    BY <1>5, LeastOf
  <2>2. FirstAt(text, marker) = f
    BY <1>3, <1>5, <2>1
  <2>3. f \in 1..(n + 1 - m) /\ SubSeq(text, f, f + m - 1) = marker
    BY <1>2, <2>1
  <2>4. \A k \in 1..(n + 1 - m) : SubSeq(text, k, k + m - 1) = marker => f <= k
    BY <1>2, <2>1
  <2>5. f \in 1..(Len(text) + 1 - Len(marker)) /\ SubSeq(text, f, f + Len(marker) - 1) = marker
    BY <1>1, <2>3, Zenon
  <2>6. \A k \in 1..(Len(text) + 1 - Len(marker)) : SubSeq(text, k, k + Len(marker) - 1) = marker => f <= k
    BY <1>1, <2>4, Zenon
  <2>7. f \in 1..n /\ f + m - 1 \in 1..n
    BY <2>3
  <2>8. f \in 0..Len(text) /\ f + Len(marker) - 1 \in 1..Len(text)
    BY <1>1, <2>7
  <2>9. \A k \in 1..(Len(text) + 1 - Len(marker)) : f <= k => f \in 1..k
    BY <1>1, <2>7
  <2>10. \A k \in 1..(Len(text) + 1 - Len(marker)) : SubSeq(text, k, k + Len(marker) - 1) = marker => f \in 1..k
    BY <2>6, <2>9
  <2>. QED  BY <2>2, <2>5, <2>8, <2>10
<1>. QED  BY <1>4, <1>5

LEMMA CutTypes ==
  ASSUME NEW X, NEW s \in Seq(X), NEW n \in Int
  PROVE  /\ LastOf(s, n) \in Seq(X)
         /\ n >= 0 => AllButLast(s, n) \in Seq(X)
         /\ n >= 0 => SubSeq(s, n + 1, Len(s)) \in Seq(X)
         /\ n <= Len(s) => SubSeq(s, 1, n) \in Seq(X)
<1>1. PICK l \in Nat : l = Len(s)
  BY LenProperties
<1>2. PICK first \in Int : first = Max({1, l - n + 1}) /\ first = (IF 1 <= l - n + 1 THEN l - n + 1 ELSE 1)
  BY MaxIs
<1>3. LastOf(s, n) \in Seq(X)
  <2>1. SubSeq(s, first, l) \in Seq(X)
    <3>1. 1 <= first /\ l <= Len(s)
      BY <1>1, <1>2
    <3>. QED  BY <3>1, PieceElements
  <2>. QED  BY <1>1, <1>2, <2>1 DEF LastOf
<1>4. ASSUME n >= 0 PROVE AllButLast(s, n) \in Seq(X)
  BY <1>1, <1>4, PieceElements DEF AllButLast
<1>5. ASSUME n >= 0 PROVE SubSeq(s, n + 1, Len(s)) \in Seq(X)
  BY <1>1, <1>5, PieceElements
<1>6. ASSUME n <= Len(s) PROVE SubSeq(s, 1, n) \in Seq(X)
  BY <1>1, <1>6, PieceElements
<1>. QED  BY <1>3, <1>4, <1>5, <1>6

LEMMA BytesType ==
  ASSUME NEW s \in Seq(Char)
  PROVE  Bytes(s) \in Nat
BY EncodeType, LenProperties DEF Bytes

LEMMA PrefixType ==
  ASSUME NEW s \in Seq(Char), NEW n \in Int
  PROVE  Prefix(s, n) \in Seq(Char)
<1>1. PICK b \in Seq(Byte), l \in Nat : b = Encode(s) /\ l = Len(b) /\ l = Bytes(s)
  BY EncodeType, BytesType DEF Bytes
<1>2. PICK m \in Int : m = Min({n, l}) /\ m <= l
  BY MinIs
<1>3. SubSeq(b, 1, m) \in Seq(Byte)
  <2>1. m <= Len(b)
    BY <1>1, <1>2
  <2>. QED  BY <2>1, PieceElements
<1>. QED  BY <1>1, <1>2, <1>3, DecodeType DEF Prefix

\* A marker is not empty, also when it is shown inert.
LEMMA MarkerType ==
  ASSUME NEW m \in Seq(Char) \ {<<>>}
  PROVE  Marker(m) \in Seq(Char) /\ Marker(m) # <<>> /\ Len(Marker(m)) - 1 \in Nat
<1>1. PICK n \in Nat \ {0} : n = Len(m)
  BY LenProperties, EmptySeq
<1>2. PICK front \in Seq(Char), c \in Char : c = m[n] /\ front = SubSeq(m, 1, n - 1) /\ Len(front) = n - 1
                                            /\ \A k \in 1..(n - 1) : front[k] = m[k]
  <2>1. \A k \in 1..n : m[k] \in Char
    BY <1>1, LenProperties
  <2>2. /\ SubSeq(m, 1, n - 1) \in Seq(Char) /\ Len(SubSeq(m, 1, n - 1)) = n - 1
        /\ \A k \in 1..(n - 1) : SubSeq(m, 1, n - 1)[k] = m[k]
    BY <1>1, <2>1, SubSeqProperties
  <2>4. m[n] \in Char
    BY <1>1, <2>1
  <2>3. PICK u \in Seq(Char), c \in Char : u = SubSeq(m, 1, n - 1) /\ c = m[n]
    BY <2>2, <2>4, Zenon
  <2>. QED  BY <2>2, <2>3, Zenon
<1>3. Extends(m, front, c)
  BY <1>1, <1>2 DEF Extends
<1>4. PICK a \in Seq(Char), v \in Seq(Char) \ {<<>>} : a = Inert(front) /\ v = Visible[c]
  BY <1>2, InertType, LogAssumption
<1>5. PICK u \in Seq(Char) : u = a \o v /\ Len(u) = Len(a) + Len(v)
  BY ConcatProperties
<1>6. Inert(m) = u
  BY <1>2, <1>3, <1>4, <1>5, InertAppend
<1>7. Len(v) # 0 /\ Len(v) \in Nat /\ Len(a) \in Nat
  BY <1>4, EmptySeq, LenProperties
<1>8. Len(u) - 1 \in Nat /\ u # <<>>
  BY <1>5, <1>7, EmptySeq
<1>. QED  BY <1>6, <1>8 DEF Marker

LEMMA LimitType ==
  ASSUME NEW sel, Selectable(sel)
  PROVE  Limit(sel) \in Nat \ {0}
<1>1. HardMaxBytes \in Nat \ {0}
  BY LogAssumption
<1>2. CASE Given(sel.max)
  BY <1>2, <1>1, MinIs DEF Selectable, Given, Limit
<1>3. CASE ~Given(sel.max)
  BY <1>1, <1>3 DEF Limit
<1>. QED  BY <1>2, <1>3

LEMMA NewEvidenceType ==
  ASSUME NEW sel
  PROVE  NewEvidence(sel) \in Accumulator
BY EmptySeq DEF NewEvidence, Accumulator

LEMMA CollectType ==
  ASSUME NEW a \in Accumulator, NEW text \in Seq(Char), NEW limit \in Nat
  PROVE  Collect(a, text, limit) \in Accumulator /\ Collect(a, text, limit).active = a.active
<1>1. a.kept \in Seq(Char)
  BY DEF Accumulator
<1>2. PICK room \in Int : room = limit - Bytes(a.kept)
  BY <1>1, BytesType
<1>3. PICK p \in Seq(Char), q \in Seq(Char) : p = a.kept \o text /\ q = a.kept \o Prefix(text, room)
  BY <1>1, PrefixType, ConcatProperties
<1>4. /\ [a EXCEPT !.kept = p] \in Accumulator /\ [a EXCEPT !.kept = p].active = a.active
      /\ [a EXCEPT !.kept = q, !.closed = TRUE] \in Accumulator
      /\ [a EXCEPT !.kept = q, !.closed = TRUE].active = a.active
  BY DEF Accumulator
<1>5. \/ Collect(a, text, limit) = a
      \/ Collect(a, text, limit) = [a EXCEPT !.kept = p]
      \/ Collect(a, text, limit) = [a EXCEPT !.kept = q, !.closed = TRUE]
  BY <1>2, <1>3, Zenon DEF Collect
<1>. QED  BY <1>4, <1>5

LEMMA ConsumeType ==
  ASSUME NEW a \in Accumulator, NEW text \in Seq(Char), NEW sel, Selectable(sel)
  PROVE  ConsumeSelected(a, text, sel) \in Accumulator /\ ConsumeSelected(a, text, sel).active = a.active
<1>1. PICK limit \in Nat : limit = Limit(sel)
  BY LimitType
<1>2. CASE ~Given(sel.end)
  BY <1>1, <1>2, CollectType DEF ConsumeSelected
<1>3. CASE Given(sel.end)
  <2>1. PICK m \in Seq(Char) : m = Marker(sel.end) /\ m # <<>> /\ Len(m) - 1 \in Nat
    BY <1>3, MarkerType DEF Selectable, Given
  <2>2. PICK keep \in Nat : keep = Len(m) - 1
    BY <2>1
  <2>3. PICK candidate \in Seq(Char) : candidate = a.endTail \o text
    BY ConcatProperties DEF Accumulator
  <2>4. PICK at \in Nat : at = FirstAt(candidate, m) /\ (at # 0 => at + keep <= Len(candidate))
    BY <2>1, <2>2, FirstAtIs, LenProperties
  <2>5. CASE at # 0
    <3>1. PICK piece \in Seq(Char) : piece = SubSeq(candidate, 1, at + keep)
      <4>1. at + keep \in Int /\ at + keep <= Len(candidate)
        BY <2>4, <2>5
      <4>. QED  BY <4>1, CutTypes
    <3>2. PICK c \in Accumulator, e \in Seq(Char) : c = Collect(a, piece, limit) /\ c.active = a.active /\ e = <<>>
      BY CollectType, EmptySeq
    <3>3. ConsumeSelected(a, text, sel) = [c EXCEPT !.endTail = e, !.ended = TRUE]
      BY <1>1, <1>3, <2>1, <2>2, <2>3, <2>4, <2>5, <3>1, <3>2, Zenon DEF ConsumeSelected
    <3>4. /\ [c EXCEPT !.endTail = e, !.ended = TRUE] \in Accumulator
          /\ [c EXCEPT !.endTail = e, !.ended = TRUE].active = c.active
      BY DEF Accumulator
    <3>. QED  BY <3>2, <3>3, <3>4
  <2>6. CASE at = 0
    <3>1. PICK piece \in Seq(Char), last \in Seq(Char) : piece = AllButLast(candidate, keep) /\ last = LastOf(candidate, keep)
      <4>1. keep >= 0 /\ keep \in Int
        OBVIOUS
      <4>2. AllButLast(candidate, keep) \in Seq(Char) /\ LastOf(candidate, keep) \in Seq(Char)
        BY <4>1, CutTypes
      <4>. QED  BY <4>2, Zenon
    <3>2. PICK c \in Accumulator : c = Collect(a, piece, limit) /\ c.active = a.active
      BY CollectType
    <3>3. \/ ConsumeSelected(a, text, sel) = [a EXCEPT !.endTail = candidate]
          \/ ConsumeSelected(a, text, sel) = [c EXCEPT !.endTail = last]
      BY <1>1, <1>3, <2>1, <2>2, <2>3, <2>4, <2>6, <3>1, <3>2, Zenon DEF ConsumeSelected
    <3>4. /\ [a EXCEPT !.endTail = candidate] \in Accumulator /\ [c EXCEPT !.endTail = last] \in Accumulator
          /\ [a EXCEPT !.endTail = candidate].active = a.active /\ [c EXCEPT !.endTail = last].active = c.active
      BY DEF Accumulator
    <3>. QED  BY <3>2, <3>3, <3>4
  <2>. QED  BY <2>5, <2>6
<1>. QED  BY <1>2, <1>3

\* Only what may begin with a marker is sought in.
Fitting(sel) == {a \in Accumulator : Given(sel.start) \/ a.active}

LEMMA AddTextType ==
  ASSUME NEW sel, NEW a \in Fitting(sel), NEW chunk \in Seq(Char), Selectable(sel)
  PROVE  AddText(a, chunk, sel) \in Fitting(sel)
<1>0. a \in Accumulator /\ (Given(sel.start) \/ a.active)
  BY DEF Fitting
<1>1. PICK text \in Seq(Char), seenNow \in Seq(Char) : text = Inert(chunk) /\ seenNow = a.seen \o text
  BY <1>0, InertType, ConcatProperties DEF Accumulator
<1>2. PICK next \in Accumulator : next = [a EXCEPT !.seen = seenNow] /\ next.active = a.active
  <2>1. [a EXCEPT !.seen = seenNow] \in Accumulator /\ [a EXCEPT !.seen = seenNow].active = a.active
    BY <1>0 DEF Accumulator
  <2>. QED  BY <2>1
<1>3. Given(sel.tail) => KeepTail(next, text, sel) \in Accumulator /\ KeepTail(next, text, sel).active = a.active
  <2>1. SUFFICES ASSUME Given(sel.tail)
                 PROVE  KeepTail(next, text, sel) \in Accumulator /\ KeepTail(next, text, sel).active = a.active
    OBVIOUS
  <2>2. PICK n \in Int : n = Min({sel.tail, Limit(sel)})
    BY <2>1, LimitType, MinIs DEF Selectable, Given
  <2>3. PICK bytes \in Seq(Byte) : bytes = next.tail \o Encode(text)
    BY EncodeType, ConcatProperties DEF Accumulator
  <2>4. PICK last \in Seq(Byte) : last = LastOf(bytes, n)
    BY CutTypes
  <2>5. KeepTail(next, text, sel) = [next EXCEPT !.tail = last]
    BY <2>2, <2>3, <2>4, Zenon DEF KeepTail
  <2>6. [next EXCEPT !.tail = last] \in Accumulator /\ [next EXCEPT !.tail = last].active = next.active
    BY DEF Accumulator
  <2>. QED  BY <1>2, <2>5, <2>6
<1>4. Given(sel.start) => SeekStart(next, text, sel) \in Accumulator
  <2>1. SUFFICES ASSUME Given(sel.start) PROVE SeekStart(next, text, sel) \in Accumulator
    OBVIOUS
  <2>2. PICK m \in Seq(Char) : m = Marker(sel.start) /\ m # <<>> /\ Len(m) - 1 \in Nat
    BY <2>1, MarkerType DEF Selectable, Given
  <2>3. PICK keep \in Nat : keep = Len(m) - 1
    BY <2>2
  <2>4. PICK candidate \in Seq(Char) : candidate = next.startTail \o text
    BY ConcatProperties DEF Accumulator
  <2>5. PICK at \in Nat : at = FirstAt(candidate, m)
    BY <2>2, FirstAtIs, LenProperties
  <2>6. PICK last \in Seq(Char) : last = LastOf(candidate, keep)
    BY CutTypes
  <2>7. CASE at = 0
    BY <2>2, <2>3, <2>4, <2>5, <2>6, <2>7 DEF SeekStart, Accumulator
  <2>8. CASE at # 0
    <3>1. PICK piece \in Seq(Char) : piece = SubSeq(candidate, at, Len(candidate))
      <4>1. PICK l \in Nat : l = Len(candidate)
        BY LenProperties
      <4>2. SubSeq(candidate, at, l) \in Seq(Char)
        BY <2>8, <4>1, PieceElements
      <4>. QED  BY <4>1, <4>2
    <3>2. PICK e \in Seq(Char) : e = <<>>
      BY EmptySeq
    <3>3. PICK c \in Accumulator : c = [next EXCEPT !.active = TRUE, !.startTail = e]
      BY DEF Accumulator
    <3>4. SeekStart(next, text, sel) = ConsumeSelected(c, piece, sel)
      BY <2>2, <2>4, <2>5, <2>8, <3>1, <3>2, <3>3, Zenon DEF SeekStart
    <3>. QED  BY <3>4, ConsumeType
  <2>. QED  BY <2>7, <2>8
<1>5. ConsumeSelected(next, text, sel) \in Accumulator /\ ConsumeSelected(next, text, sel).active = a.active
  BY <1>2, ConsumeType
<1>6. \/ AddText(a, chunk, sel) = a
      \/ Given(sel.tail) /\ AddText(a, chunk, sel) = KeepTail(next, text, sel)
      \/ AddText(a, chunk, sel) = next
      \/ ~a.active /\ AddText(a, chunk, sel) = SeekStart(next, text, sel)
      \/ AddText(a, chunk, sel) = ConsumeSelected(next, text, sel)
  BY <1>1, <1>2, Zenon DEF AddText
<1>7. AddText(a, chunk, sel) \in Accumulator /\ (Given(sel.start) \/ AddText(a, chunk, sel).active)
  BY <1>0, <1>2, <1>3, <1>4, <1>5, <1>6, Zenon
<1>. QED  BY <1>7 DEF Fitting

LEMMA FlattenType ==
  ASSUME NEW X, NEW ss \in Seq(Seq(X))
  PROVE  FlattenSeq(ss) \in Seq(X)
<1> DEFINE T == {tt \in Seq(Seq(X)) : FlattenSeq(tt) \in Seq(X)}
<1>1. <<>> \in T
  BY EmptySeq, FlattenAppend
<1>2. ASSUME NEW tt \in Seq(Seq(X)), NEW s \in Seq(X), NEW uu \in Seq(Seq(X)), tt \in T, Extends(uu, tt, s)
      PROVE  uu \in T
  <2>1. FlattenSeq(uu) = FlattenSeq(tt) \o s
    BY <1>2, FlattenAppend
  <2>2. FlattenSeq(tt) \o s \in Seq(X)
    BY <1>2, ConcatProperties
  <2>. QED  BY <2>1, <2>2
<1>3. Seq(Seq(X)) \subseteq T
  <2> HIDE DEF T
  <2>. QED  BY <1>1, <1>2, SeqSetInduction
<1>. QED  BY <1>3

LEMMA CompleteType ==
  ASSUME NEW bytes \in Seq(Byte)
  PROVE  /\ Complete(bytes).text \in Seq(Char) /\ Complete(bytes).rest \in Seq(Byte)
         /\ Flush(bytes) \in Seq(Char)
         /\ Decoded(bytes) \in Seq(Char)
<1>1. PICK text \in Seq(Char), n \in Nat : text = Decode(bytes) /\ n = Bytes(text)
  BY DecodeType, BytesType
<1>2. PICK rest \in Seq(Byte) : rest = SubSeq(bytes, n + 1, Len(bytes))
  <2>1. n >= 0 /\ n \in Int
    OBVIOUS
  <2>2. SubSeq(bytes, n + 1, Len(bytes)) \in Seq(Byte)
    BY <2>1, CutTypes
  <2>. QED  BY <2>2, Zenon
<1>3. Complete(bytes) = [text |-> text, rest |-> rest]
  BY <1>1, <1>2, Zenon DEF Complete
<1>4. Complete(bytes).text = text /\ Complete(bytes).rest = rest
  BY <1>3
<1>5. \A b : Flush(b) \in Seq(Char)
  <2>1. Replacement \in Char
    BY LogAssumption
  <2>2. PICK e \in Seq(Char), one \in Seq(Char) : e = <<>> /\ one = <<Replacement>>
    <3>1. <<Replacement>> \in Seq(Char) /\ <<>> \in Seq(Char)
      BY <2>1
    <3>. QED  BY <3>1, Zenon
  <2>. QED  BY <2>2, Zenon DEF Flush
<1>6. PICK last \in Seq(Char) : last = Flush(rest)
  BY <1>5
<1>7. text \o last \in Seq(Char)
  BY ConcatProperties
<1>. QED  BY <1>4, <1>5, <1>6, <1>7 DEF Decoded

JobEntry == [id : Job, done : Conclusion \cup {None}]

\* A page of the jobs of an attempt, and what is noted of each.
LEMMA JobsPageType ==
  ASSUME RequestOfTool, RunSound, NEW a \in Attempt, NEW p \in Nat \ {0}
  PROVE  /\ JobsPage(a, p, JobsPerPage) \in Seq(Job)
         /\ ToSet(JobsPage(a, p, JobsPerPage)) \subseteq ToSet(listed[a])
<1>1. PICK jobs \in Seq(Job), n \in Nat : jobs = listed[a] /\ n = Len(jobs)
  BY LenProperties DEF RunSound
<1>2. PICK per \in Nat \ {0} : per = JobsPerPage
  BY RunAssumption
<1>3. PICK lo \in Nat, hi \in Nat : lo = (p - 1) * per /\ hi = p * per
  BY <1>2
<1>4. PICK m \in Int : m = Min({hi, n}) /\ m <= n
  BY MinIs
<1>5. /\ SubSeq(jobs, lo + 1, m) \in Seq(Job) /\ ToSet(SubSeq(jobs, lo + 1, m)) \subseteq ToSet(jobs)
  <2>1. 1 <= lo + 1 /\ lo + 1 \in Int /\ m <= Len(jobs)
    BY <1>1, <1>4
  <2>. QED  BY <2>1, PieceElements
<1>6. JobsPage(a, p, JobsPerPage) = SubSeq(jobs, lo + 1, m)
  BY <1>1, <1>2, <1>3, <1>4, Zenon DEF JobsPage
<1>. QED  BY <1>1, <1>5, <1>6

LEMMA ListedOfScenario ==
  ASSUME RequestOfTool, RunSound, NEW a \in Attempt
  PROVE  ToSet(listed[a]) \subseteq ToSet(scenario.jobs[a])
BY RunAssumption, PrefixElements DEF RunSound, RequestOfTool, RunTypeOK

LEMMA EntriesType ==
  ASSUME RunSound, NEW ids \in Seq(Job)
  PROVE  Entries(ids) \in Seq(JobEntry) /\ Len(Entries(ids)) = Len(ids)
<1>1. PICK n \in Nat : n = Len(ids) /\ DOMAIN ids = 1..n /\ \A k \in 1..n : ids[k] \in Job
  BY LenProperties
<1>2. \A k \in 1..n : [id |-> ids[k], done |-> done[ids[k]]] \in JobEntry
  BY <1>1 DEF RunSound, RunTypeOK, JobEntry
<1>3. [k \in 1..n |-> [id |-> ids[k], done |-> done[ids[k]]]] \in [1..n -> JobEntry]
  BY <1>2
<1>4. Entries(ids) = [k \in 1..n |-> [id |-> ids[k], done |-> done[ids[k]]]]
  BY <1>1 DEF Entries
<1>. QED  BY <1>1, <1>3, <1>4, IsASeq

LEMMA IdsType ==
  ASSUME NEW entries \in Seq(JobEntry)
  PROVE  Ids(entries) \in Seq(Job) /\ Len(Ids(entries)) = Len(entries)
<1>1. PICK n \in Nat : n = Len(entries) /\ DOMAIN entries = 1..n /\ \A k \in 1..n : entries[k] \in JobEntry
  BY LenProperties
<1>2. [k \in 1..n |-> entries[k].id] \in [1..n -> Job]
  BY <1>1 DEF JobEntry
<1>3. Ids(entries) = [k \in 1..n |-> entries[k].id]
  BY <1>1 DEF Ids
<1>. QED  BY <1>1, <1>2, <1>3, IsASeq

LEMMA FailedTextType ==
  ASSUME RequestOfTool, RunSound, NEW a \in Attempt
  PROVE  /\ FailedJobs(a) \in Seq(Job) /\ ToSet(FailedJobs(a)) \subseteq ToSet(scenario.jobs[a])
         /\ FailedText(a) \in Seq(Char)
<1>1. PICK jobs \in Seq(Job) : jobs = listed[a]
  BY DEF RunSound
<1>2. PICK ids \in Seq(Job) : ids = FailedJobs(a) /\ ToSet(ids) \subseteq ToSet(jobs)
  <2>1. /\ KeepOnly(jobs, {j \in Job : done[j] = "failure"}) \in Seq(Job)
        /\ ToSet(KeepOnly(jobs, {j \in Job : done[j] = "failure"})) = ToSet(jobs) \cap {j \in Job : done[j] = "failure"}
    BY KeepOnlyElements
  <2>2. FailedJobs(a) = KeepOnly(jobs, {j \in Job : done[j] = "failure"})
    BY <1>1 DEF FailedJobs
  <2>. QED  BY <2>1, <2>2
<1>3. PICK n \in Nat : n = Len(ids) /\ DOMAIN ids = 1..n /\ \A k \in 1..n : ids[k] \in Job
  BY LenProperties
<1>4. \A j \in Job : Decoded(scenario.log[j]) \in Seq(Char)
  BY LogReadsAssumption, CompleteType DEF RequestOfTool, Byte
<1>5. PICK texts \in Seq(Seq(Char)) : texts = [k \in DOMAIN ids |-> Decoded(scenario.log[ids[k]])]
  <2>1. [k \in 1..n |-> Decoded(scenario.log[ids[k]])] \in [1..n -> Seq(Char)]
    BY <1>3, <1>4
  <2>2. [k \in 1..n |-> Decoded(scenario.log[ids[k]])] \in Seq(Seq(Char))
    BY <2>1, IsASeq
  <2>. QED  BY <1>3, <2>2
<1>6. FailedText(a) = FlattenSeq(texts)
  BY <1>2, <1>5, Zenon DEF FailedText
<1>7. ToSet(ids) \subseteq ToSet(scenario.jobs[a])
  BY <1>1, <1>2, ListedOfScenario
<1>. QED  BY <1>2, <1>6, <1>7, FlattenType

(***************************************************************************)
(* The reading of logs.  A stream is read for the first of the jobs that   *)
(* are waiting, so that there is one.                                      *)
(***************************************************************************)
LogSound ==
  /\ round \in {"before", "after"} /\ firstLog \in BOOLEAN
  /\ page \in Nat \ {0} /\ total \in Nat \cup {None} /\ scanned \in Seq(JobEntry)
  /\ before \in Seq(Job) /\ queue \in Seq(Job)
  /\ wire \in Seq(Byte) /\ pending \in Seq(Byte)
  /\ acc \in Accumulator
  /\ call.tool \in LogTools => acc \in Fitting(call.sel)
  /\ pc \in {"open", "stream"} => queue # <<>>

LEMMA LogCall ==
  ASSUME RequestOfTool, RunSound, call.tool \in LogTools
  PROVE  /\ Selectable(call.sel)
         /\ call.tool = "job_logs" => call.job \in Job
         /\ call.tool # "failed_logs" => attempt \in Attempt
         /\ \A j \in Job : scenario.log[j] \in Seq(Byte)
         /\ pc \in {"job", "attempt", "member", "list", "open", "stream"} => call.tool # "failed_logs"
         /\ pc \in {"resolve", "failed", "again"} => call.tool = "failed_logs"
<1>1. /\ {call.sel.max, call.sel.tail} \subseteq (Nat \ {0}) \cup {None}
      /\ {call.sel.start, call.sel.end} \subseteq (Seq(Char) \ {<<>>}) \cup {None}
  BY LogReadsAssumption DEF RequestOfTool, call
<1>2. call.tool = "job_logs" => call.job \in Job
  BY LogReadsAssumption DEF RequestOfTool, call
<1>3. call.tool # "failed_logs" => call.attempt # None
  BY LogReadsAssumption DEF RequestOfTool, call, LogTools
<1>4. \A j \in Job : scenario.log[j] \in Seq(Byte)
  BY LogReadsAssumption DEF RequestOfTool, Byte
<1>5. call.tool # "failed_logs" => attempt \in Attempt
  BY <1>3 DEF RunSound, RunTypeOK
<1>6. /\ pc \in {"job", "attempt", "member", "list", "open", "stream"} => call.tool # "failed_logs"
      /\ pc \in {"resolve", "failed", "again"} => call.tool = "failed_logs"
  BY DEF RequestOfTool, Requests, Ended, LogTools
<1>. QED  BY <1>1, <1>2, <1>4, <1>5, <1>6 DEF Selectable

\* The first look at the jobs leaves those that have a log waiting.
LEMMA WithAllJobsSoundly ==
  ASSUME RequestOfTool, RunSound, LogSound, call' = call, NEW entries \in Seq(JobEntry), WithAllJobs(entries)
  PROVE  LogSound'
<1>1. PICK ids \in Seq(Job) : ids = Sorted(Ids(entries), Smaller)
  BY IdsType, SortedElements
<1>2. PICK withLog : withLog = {e.id : e \in {e \in ToSet(entries) : e.done # "skipped"}}
  OBVIOUS
<1>3. PICK logged \in Seq(Job) : logged = KeepOnly(ids, withLog)
  BY KeepOnlyElements
<1>4. \/ Stop
      \/ DeliverEvidence
      \/ /\ before' = ids /\ queue' = logged
         /\ round' = IF logged = <<>> THEN "after" ELSE "before"
         /\ Goto(IF logged = <<>> THEN "attempt" ELSE "open")
         /\ UNCHANGED <<seenDone, pageVars, streamVars>>
  BY <1>1, <1>2, <1>3, Zenon DEF WithAllJobs
<1>5. CASE Stop \/ DeliverEvidence
  <2>1. UNCHANGED logVars /\ pc' \in Ended
    BY <1>5 DEF Stop, DeliverEvidence, Raise, Raises, Deliver, Returns, Ended
  <2>. QED  BY <2>1 DEF LogSound, logVars, pageVars, streamVars, Ended
<1>6. CASE /\ before' = ids /\ queue' = logged
           /\ round' = IF logged = <<>> THEN "after" ELSE "before"
           /\ Goto(IF logged = <<>> THEN "attempt" ELSE "open")
           /\ UNCHANGED <<seenDone, pageVars, streamVars>>
  BY <1>6 DEF Goto, Then, pageVars, streamVars, LogSound
<1>. QED  BY <1>4, <1>5, <1>6

LEMMA LogStepSoundly ==
  ASSUME RequestOfTool, RunSound, LogSound, LogStep
  PROVE  LogSound'
<1>1. LogNext /\ call' = call /\ scenario' = scenario /\ call.tool \in LogTools /\ UNCHANGED runVars
  BY DEF LogStep, othersOfLog, call
<1>2. ASSUME UNCHANGED logVars, pc' \notin {"open", "stream"} PROVE LogSound'
  BY <1>1, <1>2 DEF LogSound, logVars, pageVars, streamVars
<1>3. Stop => LogSound'
  BY <1>2 DEF Stop, Raise, Raises
<1>4. DeliverEvidence => LogSound'
  BY <1>2 DEF DeliverEvidence, Raise, Raises, Deliver, Returns
<1>5. ASSUME NEW chunk \in Seq(Char) PROVE AddText(acc, chunk, call.sel) \in Fitting(call.sel)
                                           /\ AddText(acc, chunk, call.sel) \in Accumulator
  BY <1>1, LogCall, AddTextType DEF LogSound, Fitting
<1>6. CASE ReadJob
  BY <1>3, <1>1, <1>6 DEF ReadJob, Goto, Then, LogSound, pageVars, streamVars
<1>7. CASE ReadAttempt
  <2>1. CASE Stop
    BY <1>3, <2>1
  <2>2. CASE ~Stop
    <3>1. /\ page' = 1 /\ total' = None /\ scanned' = <<>>
          /\ UNCHANGED <<round, seenDone, before, queue, streamVars>> /\ pc' \notin {"open", "stream"}
      BY <1>7, <2>2 DEF ReadAttempt, FirstPage, Goto, Then
    <3>2. page' \in Nat \ {0} /\ total' \in Nat \cup {None} /\ scanned' \in Seq(JobEntry)
      BY <3>1, EmptySeq
    <3>. QED  BY <1>1, <3>1, <3>2 DEF LogSound, streamVars
  <2>. QED  BY <2>1, <2>2
<1>8. ASSUME NEW ids, NEW all, ids = JobsPage(attempt, page, JobsPerPage), all = scanned \o Entries(ids),
             pc \in {"member", "list"}
      PROVE  ids \in Seq(Job) /\ all \in Seq(JobEntry)
  BY <1>1, <1>8, LogCall, JobsPageType, EntriesType, ConcatProperties DEF LogSound
<1>9. ASSUME NEW all \in Seq(JobEntry), NEW a \in Attempt,
             total' = Len(listed[a]), page' = page + 1, scanned' = all,
             UNCHANGED <<callVars, round, seenDone, before, queue, streamVars>>
      PROVE  LogSound'
  BY <1>9, <1>1, LenProperties DEF RunSound, LogSound, callVars, streamVars
<1>10. CASE ReadMember
  <2>1. attempt \in Attempt /\ pc = "member"
    BY <1>1, <1>10, LogCall DEF ReadMember
  <2>2. PICK ids, all : ids = JobsPage(attempt, page, JobsPerPage) /\ all = scanned \o Entries(ids)
    OBVIOUS
  <2>3. ids \in Seq(Job) /\ all \in Seq(JobEntry)
    BY <1>8, <2>1, <2>2
  <2>4. \/ Stop \/ DeliverEvidence
        \/ /\ call.job \in ToSet(ids) /\ Goto("open") /\ queue' = <<call.job>>
           /\ UNCHANGED <<round, seenDone, pageVars, before, streamVars>>
        \/ /\ total' = Len(listed[attempt]) /\ page' = page + 1 /\ scanned' = all
           /\ UNCHANGED <<callVars, round, seenDone, before, queue, streamVars>>
    BY <1>10, <2>2, Zenon DEF ReadMember
  <2>5. CASE /\ call.job \in ToSet(ids) /\ Goto("open") /\ queue' = <<call.job>>
             /\ UNCHANGED <<round, seenDone, pageVars, before, streamVars>>
    BY <2>3, <2>5, <1>1, ToSetIs DEF LogSound, pageVars, streamVars
  <2>6. CASE /\ total' = Len(listed[attempt]) /\ page' = page + 1 /\ scanned' = all
             /\ UNCHANGED <<callVars, round, seenDone, before, queue, streamVars>>
    BY <1>9, <2>1, <2>3, <2>6
  <2>. QED  BY <1>3, <1>4, <2>4, <2>5, <2>6
<1>11. CASE ReadList
  BY <1>1, <1>11, <1>8, <1>9, <1>3, LogCall, WithAllJobsSoundly DEF ReadList
<1>12. CASE OpenLog
  <2>1. CASE Stop
    BY <1>3, <2>1
  <2>2. CASE ~Stop
    <3>1. pc = "open" /\ queue # <<>> /\ queue \in Seq(Job)
      BY <1>12 DEF OpenLog, LogSound
    <3>2. PICK j \in Job, bytes \in Seq(Byte) : j = Head(queue) /\ bytes = scenario.log[j]
      BY <3>1, <1>1, LogCall
    <3>3. PICK n \in (IF done[j] = None THEN 0 ELSE Len(bytes))..Len(bytes) : wire' = SubSeq(bytes, 1, n)
      BY <1>12, <2>2, <3>2 DEF OpenLog
    <3>4. wire' \in Seq(Byte)
      BY <3>3, LenProperties, CutTypes
    <3>5. acc' \in Fitting(call.sel) /\ acc' \in Accumulator
      <4>1. acc' = acc \/ acc' = AddText(acc, <<Newline>>, call.sel)
        BY <1>12, <2>2 DEF OpenLog
      <4>2. <<Newline>> \in Seq(Char)
        BY LogReadsAssumption
      <4>3. AddText(acc, <<Newline>>, call.sel) \in Fitting(call.sel) /\ AddText(acc, <<Newline>>, call.sel) \in Accumulator
        BY <1>5, <4>2
      <4>4. acc \in Fitting(call.sel) /\ acc \in Accumulator
        BY <1>1 DEF LogSound
      <4>. QED  BY <4>1, <4>3, <4>4, Zenon
    <3>6. pending' \in Seq(Byte)
      BY <1>12, <2>2, EmptySeq DEF OpenLog
    <3>7. UNCHANGED <<round, seenDone, pageVars, before, queue, firstLog>>
      BY <1>12, <2>2 DEF OpenLog
    <3>. QED  BY <1>1, <3>1, <3>4, <3>5, <3>6, <3>7 DEF LogSound, pageVars
  <2>. QED  BY <2>1, <2>2
<1>13. CASE TakeChunk
  <2>1. PICK n \in 1..Min({ChunkBytes, Len(wire)}) :
          LET decoded == Complete(pending \o SubSeq(wire, 1, n)) IN
          /\ wire' = SubSeq(wire, n + 1, Len(wire))
          /\ pending' = decoded.rest
          /\ acc' = AddText(acc, decoded.text, call.sel)
    BY <1>13 DEF TakeChunk
  <2>2. n \in Nat /\ n <= Len(wire)
    <3>1. PICK l \in Nat, c \in Nat : l = Len(wire) /\ c = ChunkBytes
      BY LogReadsAssumption, LenProperties DEF LogSound
    <3>2. Min({c, l}) \in Int /\ Min({c, l}) <= l
      BY MinIs
    <3>. QED  BY <2>1, <3>1, <3>2
  <2>3. PICK bytes \in Seq(Byte) : bytes = pending \o SubSeq(wire, 1, n)
    <3>1. SubSeq(wire, 1, n) \in Seq(Byte) /\ pending \in Seq(Byte)
      BY <2>2, CutTypes DEF LogSound
    <3>. QED  BY <3>1, ConcatProperties
  <2>4. Complete(bytes).rest \in Seq(Byte) /\ Complete(bytes).text \in Seq(Char)
    BY CompleteType
  <2>5. wire' \in Seq(Byte)
    BY <2>2, <2>1, CutTypes DEF LogSound
  <2>6. pending' \in Seq(Byte) /\ acc' \in Fitting(call.sel) /\ acc' \in Accumulator
    BY <1>5, <2>1, <2>3, <2>4
  <2>7. UNCHANGED <<callVars, round, seenDone, pageVars, before, queue, firstLog>>
    BY <1>13 DEF TakeChunk
  <2>. QED  BY <1>1, <2>5, <2>6, <2>7 DEF LogSound, callVars, pageVars
<1>14. CASE EndStream
  <2>1. pc = "stream" /\ queue # <<>> /\ queue \in Seq(Job)
    BY <1>14 DEF EndStream, LogSound
  <2>2. Tail(queue) \in Seq(Job) /\ queue' = Tail(queue)
    BY <1>14, <2>1 DEF EndStream
  <2>3. acc' \in Fitting(call.sel) /\ acc' \in Accumulator
    BY <1>14, <1>5, CompleteType DEF EndStream, LogSound
  <2>4. pending' \in Seq(Byte)
    BY <1>14, EmptySeq DEF EndStream
  <2>5. round' \in {"before", "after"} /\ firstLog' \in BOOLEAN /\ UNCHANGED <<seenDone, pageVars, before, wire>>
    BY <1>14 DEF EndStream
  <2>6. pc' \in {"open", "stream"} => queue' # <<>>
    BY <1>14, <2>2 DEF EndStream, Goto, Then
  <2>. QED  BY <1>1, <2>2, <2>3, <2>4, <2>5, <2>6 DEF LogSound, pageVars
<1>15. CASE StreamFails
  BY <1>3, <1>15 DEF StreamFails, StreamRetrySafe
<1>16. CASE ResolveFailed
  BY <1>16, <1>1 DEF ResolveFailed, Raise, Raises, logVars, LogSound, pageVars, streamVars
<1>17. CASE ReadFailed
  BY <1>1, <1>17, LogCall, FailedTextType DEF ReadFailed, RunSound, RunTypeOK, LogSound, Accumulator,
     Fitting, Goto, Then, pageVars
<1>18. CASE VerifyFailed
  BY <1>2, <1>18 DEF VerifyFailed, Deliver, Returns
<1>. QED
  BY <1>1, <1>6, <1>7, <1>10, <1>11, <1>12, <1>13, <1>14, <1>15, <1>16, <1>17, <1>18 DEF LogNext

LEMMA LogSoundInvariant == Spec => []LogSound
<1>1. Init => LogSound
  <2> SUFFICES ASSUME Init PROVE LogSound
    OBVIOUS
  <2>1. /\ scenario \in Scenarios /\ pc = FirstRequest[call.tool] /\ call.tool \in DOMAIN FirstRequest
        /\ round = "before" /\ page = 1 /\ total = None /\ scanned = <<>>
        /\ before = <<>> /\ queue = <<>> /\ firstLog = TRUE /\ wire = <<>> /\ pending = <<>>
        /\ acc = NewEvidence(call.sel)
    BY ToolAssumption DEF Init, ReadInit, LogInit, call
  <2>2. pc \notin {"open", "stream"}
    BY <2>1 DEF FirstRequest
  <2>3. PICK e \in Seq(JobEntry), j \in Seq(Job), b \in Seq(Byte) : e = <<>> /\ j = <<>> /\ b = <<>>
    BY EmptySeq
  <2>4. scanned \in Seq(JobEntry) /\ before \in Seq(Job) /\ queue \in Seq(Job) /\ wire \in Seq(Byte) /\ pending \in Seq(Byte)
    BY <2>1, <2>3, Zenon
  <2>5. acc \in Accumulator
    BY <2>1, NewEvidenceType
  <2>6. acc \in Fitting(call.sel)
    BY <2>1, <2>5 DEF NewEvidence, Fitting
  <2>7. 1 \in Nat \ {0} /\ page = 1
    BY <2>1
  <2>8. page \in Nat \ {0} /\ total \in Nat \cup {None} /\ round \in {"before", "after"} /\ firstLog \in BOOLEAN
    BY <2>1, <2>7
  <2>. QED  BY <2>2, <2>4, <2>5, <2>6, <2>8 DEF LogSound
<1>2. RequestOfTool /\ RunSound /\ LogSound /\ [Next]_vars => LogSound'
  <2> SUFFICES ASSUME RequestOfTool, RunSound, LogSound, [Next]_vars PROVE LogSound'
    OBVIOUS
  <2>1. ASSUME UNCHANGED <<scenario, logVars>>, pc' \in {"open", "stream"} => pc' = pc PROVE LogSound'
    BY <2>1 DEF LogSound, logVars, pageVars, streamVars, call
  <2>2. CASE LogStep
    BY <2>2, LogStepSoundly
  <2>3. CASE RunListStep
    <3>1. UNCHANGED <<scenario, logVars>> /\ RunListNext
      BY <2>3 DEF RunListStep, othersOfRunList
    <3>2. ASSUME NEW ids, NEW more, NEW incomplete, NEW of, PageDone(ids, more, incomplete, of)
          PROVE  pc' \notin {"open", "stream"}
      BY <3>2 DEF PageDone, HandOver, Then, Returns
    <3>3. ASSUME Raise PROVE pc' \notin {"open", "stream"}
      BY <3>3 DEF Raise, Raises
    <3>4. ReadItems \/ PinRun \/ ReadJobs => pc' \notin {"open", "stream"}
      BY <3>3 DEF ReadItems, PinRun, ReadJobs, Goto, Then
    <3>5. ListRuns \/ ListJobs \/ ListArtifacts =>
            (Raise \/ \E ids, more, incomplete, of : PageDone(ids, more, incomplete, of))
      BY DEF ListRuns, ListJobs, ListArtifacts
    <3>. QED  BY <2>1, <3>1, <3>2, <3>3, <3>4, <3>5 DEF RunListNext
  <2>4. CASE WatchStep
    <3>1. (UNCHANGED <<scenario, logVars>> /\ pc' \notin {"open", "stream"}) \/ UNCHANGED <<scenario, logVars, pc>>
      BY <2>4 DEF WatchStep, othersOfWatch, WatchNext, Poll, AnswerPoll, Wake, Tick, Goto, Then, Deliver, Returns, Raise,
         Raises, callVars
    <3>. QED  BY <2>1, <3>1
  <2>5. CASE ArchiveStep
    <3>1. UNCHANGED <<scenario, logVars>> /\ ArchiveNext /\ call.tool \in ArchiveTools
      BY <2>5 DEF ArchiveStep, othersOfArchive
    <3>2. ReadArtifact \/ Download \/ EndDownload => pc' \notin {"open", "stream"}
      BY DEF ReadArtifact, Download, EndDownload, Goto, Then, Raise, Raises, callVars
    <3>3. ASSUME InspectArchive PROVE pc' \notin {"open", "stream"}
      BY <3>1, <3>3 DEF InspectArchive, ArchiveTools, ReadFile, ListFiles, Raise, Raises, Deliver,
         Returns
    <3>. QED  BY <2>1, <3>1, <3>2, <3>3 DEF ArchiveNext
  <2>6. CASE WholeStep
    BY <2>6, <2>1 DEF WholeStep, othersOfWhole, runReadVars, RepositoryListNext, ListAll, SearchItems,
       SearchCount, HandOver, Then, Returns
  <2>7. CASE PullStep
    <3>1. UNCHANGED <<scenario, logVars>> /\ PullNext
      BY <2>7 DEF PullStep, othersOfPull, runReadVars
    <3>2. pc' \notin {"open", "stream"}
      BY <3>1 DEF PullNext, LookFirst, ReadDiff, ReadByNumber, ReadReviews, ReadFollowing, ReadThread,
         ListPullFiles, ListPullCommits, ListReviews, GetThread, HandOver, Then, Returns, Raises
    <3>. QED  BY <2>1, <3>1, <3>2
  <2>8. CASE ExactStep
    <3>1. UNCHANGED <<scenario, logVars>> /\ ExactNext
      BY <2>8 DEF ExactStep, othersOfExact, runReadVars
    <3>2. ASSUME NEW isFound, Found(isFound) PROVE pc' \notin {"open", "stream"}
      BY <3>2 DEF Found, Conclude, Then, Returns, Raises
    <3>3. LookUp \/ ProbeAccess \/ AskEmpty => (pc' \notin {"open", "stream"} \/ \E f : Found(f))
      BY DEF LookUp, ProbeAccess, AskEmpty, Then, Raises
    <3>4. Compare \/ ListTree => pc' \notin {"open", "stream"}
      BY DEF Compare, ListTree, Then, Returns, Raises
    <3>. QED  BY <2>1, <3>1, <3>2, <3>3, <3>4 DEF ExactNext
  <2>9. CASE FailStep
    BY <2>1, <2>9 DEF FailStep, RequestFails, Raises, runReadVars
  <2>10. CASE RunMoves
    BY <2>1, <2>10 DEF RunMoves, GitHub, JobAppears, JobCompletes, AttemptCompletes, Rerun, RunChange, Change, replyVars
  <2>11. CASE ItemMoves
    BY <2>1, <2>11 DEF ItemMoves, ListGitHub, ItemAppears, ItemDeleted, Change, replyVars, runReadVars
  <2>12. CASE SnapshotMoves
    BY <2>1, <2>12 DEF SnapshotMoves, PullGitHub, PullMoves, Change, replyVars, runReadVars
  <2>13. CASE RepositoryMoves
    BY <2>1, <2>13 DEF RepositoryMoves, ExactGitHub, AccessChanges, Pushed, RefDeleted, Change, replyVars, runReadVars
  <2>14. CASE UNCHANGED vars
    BY <2>1, <2>14 DEF vars, replyVars, runReadVars
  <2>. QED  BY <2>2, <2>3, <2>4, <2>5, <2>6, <2>7, <2>8, <2>9, <2>10, <2>11, <2>12, <2>13, <2>14, StepByTool
<1>. QED  BY <1>1, <1>2, RequestOfToolInvariant, RunSoundInvariant, PTL DEF Spec

-----------------------------------------------------------------------------
(***************************************************************************)
(* Archives.  Of the answer so far, what is saved is what is behind the    *)
(* headers, however it was cut into chunks.                                *)
(***************************************************************************)

LEMMA KeepOnlyDrops ==
  ASSUME NEW X, NEW S, NEW s \in Seq(X), NEW e \in X, NEW t \in Seq(X), Extends(t, s, e), e \notin S
  PROVE  KeepOnly(t, S) = KeepOnly(s, S)
BY KeepOnlyStep

LEMMA KeepOnlyConcat ==
  ASSUME NEW X, NEW S, NEW s \in Seq(X), NEW t \in Seq(X)
  PROVE  KeepOnly(s \o t, S) = KeepOnly(s, S) \o KeepOnly(t, S)
<1> DEFINE T == {u \in Seq(X) : KeepOnly(s \o u, S) = KeepOnly(s, S) \o KeepOnly(u, S)}
<1>0. PICK a \in Seq(X) : a = KeepOnly(s, S)
  BY KeepOnlyElements
<1>1. <<>> \in T
  <2>1. PICK e \in Seq(X) : e = <<>>
    BY EmptySeq
  <2>2. s \o e = s /\ a \o e = a
    BY <2>1, ConcatEmptySeq
  <2>3. KeepOnly(e, S) = e
    BY <2>1, KeepOnlyAppend
  <2>4. KeepOnly(s \o e, S) = KeepOnly(s, S) \o KeepOnly(e, S)
    BY <1>0, <2>2, <2>3
  <2>. QED  BY <2>1, <2>4
<1>2. ASSUME NEW u \in Seq(X), NEW e \in X, NEW v \in Seq(X), u \in T, Extends(v, u, e)
      PROVE  v \in T
  <2>1. PICK b \in Seq(X), c \in Seq(X), su \in Seq(X), sv \in Seq(X) :
           b = KeepOnly(u, S) /\ c = KeepOnly(v, S) /\ su = s \o u /\ sv = s \o v
    BY KeepOnlyElements, ConcatProperties
  <2>2. Extends(sv, su, e)
    BY <1>2, <2>1, ExtendsConcat
  <2>3. KeepOnly(su, S) = a \o b
    BY <1>0, <1>2, <2>1
  <2>4. CASE e \in S
    <3>1. Extends(KeepOnly(sv, S), KeepOnly(su, S), e) /\ Extends(c, b, e)
      BY <1>2, <2>1, <2>2, <2>4, KeepOnlyAppend
    <3>2. Extends(a \o c, a \o b, e)
      BY <3>1, ExtendsConcat
    <3>3. KeepOnly(sv, S) = a \o c
      BY <2>3, <3>1, <3>2 DEF Extends
    <3>. QED  BY <1>0, <2>1, <3>3
  <2>5. CASE e \notin S
    <3>1. \A k, l \in Seq(X) : Extends(l, k, e) => KeepOnly(l, S) = KeepOnly(k, S)
      BY <2>5, KeepOnlyDrops
    <3>2. KeepOnly(sv, S) = KeepOnly(su, S) /\ KeepOnly(v, S) = KeepOnly(u, S)
      BY <1>2, <2>1, <2>2, <3>1, Zenon
    <3>. QED  BY <1>0, <2>1, <2>3, <3>2
  <2>. QED  BY <2>4, <2>5
<1>3. Seq(X) \subseteq T
  <2> HIDE DEF T
  <2>. QED  BY <1>1, <1>2, SeqSetInduction
<1>. QED  BY <1>3

LEMMA KeepOnlyAll ==
  ASSUME NEW X, NEW S, NEW s \in Seq(X), ToSet(s) \subseteq S
  PROVE  KeepOnly(s, S) = s
<1> DEFINE T == {u \in Seq(X) : ToSet(u) \subseteq S => KeepOnly(u, S) = u}
<1>1. <<>> \in T
  <2>1. PICK e \in Seq(X) : e = <<>>
    BY EmptySeq
  <2>2. KeepOnly(e, S) = e
    BY <2>1, KeepOnlyAppend
  <2>. QED  BY <2>1, <2>2
<1>2. ASSUME NEW u \in Seq(X), NEW e \in X, NEW v \in Seq(X), u \in T, Extends(v, u, e)
      PROVE  v \in T
  <2>1. ToSet(v) = ToSet(u) \cup {e}
    BY <1>2, ToSetAppend
  <2>2. SUFFICES ASSUME ToSet(v) \subseteq S PROVE KeepOnly(v, S) = v
    OBVIOUS
  <2>3. e \in S /\ KeepOnly(u, S) = u
    BY <1>2, <2>1, <2>2
  <2>4. Extends(KeepOnly(v, S), KeepOnly(u, S), e)
    BY <1>2, <2>3, KeepOnlyAppend
  <2>. QED  BY <1>2, <2>3, <2>4 DEF Extends
<1>3. Seq(X) \subseteq T
  <2> HIDE DEF T
  <2>. QED  BY <1>1, <1>2, SeqSetInduction
<1>. QED  BY <1>3

\* A sequence is its two parts, one behind the other.
LEMMA Parts ==
  ASSUME NEW X, NEW s \in Seq(X), NEW n \in Nat, n <= Len(s)
  PROVE  /\ SubSeq(s, 1, n) \in Seq(X) /\ SubSeq(s, n + 1, Len(s)) \in Seq(X)
         /\ s = SubSeq(s, 1, n) \o SubSeq(s, n + 1, Len(s))
<1>1. PICK l \in Nat : l = Len(s) /\ n <= l /\ \A k \in 1..l : s[k] \in X
  BY LenProperties
<1>2. PICK zero \in Nat, one \in Nat : zero = 0 /\ one = 1 /\ one = zero + 1
  OBVIOUS
<1>3. /\ SubSeq(s, one, n) \in Seq(X)
      /\ Len(SubSeq(s, one, n)) = n
      /\ \A k \in 1..n : SubSeq(s, one, n)[k] = s[k]
  BY <1>1, <1>2, SubSeqProperties
<1>4. /\ SubSeq(s, n + 1, l) \in Seq(X)
      /\ Len(SubSeq(s, n + 1, l)) = (IF n < l THEN l - n ELSE 0)
      /\ \A k \in 1..(l - n) : SubSeq(s, n + 1, l)[k] = s[n + k]
  BY <1>1, Slice
<1>5. PICK a \in Seq(X), b \in Seq(X) : a = SubSeq(s, one, n) /\ b = SubSeq(s, n + 1, l)
  BY <1>3, <1>4
<1>6. Len(a) = n /\ Len(b) = l - n /\ (\A k \in 1..n : a[k] = s[k]) /\ (\A k \in 1..(l - n) : b[k] = s[n + k])
  <2>1. Len(a) = n /\ \A k \in 1..n : a[k] = s[k]
    BY <1>3, <1>5, Zenon
  <2>2. Len(b) = (IF n < l THEN l - n ELSE 0) /\ \A k \in 1..(l - n) : b[k] = s[n + k]
    BY <1>4, <1>5, Zenon
  <2>3. (IF n < l THEN l - n ELSE 0) = l - n
    BY <1>1
  <2>. QED  BY <2>1, <2>2, <2>3, Zenon
<1>7. PICK c \in Seq(X) : c = a \o b
  BY ConcatProperties
<1>8. Len(c) = l /\ \A k \in 1..l : c[k] = IF k <= n THEN a[k] ELSE b[k - n]
  BY <1>1, <1>6, <1>7, ConcatProperties
<1>9. \A k \in 1..l : c[k] = s[k]
  <2> TAKE k \in 1..l
  <2>1. CASE k <= n
    BY <1>6, <1>8, <2>1
  <2>2. CASE ~(k <= n)
    <3>1. k - n \in 1..(l - n) /\ n + (k - n) = k
      BY <1>1, <2>2
    <3>. QED  BY <1>6, <1>8, <2>2, <3>1
  <2>. QED  BY <2>1, <2>2
<1>10. c = s
  BY <1>1, <1>8, <1>9, SeqEqual
<1>. QED  BY <1>1, <1>2, <1>5, <1>7, <1>10

AnswerByte == {"h", "s", "b"}

\* What of the answer has come.
Downloaded(past, rest) ==
  /\ past \in Seq(AnswerByte) /\ rest \in Seq(AnswerByte)
  /\ scenario.response = past \o rest
  /\ saved = KeepOnly(past, {"b"})
  /\ headers = ("s" \notin ToSet(past))

ArchiveSound ==
  /\ headers \in BOOLEAN /\ saved \in Seq({"b"})
  /\ \E past : Downloaded(past, response)
  /\ Len(saved) <= MaxArchiveBytes
  /\ pc = "inspect" => response = <<>> /\ ~headers

LEMMA KeptBytes ==
  ASSUME NEW s \in Seq(AnswerByte)
  PROVE  KeepOnly(s, {"b"}) \in Seq({"b"})
<1>1. PICK u \in Seq(AnswerByte) : u = KeepOnly(s, {"b"}) /\ ToSet(u) \subseteq {"b"}
  BY KeepOnlyElements
<1>2. PICK n \in Nat : n = Len(u) /\ DOMAIN u = 1..n /\ u = [k \in 1..n |-> u[k]]
  BY LenProperties
<1>3. \A k \in 1..n : u[k] \in {"b"}
  <2> TAKE k \in 1..n
  <2>1. ToSet(u) = {u[i] : i \in 1..Len(u)} /\ Len(u) = n
    BY <1>2, ToSetIs
  <2>. QED  BY <1>1, <2>1
<1>4. [k \in 1..n |-> u[k]] \in [1..n -> {"b"}]
  BY <1>3
<1>5. [k \in 1..n |-> u[k]] \in Seq({"b"})
  BY <1>4, IsASeq
<1>. QED  BY <1>1, <1>2, <1>5

\* Behind the end of the headers there is only the archive.
LEMMA BehindHeaders ==
  ASSUME RequestOfTool, NEW past, NEW rest, Downloaded(past, rest), "s" \in ToSet(past)
  PROVE  ToSet(rest) \subseteq {"b"}
<1>1. PICK p \in Seq(AnswerByte), r \in Seq(AnswerByte), n \in Nat, m \in Nat :
         p = past /\ r = rest /\ n = Len(p) /\ m = Len(r)
  BY LenProperties DEF Downloaded
<1>2. PICK whole \in Seq(AnswerByte) : whole = p \o r /\ Len(whole) = n + m
  BY <1>1, ConcatProperties
<1>3. \A k \in 1..(n + m) : whole[k] = IF k <= n THEN p[k] ELSE r[k - n]
  BY <1>1, <1>2, ConcatProperties
<1>4. scenario.response = whole
  BY <1>1, <1>2 DEF Downloaded
<1>5. PICK e \in 1..Len(whole) + 1 : \A k \in DOMAIN whole :
         whole[k] = CASE k < e -> "h" [] k = e -> "s" [] OTHER -> "b"
  BY <1>4, ArchiveAssumption DEF RequestOfTool
<1>6. DOMAIN whole = 1..(n + m) /\ e \in Int
  BY <1>2, LenProperties, <1>5
<1>7. PICK j \in 1..n : p[j] = "s"
  BY <1>1, ToSetIs
<1>8. whole[j] = "s" /\ j \in DOMAIN whole
  BY <1>3, <1>6, <1>7
<1>9. j = e
  BY <1>5, <1>6, <1>8
<1>10. \A k \in 1..m : r[k] = "b"
  <2> TAKE k \in 1..m
  <2>1. n + k \in 1..(n + m) /\ ~(n + k <= n) /\ n + k - n = k /\ ~(n + k < e) /\ n + k # e
    BY <1>7, <1>9
  <2>2. whole[n + k] = r[k]
    BY <1>3, <2>1
  <2>3. whole[n + k] = "b"
    BY <1>5, <1>6, <2>1
  <2>. QED  BY <2>2, <2>3
<1>11. ToSet(r) \subseteq {"b"}
  BY <1>1, <1>10, ToSetIs
<1>. QED  BY <1>1, <1>11

LEMMA DownloadSoundly ==
  ASSUME RequestOfTool, ArchiveSound, Download, scenario' = scenario
  PROVE  ArchiveSound'
<1>1. PICK past : Downloaded(past, response)
  BY DEF ArchiveSound
<1>2. PICK p \in Seq(AnswerByte), r \in Seq(AnswerByte) : p = past /\ r = response
  BY <1>1 DEF Downloaded
<1>3. pc = "download"
  BY DEF Download
<1>4. PICK n \in 1..Len(r) :
        LET chunk == SubSeq(response, 1, n)
            body == IF headers THEN KeepOnly(chunk, {"b"}) ELSE chunk
        IN  IF Len(saved) + Len(body) > MaxArchiveBytes THEN Raise /\ UNCHANGED archiveVars
            ELSE /\ response' = SubSeq(response, n + 1, Len(response))
                 /\ headers' = (headers /\ "s" \notin ToSet(chunk))
                 /\ saved' = saved \o body
                 /\ UNCHANGED callVars
  BY <1>2 DEF Download
<1>5. n \in Nat /\ n <= Len(r)
  BY <1>4, LenProperties
<1>6. PICK chunk \in Seq(AnswerByte), rest \in Seq(AnswerByte) :
         chunk = SubSeq(r, 1, n) /\ rest = SubSeq(r, n + 1, Len(r)) /\ r = chunk \o rest
  <2>1. /\ SubSeq(r, 1, n) \in Seq(AnswerByte) /\ SubSeq(r, n + 1, Len(r)) \in Seq(AnswerByte)
        /\ r = SubSeq(r, 1, n) \o SubSeq(r, n + 1, Len(r))
    BY <1>5, Parts
  <2>. QED  BY <2>1, Zenon
<1>7. PICK body : body = IF headers THEN KeepOnly(chunk, {"b"}) ELSE chunk
  OBVIOUS
<1>8. \/ Raise /\ UNCHANGED archiveVars
      \/ /\ ~(Len(saved) + Len(body) > MaxArchiveBytes)
         /\ response' = rest /\ headers' = (headers /\ "s" \notin ToSet(chunk)) /\ saved' = saved \o body
         /\ UNCHANGED callVars
  BY <1>2, <1>4, <1>6, <1>7, Zenon
<1>9. CASE Raise /\ UNCHANGED archiveVars
  BY <1>9 DEF ArchiveSound, archiveVars, Raise, Raises, Downloaded
<1>10. CASE /\ ~(Len(saved) + Len(body) > MaxArchiveBytes)
            /\ response' = rest /\ headers' = (headers /\ "s" \notin ToSet(chunk)) /\ saved' = saved \o body
            /\ UNCHANGED callVars
  <2>1. body = KeepOnly(chunk, {"b"})
    <3>1. CASE headers
      BY <1>7, <3>1
    <3>2. CASE ~headers
      <4>1. "s" \in ToSet(past)
        BY <1>1, <3>2 DEF Downloaded
      <4>2. ToSet(r) \subseteq {"b"}
        BY <1>1, <1>2, <4>1, BehindHeaders
      <4>3. ToSet(chunk) \subseteq {"b"}
        <5>1. ToSet(chunk \o rest) = ToSet(chunk) \cup ToSet(rest)
          BY ToSetConcat
        <5>2. ToSet(chunk) \subseteq ToSet(r)
          BY <1>6, <5>1, Zenon
        <5>. QED  BY <4>2, <5>2
      <4>4. KeepOnly(chunk, {"b"}) = chunk
        BY <4>3, KeepOnlyAll
      <4>. QED  BY <1>7, <3>2, <4>4
    <3>. QED  BY <3>1, <3>2
  <2>2. PICK next \in Seq(AnswerByte) : next = p \o chunk
    BY ConcatProperties
  <2>3. KeepOnly(next, {"b"}) = KeepOnly(p, {"b"}) \o KeepOnly(chunk, {"b"}) /\ ToSet(next) = ToSet(p) \cup ToSet(chunk)
    <3>1. p \in Seq(AnswerByte) /\ chunk \in Seq(AnswerByte)
      BY <1>2, <1>6
    <3>2. KeepOnly(p \o chunk, {"b"}) = KeepOnly(p, {"b"}) \o KeepOnly(chunk, {"b"})
      BY <3>1, KeepOnlyConcat
    <3>3. ToSet(p \o chunk) = ToSet(p) \cup ToSet(chunk)
      BY <3>1, ToSetConcat
    <3>. QED  BY <2>2, <3>2, <3>3, Zenon
  <2>4. scenario.response = next \o rest
    <3>1. scenario.response = p \o (chunk \o rest)
      BY <1>1, <1>2, <1>6 DEF Downloaded
    <3>2. (p \o chunk) \o rest = p \o (chunk \o rest)
      <4>1. Associative(AnswerByte)
        BY ConcatIsAssociative, Zenon
      <4>2. p \in Seq(AnswerByte) /\ chunk \in Seq(AnswerByte) /\ rest \in Seq(AnswerByte)
        BY <1>2, <1>6
      <4>. QED  BY <4>1, <4>2, Zenon DEF Associative
    <3>. QED  BY <2>2, <3>1, <3>2, Zenon
  <2>5. saved' = KeepOnly(next, {"b"})
    BY <1>1, <1>2, <1>10, <2>1, <2>3 DEF Downloaded
  <2>6. headers' = ("s" \notin ToSet(next))
    <3>1. headers = ("s" \notin ToSet(p))
      BY <1>1, <1>2 DEF Downloaded
    <3>2. headers' = (headers /\ "s" \notin ToSet(chunk))
      BY <1>10
    <3>3. ("s" \notin ToSet(next)) = (("s" \notin ToSet(p)) /\ "s" \notin ToSet(chunk))
      BY <2>3
    <3>. QED  BY <3>1, <3>2, <3>3
  <2>7. Downloaded(next, response)'
    BY <1>10, <2>4, <2>5, <2>6 DEF Downloaded
  <2>8. saved' \in Seq({"b"}) /\ headers' \in BOOLEAN
    <3>1. saved' \in Seq({"b"})
      BY <2>5, KeptBytes
    <3>2. headers' \in BOOLEAN
      BY <2>6
    <3>. QED  BY <3>1, <3>2
  <2>9. Len(saved') <= MaxArchiveBytes
    <3>1. PICK a \in Seq({"b"}), b \in Seq(AnswerByte) : a = saved /\ b = body
      BY <2>1, KeepOnlyElements DEF ArchiveSound
    <3>2. PICK na \in Nat, nb \in Nat : na = Len(a) /\ nb = Len(b)
      BY LenProperties
    <3>3. a \in Seq(AnswerByte)
      <4>1. a = KeepOnly(p, {"b"})
        BY <1>1, <1>2, <3>1 DEF Downloaded
      <4>. QED  BY <4>1, KeepOnlyElements
    <3>4. Len(a \o b) = na + nb
      BY <3>2, <3>3, ConcatProperties
    <3>5. ~(na + nb > MaxArchiveBytes) /\ saved' = a \o b
      BY <1>10, <3>1, <3>2
    <3>6. MaxArchiveBytes \in Nat
      BY ArchiveAssumption
    <3>. QED  BY <3>4, <3>5, <3>6
  <2>10. pc' # "inspect"
    BY <1>3, <1>10 DEF callVars
  <2>. QED  BY <2>7, <2>8, <2>9, <2>10 DEF ArchiveSound
<1>. QED  BY <1>8, <1>9, <1>10

LEMMA ArchiveSoundInvariant == Spec => []ArchiveSound
<1>1. Init => ArchiveSound
  <2> SUFFICES ASSUME Init PROVE ArchiveSound
    OBVIOUS
  <2>1. /\ scenario \in Scenarios /\ pc = FirstRequest[call.tool] /\ call.tool \in DOMAIN FirstRequest
        /\ response = scenario.response /\ headers = TRUE /\ saved = <<>>
    BY ToolAssumption DEF Init, ReadInit, ArchiveInit, call
  <2>2. pc # "inspect"
    BY <2>1 DEF FirstRequest
  <2>3. PICK p \in Seq(AnswerByte) : p = <<>>
    BY EmptySeq
  <2>4. PICK r \in Seq(AnswerByte) : r = scenario.response
    BY <2>1, ArchiveAssumption DEF AnswerByte
  <2>5. p \o r = r
    BY <2>3, ConcatEmptySeq
  <2>6. KeepOnly(p, {"b"}) = p /\ ToSet(p) = {}
    BY <2>3, KeepOnlyAppend, ToSetAppend
  <2>7. Downloaded(p, response)
    BY <2>1, <2>3, <2>6, <2>4, <2>5 DEF Downloaded
  <2>8. saved \in Seq({"b"})
    BY <2>7, KeptBytes DEF Downloaded
  <2>9. Len(saved) <= MaxArchiveBytes
    BY <2>3, <2>1, EmptySeq, ArchiveAssumption
  <2>10. headers \in BOOLEAN
    BY <2>1
  <2>. QED  BY <2>2, <2>7, <2>8, <2>9, <2>10 DEF ArchiveSound
<1>2. RequestOfTool /\ RequestOfTool' /\ ArchiveSound /\ [Next]_vars => ArchiveSound'
  <2> SUFFICES ASSUME RequestOfTool, RequestOfTool', ArchiveSound, [Next]_vars PROVE ArchiveSound'
    OBVIOUS
  <2>1. ASSUME UNCHANGED <<scenario, archiveVars>>, pc' = "inspect" => pc = "inspect" PROVE ArchiveSound'
    BY <2>1 DEF ArchiveSound, archiveVars, Downloaded
  <2>2. ASSUME call.tool \notin ArchiveTools, UNCHANGED scenario PROVE pc' # "inspect"
    BY <2>2, ToolAssumption DEF call, RequestOfTool, Requests, FirstRequest, Ended, ArchiveTools
  <2>3. CASE ArchiveStep
    <3>1. UNCHANGED scenario /\ ArchiveNext /\ call.tool \in ArchiveTools
      BY <2>3 DEF ArchiveStep, othersOfArchive
    <3>2. CASE ReadArtifact
      BY <2>1, <3>1, <3>2 DEF ReadArtifact, Goto, Then, Raise, Raises
    <3>3. CASE Download
      BY <3>1, <3>3, DownloadSoundly
    <3>4. CASE EndDownload
      BY <2>1, <3>1, <3>4 DEF EndDownload, Raise, Raises, ArchiveSound, archiveVars, Downloaded
    <3>5. CASE InspectArchive
      BY <2>1, <3>1, <3>5 DEF InspectArchive
    <3>. QED  BY <3>1, <3>2, <3>3, <3>4, <3>5 DEF ArchiveNext
  <2>4. CASE LogStep \/ RunListStep \/ WatchStep \/ WholeStep \/ PullStep \/ ExactStep
    <3>1. UNCHANGED <<scenario, archiveVars>>
      BY <2>4 DEF LogStep, othersOfLog, RunListStep, othersOfRunList, WatchStep, othersOfWatch, WholeStep,
         othersOfWhole, PullStep, othersOfPull, ExactStep, othersOfExact, runReadVars
    <3>2. call.tool \notin ArchiveTools
      BY <2>4 DEF LogStep, RunListStep, WatchStep, WholeStep, PullStep, ExactStep, LogTools, RunListTools,
         WholeTools, PullTools, ExactTools, ArchiveTools
    <3>. QED  BY <2>1, <2>2, <3>1, <3>2
  <2>5. CASE FailStep
    BY <2>1, <2>5 DEF FailStep, RequestFails, Raises, runReadVars
  <2>6. CASE RunMoves
    BY <2>1, <2>6 DEF RunMoves, GitHub, JobAppears, JobCompletes, AttemptCompletes, Rerun, RunChange, Change, replyVars
  <2>7. CASE ItemMoves
    BY <2>1, <2>7 DEF ItemMoves, ListGitHub, ItemAppears, ItemDeleted, Change, replyVars, runReadVars
  <2>8. CASE SnapshotMoves
    BY <2>1, <2>8 DEF SnapshotMoves, PullGitHub, PullMoves, Change, replyVars, runReadVars
  <2>9. CASE RepositoryMoves
    BY <2>1, <2>9 DEF RepositoryMoves, ExactGitHub, AccessChanges, Pushed, RefDeleted, Change, replyVars, runReadVars
  <2>10. CASE UNCHANGED vars
    BY <2>1, <2>10 DEF vars, replyVars, runReadVars
  <2>. QED  BY <2>3, <2>4, <2>5, <2>6, <2>7, <2>8, <2>9, <2>10, StepByTool
<1>. QED  BY <1>1, <1>2, RequestOfToolInvariant, PTL DEF Spec

-----------------------------------------------------------------------------
\* Every variable has its type, whatever the tools return and whatever happens
\* on GitHub while they read.
THEOREM TypeOKInvariant == Spec => []TypeOK
<1>1. RequestOfTool /\ RunSound /\ ChangesSound /\ LogSound /\ ListSound /\ WatchSound /\ ArchiveSound /\ PullSound /\ ExactSound
      => TypeOK
  <2> SUFFICES ASSUME RequestOfTool, RunSound, ChangesSound, LogSound, ListSound, WatchSound, ArchiveSound, PullSound, ExactSound
               PROVE  TypeOK
    OBVIOUS
  <2>1. RunTypeOK
    BY DEF RunSound
  <2>2. /\ round \in {"before", "after"} /\ firstLog \in BOOLEAN
        /\ page \in Nat \ {0} /\ total \in Nat \cup {None}
        /\ before \in Seq(Job) /\ queue \in Seq(Job)
    BY DEF LogSound
  <2>3. acc.seen \in Seq(Char) /\ acc.kept \in Seq(Char)
    BY DEF LogSound, Accumulator
  <2>4. pending \in Seq(Char \X (1..4)) /\ wire \in Seq(Char \X (1..4))
    BY DEF LogSound, Byte
  <2>5. {empty, access, regained} \subseteq BOOLEAN
    BY DEF ExactSound
  <2>6. snapshot \in Snapshot \cup {None} /\ cameBack \in BOOLEAN /\ present \subseteq Object /\ missing \subseteq Object
    BY DEF PullSound, ExactSound
  <2>7. headers \in BOOLEAN /\ saved \in Seq({"b"})
    BY DEF ArchiveSound
  <2>. QED  BY <2>1, <2>2, <2>3, <2>4, <2>5, <2>6, <2>7 DEF TypeOK, ChangesSound, ListSound, WatchSound
<1>. QED
  BY <1>1, RequestOfToolInvariant, RunSoundInvariant, ChangesSoundInvariant, LogSoundInvariant, ListSoundInvariant,
     WatchSoundInvariant, ArchiveSoundInvariant, PullSoundInvariant, ExactSoundInvariant, PTL

-----------------------------------------------------------------------------
(***************************************************************************)
(* Evidence is of the attempt it names.                                    *)
(***************************************************************************)

JobsPinned ==
  /\ call.tool = "job_logs" /\ pc = "delivered" => call.job \in ToSet(scenario.jobs[result.attempt])
  /\ call.tool = "failed_logs" =>
       /\ pc = "again" => ToSet(queue) \subseteq ToSet(scenario.jobs[attempt])
       /\ pc = "delivered" => ToSet(queue) \subseteq ToSet(scenario.jobs[result.attempt])
  /\ call.tool = "list_jobs" =>
       /\ collected \subseteq UNION {ToSet(scenario.jobs[a]) : a \in pinnedTo}
       /\ pc = "verify" => ToSet(read.page) \subseteq ToSet(scenario.jobs[attempt])

LEMMA JobsPinnedStays ==
  ASSUME JobsPinned, call' = call, scenario' = scenario,
         \/ call.tool \notin {"job_logs", "failed_logs", "list_jobs"}
         \/ pc' \notin {"delivered", "again", "verify"} /\ (call.tool = "list_jobs" => UNCHANGED listVars)
         \/ UNCHANGED <<pc, result, attempt, queue, listVars>>
  PROVE  JobsPinned'
BY DEF JobsPinned, listVars

\* A page holds nothing that the list does not.
LEMMA PageElements ==
  ASSUME RequestOfTool, ListSound, call.tool \in ListTools, NEW X, NEW s \in Seq(X)
  PROVE  ToSet(Page(s)) \subseteq ToSet(s)
BY PageSizes, LenProperties, MinIs, PieceElements DEF Page, PageStart, PageEnd

LEMMA JobLogsPinned ==
  ASSUME RequestOfTool, RunSound, LogSound, JobsPinned, LogStep
  PROVE  JobsPinned'
<1>1. LogNext /\ call' = call /\ scenario' = scenario /\ call.tool \in LogTools /\ call.tool # "list_jobs"
  BY DEF LogStep, othersOfLog, call, LogTools
<1>2. ASSUME pc' \notin {"delivered", "again", "verify"} PROVE JobsPinned'
  BY <1>1, <1>2, JobsPinnedStays
<1>3. Stop => JobsPinned'
  BY <1>2 DEF Stop, Raise, Raises
<1>4. CASE ReadJob \/ ReadAttempt \/ OpenLog \/ EndStream \/ StreamFails \/ ResolveFailed
  <2>1. pc' \notin {"delivered", "again", "verify"}
    BY <1>4 DEF ReadJob, ReadAttempt, OpenLog, EndStream, StreamFails, StreamRetrySafe, ResolveFailed, Stop, Raise,
       Raises, Goto, Then
  <2>. QED  BY <1>2, <2>1
<1>5. CASE TakeChunk
  BY <1>5, <1>2 DEF TakeChunk, callVars
<1>6. CASE ReadMember
  <2>1. pc = "member"
    BY <1>6 DEF ReadMember
  <2>2. call.tool # "failed_logs" /\ attempt \in Attempt
    BY <1>1, <2>1, LogCall
  <2>3. PICK ids : ids = JobsPage(attempt, page, JobsPerPage)
    OBVIOUS
  <2>4. \/ Stop \/ (DeliverEvidence /\ call.job \in ToSet(ids))
        \/ Goto("open") \/ UNCHANGED callVars
    BY <1>6, <2>3, Zenon DEF ReadMember
  <2>5. CASE Goto("open") \/ UNCHANGED callVars
    BY <2>1, <2>5, <1>2 DEF Goto, Then, callVars
  <2>6. CASE DeliverEvidence /\ call.job \in ToSet(ids)
    <3>1. pc' = "raised" \/ (pc' = "delivered" /\ result' = [attempt |-> attempt, evidence |-> Finish(acc, call.sel)])
      BY <2>6 DEF DeliverEvidence, Raise, Raises, Deliver, Returns
    <3>2. page \in Nat \ {0}
      BY DEF LogSound
    <3>3. ToSet(ids) \subseteq ToSet(listed[attempt])
      BY <2>2, <2>3, <3>2, JobsPageType
    <3>4. call.job \in ToSet(scenario.jobs[attempt])
      BY <2>2, <2>6, <3>3, ListedOfScenario
    <3>5. CASE pc' = "raised"
      BY <1>2, <3>5
    <3>6. CASE pc' = "delivered" /\ result' = [attempt |-> attempt, evidence |-> Finish(acc, call.sel)]
      BY <3>6, <1>1, <2>2, <3>4 DEF JobsPinned
    <3>. QED  BY <3>1, <3>5, <3>6
  <2>. QED  BY <1>3, <2>4, <2>5, <2>6
<1>7. CASE ReadList
  BY <1>7, <1>1, ToolAssumption, JobsPinnedStays DEF ReadList, RequestOfTool, call, Requests, Ended,
     LogTools
<1>8. CASE ReadFailed
  BY <1>8, <1>1, LogCall, FailedTextType DEF ReadFailed, Goto, Then, RunSound, RunTypeOK, JobsPinned
<1>9. CASE VerifyFailed
  BY <1>9, <1>1, LogCall DEF VerifyFailed, Deliver, Returns, logVars, JobsPinned
<1>. QED  BY <1>1, <1>4, <1>5, <1>6, <1>7, <1>8, <1>9 DEF LogNext

LEMMA JobListPinned ==
  ASSUME RequestOfTool, RunSound, ListSound, JobsPinned, RunListStep, call.tool = "list_jobs"
  PROVE  JobsPinned'
<1>1. RunListNext /\ call' = call /\ scenario' = scenario
  BY DEF RunListStep, othersOfRunList, call
<1>2. pc \notin {"items", "names"}
  BY DEF RequestOfTool, Requests, Ended
<1>3. ~ReadItems /\ ~ListRuns /\ ~ListArtifacts
  BY <1>2 DEF ReadItems, ListRuns, ListArtifacts
<1>4. CASE PinRun
  BY <1>4, <1>1, JobsPinnedStays DEF PinRun, Raise, Raises
<1>5. CASE ReadJobs
  BY <1>5, <1>1, PageElements, ListedOfScenario DEF ReadJobs, Answer, Goto, RunSound, RunTypeOK,
     JobsPage, Page, ListTools, cursorVars, JobsPinned
<1>6. CASE ListJobs
  BY <1>6, <1>1 DEF ListJobs, PageDone, HandOver, Then, Returns, JobsPinned
<1>. QED  BY <1>1, <1>3, <1>4, <1>5, <1>6 DEF RunListNext

LEMMA JobsPinnedInvariant == Spec => []JobsPinned
<1>1. Init => JobsPinned
  BY ToolAssumption DEF Init, ReadInit, ListInit, call, FirstRequest, JobsPinned
<1>2. RequestOfTool /\ RunSound /\ LogSound /\ ListSound /\ JobsPinned /\ [Next]_vars => JobsPinned'
  <2> SUFFICES ASSUME RequestOfTool, RunSound, LogSound, ListSound, JobsPinned, [Next]_vars PROVE JobsPinned'
    OBVIOUS
  <2>1. ASSUME call' = call, scenario' = scenario, call.tool \notin {"job_logs", "failed_logs", "list_jobs"}
        PROVE  JobsPinned'
    BY <2>1, JobsPinnedStays
  <2>2. ASSUME UNCHANGED <<scenario, pc, result, attempt, queue, listVars>> PROVE JobsPinned'
    BY <2>2, JobsPinnedStays DEF call
  <2>3. CASE LogStep
    BY <2>3, JobLogsPinned
  <2>4. CASE RunListStep
    BY <2>4, <2>1, JobListPinned DEF RunListStep, othersOfRunList, call, RunListTools
  <2>5. CASE WatchStep \/ ArchiveStep \/ WholeStep \/ PullStep \/ ExactStep
    <3>1. call' = call /\ scenario' = scenario
      BY <2>5 DEF WatchStep, othersOfWatch, ArchiveStep, othersOfArchive, WholeStep, othersOfWhole, PullStep,
         othersOfPull, ExactStep, othersOfExact, call
    <3>2. call.tool \notin {"job_logs", "failed_logs", "list_jobs"}
      BY <2>5 DEF WatchStep, ArchiveStep, WholeStep, PullStep, ExactStep, ArchiveTools, WholeTools, PullTools, ExactTools
    <3>. QED  BY <2>1, <3>1, <3>2
  <2>6. CASE FailStep
    BY <2>6, JobsPinnedStays DEF FailStep, RequestFails, Raises, call
  <2>7. CASE RunMoves
    BY <2>2, <2>7 DEF RunMoves, GitHub, JobAppears, JobCompletes, AttemptCompletes, Rerun, RunChange, Change, replyVars,
       logVars
  <2>8. CASE ItemMoves
    BY <2>8, <2>1 DEF ItemMoves, ListGitHub, ItemAppears, ItemDeleted, Change, call, Shrinking
  <2>9. CASE SnapshotMoves
    BY <2>2, <2>9 DEF SnapshotMoves, PullGitHub, PullMoves, Change, replyVars, runReadVars, logVars
  <2>10. CASE RepositoryMoves
    BY <2>2, <2>10 DEF RepositoryMoves, ExactGitHub, AccessChanges, Pushed, RefDeleted, Change, replyVars, runReadVars,
       logVars
  <2>11. CASE UNCHANGED vars
    BY <2>2, <2>11 DEF vars, replyVars, runReadVars, logVars
  <2>. QED  BY <2>3, <2>4, <2>5, <2>6, <2>7, <2>8, <2>9, <2>10, <2>11, StepByTool
<1>. QED  BY <1>1, <1>2, RequestOfToolInvariant, RunSoundInvariant, LogSoundInvariant, ListSoundInvariant, PTL DEF Spec

-----------------------------------------------------------------------------
(***************************************************************************)
(* Evidence is of the base and head it names.                              *)
(***************************************************************************)

ThreadPinned ==
  call.tool = "get_thread" =>
    /\ pc \in {"content", "verify"} => seen[2] = call.head
    /\ pc = "verify" /\ ~cameBack /\ snapshot = seen => read.outdated = (call.head # scenario.anchor)
    /\ pc = "delivered" /\ result.exact =>
         /\ result.head = call.head
         /\ ~cameBack => result.thread.outdated = (call.head # scenario.anchor)

RecordsPinned ==
  call.tool \in PagedPulls /\ ~cameBack => \A i \in collected : i[1] = i[2][1]

PullsPinned == ThreadPinned /\ RecordsPinned

LEMMA PullsPinnedStays ==
  ASSUME PullsPinned, call' = call, scenario' = scenario,
         \/ call.tool \notin PullTools
         \/ UNCHANGED <<collected, pullVars>> /\ pc' = "raised"
         \/ UNCHANGED <<pc, result, listVars, pullVars>>
  PROVE  PullsPinned'
BY DEF PullsPinned, ThreadPinned, RecordsPinned, PullTools, PagedPulls, pullVars, listVars

\* The records of a snapshot name it.
LEMMA RecordsName ==
  ASSUME NEW s, NEW K, NEW i \in {<<s, <<s, k>>>> : k \in K}
  PROVE  i[1] = i[2][1]
OBVIOUS

LEMMA FirstRecords ==
  ASSUME NEW s, scenario.size[s] \in Nat, NEW m \in Int, m <= scenario.size[s]
  PROVE  /\ Len(Content(s)) = scenario.size[s]
         /\ \A i \in ToSet(Named(s, SubSeq(Content(s), 1, m))) : i[1] = i[2][1]
<1>1. PICK zero \in Nat, one \in Nat : zero = 0 /\ one = 1 /\ one = zero + 1
  OBVIOUS
<1>2. /\ Len(Content(s)) = scenario.size[s]
      /\ ToSet(Named(s, SubSeq(Content(s), zero + 1, m))) = {<<s, <<s, k>>>> : k \in (zero + 1)..m}
  BY NamedSlice
<1>3. \A i \in ToSet(Named(s, SubSeq(Content(s), zero + 1, m))) : i[1] = i[2][1]
  BY <1>2, RecordsName
<1>. QED  BY <1>1, <1>2, <1>3

LEMMA RecordsPinnedByStep ==
  ASSUME RequestOfTool, ListSound, PullSound, PullsCover, PullsPinned, PullStep, call.tool \in PagedPulls
  PROVE  RecordsPinned'
<1>1. PullNext /\ scenario' = scenario /\ call' = call /\ UNCHANGED <<snapshot, cameBack>>
  BY DEF PullStep, othersOfPull, call, PullNext, pullVars
<1>2. call.tool \in ListTools
  BY DEF PagedPulls, ListTools
<1>3. SUFFICES ASSUME ~cameBack PROVE \A i \in collected' : i[1] = i[2][1]
  BY <1>1 DEF RecordsPinned
<1>4. \A i \in collected : i[1] = i[2][1]
  BY <1>3 DEF PullsPinned, RecordsPinned
<1>5. \A s \in Snapshot : scenario.size[s] \in Nat
  BY PullAssumption DEF RequestOfTool, call, PagedPulls, PullTools
<1>6. CASE UNCHANGED collected
  BY <1>4, <1>6
<1>7. CASE ReadDiff
  <2>1. pc = "content" /\ call.tool = "pr_diff"
    BY <1>7 DEF ReadDiff
  <2>2. seen \in Snapshot /\ scenario.size[seen] \in Nat
    BY <1>3, <1>5, <2>1 DEF PullsCover
  <2>3. PICK per \in Nat \ {0}, n \in Nat : per = PageLimit /\ n = scenario.size[seen]
    BY <1>2, <2>2, PageSizes
  <2>4. PICK m \in Int : m = Min({n, per}) /\ m <= n
    BY MinIs
  <2>5. m <= scenario.size[seen]
    BY <2>3, <2>4
  <2>6. Len(Content(seen)) = scenario.size[seen]
        /\ \A i \in ToSet(Named(seen, SubSeq(Content(seen), 1, m))) : i[1] = i[2][1]
    BY <2>2, <2>5, FirstRecords
  <2>7. PICK ids : ids = Named(seen, SubSeq(Content(seen), 1, m))
    OBVIOUS
  <2>8. collected' = collected \cup ToSet(ids)
    BY <1>7, <2>3, <2>4, <2>6, <2>7 DEF ReadDiff, HandOver
  <2>10. \A i \in ToSet(ids) : i[1] = i[2][1]
    BY <2>6, <2>7
  <2>. QED  BY <1>4, <2>8, <2>10
<1>8. CASE ListPullFiles \/ ListPullCommits
  BY <1>8, <1>3, <1>5, <1>2, <1>4, <1>6, PageOfRecords, RecordsName DEF ListPullFiles, ListPullCommits,
     PullsCover, PagedPulls, Records, Unmoved, HandOver, listVars
<1>9. LookFirst \/ ReadByNumber \/ ReadReviews \/ ReadFollowing \/ ReadThread \/ GetThread => UNCHANGED collected
  BY DEF LookFirst, ReadByNumber, ReadReviews, ReadFollowing, ReadThread, GetThread, cursorVars, listVars
<1>10. ~ListReviews
  BY DEF ListReviews, PagedPulls
<1>. QED  BY <1>1, <1>6, <1>7, <1>8, <1>9, <1>10 DEF PullNext

LEMMA ThreadPinnedByStep ==
  ASSUME RequestOfTool, PullsPinned, PullStep, call.tool = "get_thread"
  PROVE  ThreadPinned'
<1>1. PullNext /\ scenario' = scenario /\ call' = call /\ UNCHANGED <<snapshot, cameBack>>
  BY DEF PullStep, othersOfPull, call, PullNext, pullVars
<1>2. ThreadPinned
  BY DEF PullsPinned
<1>3. pc # "following"
  BY DEF RequestOfTool, Requests, Ended
<1>4. CASE LookFirst
  BY <1>4, <1>1 DEF LookFirst, Returns, NoExactEvidence, ThreadPinned, Then
<1>5. CASE ReadThread
  BY <1>5, <1>2, <1>1 DEF ReadThread, Then, ThreadPinned
<1>6. CASE GetThread
  BY <1>6, <1>2, <1>1 DEF GetThread, Returns, Unmoved, ThreadPinned, NoExactEvidence
<1>. QED
  BY <1>1, <1>3, <1>4, <1>5, <1>6
     DEF PullNext, ReadDiff, ReadByNumber, ReadReviews, ReadFollowing, ListPullFiles, ListPullCommits, ListReviews

LEMMA PullsPinnedInvariant == Spec => []PullsPinned
<1>1. Init => PullsPinned
  BY ToolAssumption DEF Init, ReadInit, ListInit, call, FirstRequest, PullsPinned, ThreadPinned,
     RecordsPinned
<1>2. RequestOfTool /\ ListSound /\ PullSound /\ PullsCover /\ PullsPinned /\ [Next]_vars => PullsPinned'
  <2> SUFFICES ASSUME RequestOfTool, ListSound, PullSound, PullsCover, PullsPinned, [Next]_vars PROVE PullsPinned'
    OBVIOUS
  <2>1. ASSUME call' = call, scenario' = scenario, call.tool \notin PullTools PROVE PullsPinned'
    BY <2>1, PullsPinnedStays
  <2>2. ASSUME UNCHANGED <<scenario, pc, result, listVars, pullVars>> PROVE PullsPinned'
    BY <2>2, PullsPinnedStays DEF call
  <2>3. CASE PullStep
    BY <2>3, ThreadPinnedByStep, RecordsPinnedByStep DEF PullStep, othersOfPull, call, ThreadPinned,
       RecordsPinned, PullsPinned
  <2>4. CASE LogStep \/ RunListStep \/ WatchStep \/ ArchiveStep \/ WholeStep \/ ExactStep
    <3>1. call' = call /\ scenario' = scenario
      BY <2>4 DEF LogStep, othersOfLog, RunListStep, othersOfRunList, WatchStep, othersOfWatch, ArchiveStep,
         othersOfArchive, WholeStep, othersOfWhole, ExactStep, othersOfExact, call
    <3>2. call.tool \notin PullTools
      BY <2>4 DEF LogStep, RunListStep, WatchStep, ArchiveStep, WholeStep, ExactStep, LogTools, RunListTools,
         ArchiveTools, WholeTools, PullTools, ExactTools
    <3>. QED  BY <2>1, <3>1, <3>2
  <2>5. CASE FailStep
    BY <2>5, PullsPinnedStays DEF FailStep, RequestFails, Raises, call, listVars
  <2>6. CASE RunMoves
    BY <2>2, <2>6 DEF RunMoves, GitHub, JobAppears, JobCompletes, AttemptCompletes, Rerun, RunChange, Change, replyVars
  <2>7. CASE ItemMoves
    <3>1. /\ call' = call /\ UNCHANGED <<scenario, pc, result, pullVars, seen, read, collected>>
      BY <2>7 DEF ItemMoves, ListGitHub, ItemAppears, ItemDeleted, Change, replyVars, call
    <3>2. UNCHANGED <<snapshot, cameBack>>
      BY <3>1 DEF pullVars
    <3>3. ThreadPinned' /\ RecordsPinned'
      BY <3>1, <3>2 DEF PullsPinned, ThreadPinned, RecordsPinned
    <3>. QED  BY <3>3 DEF PullsPinned
  <2>8. CASE SnapshotMoves
    BY <2>8 DEF SnapshotMoves, PullGitHub, PullMoves, Change, replyVars, call, listVars, PullsPinned,
       ThreadPinned, RecordsPinned
  <2>9. CASE RepositoryMoves
    BY <2>2, <2>9 DEF RepositoryMoves, ExactGitHub, AccessChanges, Pushed, RefDeleted, Change, replyVars
  <2>10. CASE UNCHANGED vars
    BY <2>2, <2>10 DEF vars, replyVars
  <2>. QED  BY <2>3, <2>4, <2>5, <2>6, <2>7, <2>8, <2>9, <2>10, StepByTool
<1>. QED
  BY <1>1, <1>2, RequestOfToolInvariant, ListSoundInvariant, PullSoundInvariant, PullsCoverInvariant, PTL DEF Spec

-----------------------------------------------------------------------------
\* Evidence is of the attempt, and of the base and head, it names, however the
\* run and the pull request go on between two requests of a call.
THEOREM EvidenceIsPinnedInvariant == Spec => []EvidenceIsPinned
<1>1. RunSound /\ JobsPinned /\ PullsPinned => EvidenceIsPinned
  BY DEF RunSound, JobsPinned, AttemptPinned, PullsPinned, ThreadPinned, RecordsPinned, PagedPulls,
     SnapshotPinned, EvidenceIsPinned
<1>. QED  BY <1>1, RunSoundInvariant, JobsPinnedInvariant, PullsPinnedInvariant, PTL

-----------------------------------------------------------------------------
(***************************************************************************)
(* The inspection of an archive accepts exactly the trees of files.        *)
(***************************************************************************)

LEMMA NarrowSeq ==
  ASSUME NEW X, NEW s \in Seq(X), NEW Y, ToSet(s) \subseteq Y
  PROVE  s \in Seq(Y)
<1>1. PICK n \in Nat : n = Len(s) /\ s = [k \in 1..n |-> s[k]]
  BY LenProperties
<1>2. \A k \in 1..n : s[k] \in Y
  <2>1. ToSet(s) = {s[k] : k \in 1..Len(s)}
    BY ToSetIs
  <2>. QED  BY <1>1, <2>1
<1>3. [k \in 1..n |-> s[k]] \in [1..n -> Y]
  BY <1>2
<1>4. [k \in 1..n |-> s[k]] \in Seq(Y)
  BY <1>3
<1>. QED  BY <1>1, <1>4

LEMMA NormalPathType ==
  ASSUME NEW e \in Entry, NormalPath(e) # None
  PROVE  NormalPath(e) \in Path /\ NormalPath(e) # <<>>
BY KeepOnlyElements, NarrowSeq DEF Entry, Path, NormalPath

\* The ancestors of a path are those before it.
LEMMA AncestorsArePrefixes ==
  ASSUME NEW p \in Path, NEW q \in Path, q # <<>>
  PROVE  /\ IsPrefix(q, p) <=> q = p \/ q \in Ancestors(p)
         /\ p \notin Ancestors(p)
<1>1. PICK n \in Nat, m \in Nat : n = Len(q) /\ m = Len(p)
  BY LenProperties DEF Path
<1>2. n # 0
  BY <1>1, EmptySeq DEF Path
<1>3. ASSUME NEW k \in 1..m
      PROVE  /\ SubSeq(p, 1, k) \in Path /\ Len(SubSeq(p, 1, k)) = k
             /\ \A i \in 1..k : SubSeq(p, 1, k)[i] = p[i]
  BY <1>1, SubSeqProperties DEF Path
<1>4. SubSeq(q, 1, n) = q
  BY <1>1, <1>2, SubSeqProperties, SeqEqual DEF Path
<1>5. m # 0 => SubSeq(p, 1, m) = p
  BY <1>1, <1>3, SeqEqual DEF Path
<1>6. IsPrefix(q, p) <=> n <= m /\ q = SubSeq(p, 1, n)
  BY <1>1, <1>4 DEF IsPrefix
<1>7. Ancestors(p) = {SubSeq(p, 1, k) : k \in 1..m - 1}
  BY <1>1 DEF Ancestors
<1>8. ASSUME NEW k \in 1..m - 1 PROVE Len(SubSeq(p, 1, k)) = k /\ k < m /\ k <= m
  BY <1>3
<1>9. p \notin Ancestors(p)
  BY <1>1, <1>7, <1>8
<1>10. IsPrefix(q, p) => q = p \/ q \in Ancestors(p)
  BY <1>2, <1>5, <1>6, <1>7
<1>11. q = p => IsPrefix(q, p)
  BY <1>1, <1>4, <1>6
<1>12. q \in Ancestors(p) => IsPrefix(q, p)
  BY <1>7, <1>1, <1>8, <1>6
<1>. QED  BY <1>9, <1>10, <1>11, <1>12

LEMMA SizeOfType == \A e \in Entry : SizeOf(e) \in Nat
BY DEF SizeOf, Entry

\* The recursion of TotalSize.
Sums(f, s, n) == f[0] = 0 /\ \A k \in 1..n : f[k] = f[k - 1] + SizeOf(s[k])

LEMMA SumsExists ==
  ASSUME NEW s \in Seq(Entry), NEW n \in Nat, HasLen(s, n)
  PROVE  \E f : f \in [0..n -> Nat] /\ Sums(f, s, n)
<1>1. \A t \in Nat, k \in 1..n : t + SizeOf(s[k]) \in Nat
  BY SizeOfType DEF HasLen
<1>2. PICK steps : steps = [k \in 1..n |-> [t \in Nat |-> t + SizeOf(s[k])]]
  OBVIOUS
<1>3. steps \in Steps(Nat, n)
  BY <1>1, <1>2 DEF Steps
<1>4. 0 \in Nat
  OBVIOUS
<1>5. PICK f : f \in [0..n -> Nat] /\ Runs(f, 0, n, steps)
  BY <1>3, <1>4, RecursionExists
<1>6. f[0] = 0
  BY <1>5 DEF Runs
<1>7. ASSUME NEW k \in 1..n PROVE f[k] = f[k - 1] + SizeOf(s[k])
  <2>1. f[k - 1] \in Nat
    BY <1>5
  <2>2. f[k] = steps[k][f[k - 1]]
    BY <1>5 DEF Runs
  <2>. QED  BY <1>2, <2>1, <2>2
<1>8. Sums(f, s, n)
  BY <1>6, <1>7 DEF Sums
<1>. QED  BY <1>5, <1>8

LEMMA TotalSizeIs ==
  ASSUME NEW s \in Seq(Entry), NEW n \in Nat, HasLen(s, n),
         NEW f, f \in [0..n -> Nat], Sums(f, s, n)
  PROVE  TotalSize(s) = f[n]
<1> DEFINE Body(g) == [k \in 0..n |-> IF k = 0 THEN 0 ELSE g[k - 1] + SizeOf(s[k])]
           folded == CHOOSE g : g = Body(g)
<1>1. f = Body(f)
  BY DEF Sums
<1>2. folded = Body(folded)
  <2> HIDE DEF Body
  <2>. QED  BY <1>1
<1>3. TotalSize(s) = folded[n]
  BY Zenon DEF TotalSize, HasLen
<1>4. PICK h : h = Body(h) /\ TotalSize(s) = h[n]
  BY <1>2, <1>3
<1>5. Sums(h, s, n)
  BY <1>4 DEF Sums
<1>6. Alike(f, h, n)
  BY <1>5 DEF Sums, Alike
<1>7. f[n] = h[n]
  BY <1>6, RecursionUnique
<1>. QED  BY <1>4, <1>7

LEMMA TotalSizeAppend ==
  /\ TotalSize(<<>>) = 0
  /\ \A s \in Seq(Entry), e \in Entry, t \in Seq(Entry) :
       Extends(t, s, e) => /\ TotalSize(s) \in Nat
                           /\ TotalSize(t) = TotalSize(s) + SizeOf(e)
<1>1. TotalSize(<<>>) = 0
  <2>1. PICK s \in Seq(Entry), n \in Nat : s = <<>> /\ HasLen(s, n) /\ n = 0
    BY EmptySeq DEF HasLen
  <2>2. PICK f : f \in [0..n -> Nat] /\ Sums(f, s, n)
    BY <2>1, SumsExists
  <2>3. HasLen(s, n)
    BY <2>1
  <2>4. TotalSize(s) = f[n]
    BY <2>2, <2>3, TotalSizeIs
  <2>. QED  BY <2>1, <2>2, <2>4 DEF Sums
<1>2. ASSUME NEW s \in Seq(Entry), NEW e \in Entry, NEW t \in Seq(Entry), Extends(t, s, e)
      PROVE  TotalSize(s) \in Nat /\ TotalSize(t) = TotalSize(s) + SizeOf(e)
  <2>1. PICK n \in Nat : HasLen(s, n)
    BY LenProperties DEF HasLen
  <2>2. PICK m \in Nat : m = n + 1
    OBVIOUS
  <2>3. HasLen(t, m) /\ (\A k \in 1..n : t[k] = s[k]) /\ t[m] = e
    BY <1>2, <2>1, <2>2, AppendProperties DEF Extends, HasLen
  <2>4. PICK f : f \in [0..n -> Nat] /\ Sums(f, s, n)
    BY <2>1, SumsExists
  <2>5. PICK h : h \in [0..m -> Nat] /\ Sums(h, t, m)
    BY <2>3, SumsExists
  <2>6. TotalSize(s) = f[n]
    BY <2>1, <2>4, TotalSizeIs
  <2>7. TotalSize(t) = h[m]
    BY <2>3, <2>5, TotalSizeIs
  <2>8. Alike(f, h, n)
    BY <2>2, <2>3, <2>4, <2>5 DEF Sums, Alike
  <2>9. f[n] = h[n]
    BY <2>8, RecursionUnique
  <2>10. h[m] = h[n] + SizeOf(e)
    BY <2>2, <2>3, <2>5 DEF Sums
  <2>11. f[n] \in Nat
    BY <2>4
  <2>. QED  BY <2>6, <2>7, <2>9, <2>10, <2>11
<1>. QED  BY <1>1, <1>2

\* What the loop holds while nothing is refused.
Accepting ==
  [ok : {TRUE}, files : Seq(ListedFile), dirs : SUBSET Path, implied : SUBSET Path, total : Nat]
Inspection == Accepting \cup {Refused}

Taken(i) == {f.path : f \in ToSet(i.files)}

\* An entry is not refused.
Fits(i, e) ==
  LET path == NormalPath(e) IN
  /\ path # None /\ ~e.special
  /\ path \notin Taken(i) \cup i.dirs /\ Taken(i) \cap Ancestors(path) = {}
  /\ e.kind = "file" => /\ path \notin i.implied \cup Ancestors(path)
                        /\ i.total + SizeOf(e) <= MaxUncompressedBytes

\* What is held then.
WithDirectory(i, e) ==
  [i EXCEPT !.dirs = @ \cup {NormalPath(e)}, !.implied = @ \cup Ancestors(NormalPath(e))]
WithFile(i, e) ==
  [i EXCEPT !.files = Append(@, [path |-> NormalPath(e), entry |-> e]), !.total = @ + SizeOf(e),
            !.implied = @ \cup Ancestors(NormalPath(e))]

LEMMA AdmitIs ==
  ASSUME NEW i \in Inspection, NEW e \in Entry
  PROVE  /\ ~i.ok => Admit(i, e) = i
         /\ i.ok /\ ~Fits(i, e) => Admit(i, e) = Refused
         /\ i.ok /\ Fits(i, e) /\ e.kind = "directory" => Admit(i, e) = WithDirectory(i, e)
         /\ i.ok /\ Fits(i, e) /\ e.kind = "file" => Admit(i, e) = WithFile(i, e)
<1>0. e.size \in Nat /\ MaxUncompressedBytes \in Nat /\ (i.ok => i.total \in Nat)
  <2>1. e.size \in Nat
    BY DEF Entry
  <2>2. MaxUncompressedBytes \in Nat
    BY ArchiveAssumption
  <2>3. i \in Accepting => i.total \in Nat
    BY DEF Accepting
  <2>4. i = Refused => ~i.ok
    BY DEF Refused
  <2>. QED  BY <2>1, <2>2, <2>3, <2>4 DEF Inspection
<1>1. PICK path : path = NormalPath(e)
  OBVIOUS
<1>2. PICK taken : taken = Taken(i)
  OBVIOUS
<1>3. PICK implied : implied = i.implied \cup Ancestors(path)
  OBVIOUS
<1>4. (e.kind = "file" \/ e.kind = "directory") /\ "file" # "directory"
  BY DEF Entry
<1>5. Admit(i, e) =
        CASE ~i.ok -> i
          [] i.ok /\ (path = None \/ e.special) -> Refused
          [] OTHER ->
               CASE path \in taken \cup i.dirs -> Refused
                 [] path \notin taken \cup i.dirs /\ taken \cap Ancestors(path) # {} -> Refused
                 [] path \notin taken \cup i.dirs /\ taken \cap Ancestors(path) = {} ->
                      CASE e.kind = "directory" ->
                             [i EXCEPT !.dirs = @ \cup {path}, !.implied = implied]
                        [] e.kind = "file" /\ (path \in implied \/ i.total + e.size > MaxUncompressedBytes) ->
                             Refused
                        [] OTHER ->
                             [i EXCEPT !.files = Append(@, [path |-> path, entry |-> e]),
                                       !.total = @ + e.size, !.implied = implied]
  BY <1>1, <1>2, <1>3, Zenon DEF Admit, Taken
<1>6. ~i.ok => Admit(i, e) = i
  BY <1>5, Zenon
<1>7. i.ok /\ (path = None \/ e.special) => Admit(i, e) = Refused
  BY <1>5, Zenon
<1>11. ASSUME i.ok, path # None, ~e.special PROVE Admit(i, e) =
               CASE path \in taken \cup i.dirs -> Refused
                 [] path \notin taken \cup i.dirs /\ taken \cap Ancestors(path) # {} -> Refused
                 [] path \notin taken \cup i.dirs /\ taken \cap Ancestors(path) = {} ->
                      CASE e.kind = "directory" ->
                             [i EXCEPT !.dirs = @ \cup {path}, !.implied = implied]
                        [] e.kind = "file" /\ (path \in implied \/ i.total + e.size > MaxUncompressedBytes) ->
                             Refused
                        [] OTHER ->
                             [i EXCEPT !.files = Append(@, [path |-> path, entry |-> e]),
                                       !.total = @ + e.size, !.implied = implied]
  BY <1>5, <1>11, Zenon
<1>12. ASSUME i.ok, path # None, ~e.special, path \notin taken \cup i.dirs, taken \cap Ancestors(path) = {}
       PROVE Admit(i, e) =
                      CASE e.kind = "directory" ->
                             [i EXCEPT !.dirs = @ \cup {path}, !.implied = implied]
                        [] e.kind = "file" /\ (path \in implied \/ i.total + e.size > MaxUncompressedBytes) ->
                             Refused
                        [] OTHER ->
                             [i EXCEPT !.files = Append(@, [path |-> path, entry |-> e]),
                                       !.total = @ + e.size, !.implied = implied]
  BY <1>11, <1>12, Zenon
<1>13. ASSUME i.ok, ~Fits(i, e) PROVE Admit(i, e) = Refused
  BY <1>7, <1>13, <1>11, <1>1, <1>2, <1>3, <1>4, <1>0, <1>12 DEF Fits, SizeOf
<1>14. ASSUME i.ok, Fits(i, e)
       PROVE  /\ path # None /\ ~e.special /\ path \notin taken \cup i.dirs /\ taken \cap Ancestors(path) = {}
              /\ e.kind = "file" => path \notin implied /\ i.total + SizeOf(e) <= MaxUncompressedBytes
  BY <1>1, <1>2, <1>3, <1>14, Zenon DEF Fits
<1>15. ASSUME i.ok, Fits(i, e), e.kind = "directory" PROVE Admit(i, e) = WithDirectory(i, e)
  BY <1>12, <1>14, <1>15, <1>1, <1>3 DEF WithDirectory
<1>16. ASSUME i.ok, Fits(i, e), e.kind = "file" PROVE Admit(i, e) = WithFile(i, e)
  BY <1>16, <1>14, <1>0, <1>4, <1>12, <1>1, <1>3 DEF SizeOf, WithFile
<1>. QED  BY <1>6, <1>13, <1>15, <1>16

LEMMA PathsOf ==
  ASSUME NEW i \in Accepting, NEW e \in Entry, NormalPath(e) # None
  PROVE  /\ Ancestors(NormalPath(e)) \subseteq Path
         /\ Taken(i) \subseteq Path
<1>1. PICK p \in Path, n \in Nat : p = NormalPath(e) /\ n = Len(p)
  BY NormalPathType, LenProperties DEF Path
<1>2. ASSUME NEW k \in 1..n - 1 PROVE SubSeq(p, 1, k) \in Path
  BY <1>1, PieceElements DEF Path
<1>3. ToSet(i.files) \subseteq ListedFile
  BY ToSetIs DEF Accepting
<1>. QED  BY <1>1, <1>2, <1>3 DEF Ancestors, Taken, ListedFile

LEMMA AcceptedType ==
  ASSUME NEW i \in Accepting, NEW e \in Entry, NormalPath(e) # None
  PROVE  WithDirectory(i, e) \in Accepting /\ WithFile(i, e) \in Accepting
<1>1. PICK p \in Path, ancestors \in SUBSET Path : p = NormalPath(e) /\ ancestors = Ancestors(p)
  BY NormalPathType, PathsOf
<1>2. PICK f \in ListedFile : f = [path |-> p, entry |-> e]
  BY DEF ListedFile
<1>3. SizeOf(e) \in Nat
  BY SizeOfType
<1>4. PICK files \in Seq(ListedFile) : files = Append(i.files, f)
  BY AppendProperties DEF Accepting
<1>5. WithDirectory(i, e) = [i EXCEPT !.dirs = @ \cup {p}, !.implied = @ \cup ancestors]
  BY <1>1 DEF WithDirectory
<1>6. WithFile(i, e) = [i EXCEPT !.files = files, !.total = @ + SizeOf(e), !.implied = @ \cup ancestors]
  BY <1>1, <1>2, <1>4 DEF WithFile
<1>7. WithDirectory(i, e) \in Accepting
  BY <1>5 DEF Accepting
<1>8. i.total + SizeOf(e) \in Nat /\ i.implied \cup ancestors \in SUBSET Path
  BY <1>3 DEF Accepting
<1>9. WithFile(i, e) \in Accepting
  BY <1>8, <1>6 DEF Accepting
<1>. QED  BY <1>7, <1>9

LEMMA AdmitType == \A i \in Inspection, e \in Entry : Admit(i, e) \in Inspection
BY AdmitIs, AcceptedType DEF Refused, Inspection, Fits, Entry

LEMMA NoneYetType == NoneYet \in Inspection
BY EmptySeq DEF NoneYet, Inspection, Accepting

\* The recursion of Admitted.
Admits(f, s, n) == f[0] = NoneYet /\ \A k \in 1..n : f[k] = Admit(f[k - 1], s[k])

LEMMA AdmitsExists ==
  ASSUME NEW s \in Seq(Entry), NEW n \in Nat, HasLen(s, n)
  PROVE  \E f : f \in [0..n -> Inspection] /\ Admits(f, s, n)
<1>1. \A t \in Inspection, k \in 1..n : Admit(t, s[k]) \in Inspection
  BY AdmitType DEF HasLen
<1>2. PICK steps : steps = [k \in 1..n |-> [t \in Inspection |-> Admit(t, s[k])]]
  OBVIOUS
<1>3. steps \in Steps(Inspection, n)
  BY <1>1, <1>2 DEF Steps
<1>4. NoneYet \in Inspection
  BY NoneYetType
<1>5. PICK f : f \in [0..n -> Inspection] /\ Runs(f, NoneYet, n, steps)
  BY <1>3, <1>4, RecursionExists
<1>6. f[0] = NoneYet
  BY <1>5 DEF Runs
<1>7. ASSUME NEW k \in 1..n PROVE f[k] = Admit(f[k - 1], s[k])
  BY <1>5, <1>2 DEF Runs
<1>8. Admits(f, s, n)
  BY <1>6, <1>7 DEF Admits
<1>. QED  BY <1>5, <1>8

LEMMA AdmittedIs ==
  ASSUME NEW s \in Seq(Entry), NEW n \in Nat, HasLen(s, n),
         NEW f, f \in [0..n -> Inspection], Admits(f, s, n)
  PROVE  Admitted(s) = f[n]
<1> DEFINE Body(g) == [k \in 0..n |-> IF k = 0 THEN NoneYet ELSE Admit(g[k - 1], s[k])]
           folded == CHOOSE g : g = Body(g)
<1>1. f = Body(f)
  BY DEF Admits
<1>2. folded = Body(folded)
  <2> HIDE DEF Body
  <2>. QED  BY <1>1
<1>3. Admitted(s) = folded[n]
  BY Zenon DEF Admitted, HasLen
<1>4. PICK h : h = Body(h) /\ Admitted(s) = h[n]
  BY <1>2, <1>3
<1>5. Admits(h, s, n)
  BY <1>4 DEF Admits
<1>6. Alike(f, h, n)
  BY <1>5 DEF Admits, Alike
<1>7. f[n] = h[n]
  BY <1>6, RecursionUnique
<1>. QED  BY <1>4, <1>7

LEMMA AdmittedAppend ==
  /\ Admitted(<<>>) = NoneYet
  /\ \A s \in Seq(Entry), e \in Entry, t \in Seq(Entry) :
       Extends(t, s, e) => /\ Admitted(s) \in Inspection
                           /\ Admitted(t) = Admit(Admitted(s), e)
<1>1. Admitted(<<>>) = NoneYet
  <2>1. PICK s \in Seq(Entry), n \in Nat : s = <<>> /\ HasLen(s, n) /\ n = 0
    BY EmptySeq DEF HasLen
  <2>2. PICK f : f \in [0..n -> Inspection] /\ Admits(f, s, n)
    BY <2>1, AdmitsExists
  <2>3. HasLen(s, n)
    BY <2>1
  <2>4. Admitted(s) = f[n]
    BY <2>2, <2>3, AdmittedIs
  <2>. QED  BY <2>1, <2>2, <2>4 DEF Admits
<1>2. ASSUME NEW s \in Seq(Entry), NEW e \in Entry, NEW t \in Seq(Entry), Extends(t, s, e)
      PROVE  Admitted(s) \in Inspection /\ Admitted(t) = Admit(Admitted(s), e)
  <2>1. PICK n \in Nat : HasLen(s, n)
    BY LenProperties DEF HasLen
  <2>2. PICK m \in Nat : m = n + 1
    OBVIOUS
  <2>3. HasLen(t, m) /\ (\A k \in 1..n : t[k] = s[k]) /\ t[m] = e
    BY <1>2, <2>1, <2>2, AppendProperties DEF Extends, HasLen
  <2>4. PICK f : f \in [0..n -> Inspection] /\ Admits(f, s, n)
    BY <2>1, AdmitsExists
  <2>5. PICK h : h \in [0..m -> Inspection] /\ Admits(h, t, m)
    BY <2>3, AdmitsExists
  <2>6. Admitted(s) = f[n]
    BY <2>1, <2>4, AdmittedIs
  <2>7. Admitted(t) = h[m]
    BY <2>3, <2>5, AdmittedIs
  <2>8. Alike(f, h, n)
    BY <2>2, <2>3, <2>4, <2>5 DEF Admits, Alike
  <2>9. f[n] = h[n]
    BY <2>8, RecursionUnique
  <2>10. h[m] = Admit(h[n], e)
    BY <2>2, <2>3, <2>5 DEF Admits
  <2>11. f[n] \in Inspection
    BY <2>4
  <2>. QED  BY <2>6, <2>7, <2>9, <2>10, <2>11
<1>. QED  BY <1>1, <1>2

\* A tree of files, whatever the number of entries.
Tree(s) ==
  /\ \A k \in DOMAIN s : NormalPath(s[k]) # None /\ ~s[k].special
  /\ \A k, l \in DOMAIN s : NormalPath(s[k]) = NormalPath(s[l]) => k = l
  /\ \A k, l \in DOMAIN s : s[k].kind = "file" /\ k # l => ~IsPrefix(NormalPath(s[k]), NormalPath(s[l]))
  /\ TotalSize(s) <= MaxUncompressedBytes

\* What the loop holds is what it has seen.
Reflects(i, s) ==
  /\ i \in Accepting
  /\ Taken(i) = {NormalPath(s[k]) : k \in {k \in DOMAIN s : s[k].kind = "file"}}
  /\ i.dirs = {NormalPath(s[k]) : k \in {k \in DOMAIN s : s[k].kind = "directory"}}
  /\ i.implied = UNION {Ancestors(NormalPath(s[k])) : k \in DOMAIN s}
  /\ i.total = TotalSize(s)

\* The places of a sequence and of one with an element more.
Longer(t, s, e, n, m) ==
  /\ n \in Nat /\ m \in Nat /\ m = n + 1
  /\ DOMAIN s = 1..n /\ DOMAIN t = 1..m
  /\ \A k \in 1..n : t[k] = s[k]
  /\ t[m] = e

LEMMA PlacesOf ==
  ASSUME NEW X, NEW s \in Seq(X), NEW e \in X, NEW t \in Seq(X), Extends(t, s, e)
  PROVE  \E n, m : Longer(t, s, e, n, m)
<1>1. PICK n \in Nat, m \in Nat : n = Len(s) /\ m = n + 1
  BY LenProperties
<1>2. Len(t) = m /\ (\A k \in 1..n : t[k] = s[k]) /\ t[m] = e
  BY <1>1, AppendProperties DEF Extends
<1>3. DOMAIN s = 1..n /\ DOMAIN t = 1..m
  BY <1>1, <1>2, LenProperties
<1>4. Longer(t, s, e, n, m)
  BY <1>1, <1>2, <1>3 DEF Longer
<1>. QED  BY <1>4

LEMMA TreeGrows ==
  ASSUME NEW s \in Seq(Entry), NEW e \in Entry, NEW t \in Seq(Entry), Extends(t, s, e), Tree(t)
  PROVE  Tree(s)
<1>1. PICK n, m : Longer(t, s, e, n, m)
  BY PlacesOf
<1>2. (\A k \in DOMAIN s : k \in DOMAIN t) /\ \A k \in DOMAIN s : t[k] = s[k]
  BY <1>1 DEF Longer
<1>3. TotalSize(s) <= MaxUncompressedBytes
  BY TotalSizeAppend, SizeOfType, ArchiveAssumption DEF Tree
<1>. QED  BY <1>2, <1>3 DEF Tree

\* An entry is let in exactly if there still is a tree with it.
LEMMA FitsIfTree ==
  ASSUME NEW s \in Seq(Entry), NEW e \in Entry, NEW t \in Seq(Entry), Extends(t, s, e),
         NEW i, Reflects(i, s), Tree(t)
  PROVE  Fits(i, e)
<1>1. PICK n, m : Longer(t, s, e, n, m)
  BY PlacesOf
<1>2. m \in DOMAIN t /\ t[m] = e /\ (\A k \in DOMAIN s : k \in DOMAIN t /\ k # m /\ t[k] = s[k])
  BY <1>1 DEF Longer
<1>3. PICK p : p = NormalPath(e)
  OBVIOUS
<1>4. p # None /\ ~e.special
  BY <1>2, <1>3 DEF Tree
<1>5. p \in Path /\ p # <<>>
  BY <1>3, <1>4, NormalPathType
<1>6. \A k \in DOMAIN s : s[k] \in Entry /\ NormalPath(s[k]) # p
  BY <1>2, <1>3 DEF Tree
<1>7. \A k \in DOMAIN s : NormalPath(s[k]) \in Path /\ NormalPath(s[k]) # <<>>
  BY <1>2, <1>6, NormalPathType DEF Tree
<1>8. p \notin Taken(i) \cup i.dirs
  BY <1>6 DEF Reflects
<1>9. Taken(i) \cap Ancestors(p) = {}
  BY <1>5, <1>7, <1>2, <1>3, AncestorsArePrefixes DEF Reflects, Tree
<1>10. ASSUME e.kind = "file" PROVE p \notin i.implied \cup Ancestors(p)
  BY <1>5, <1>7, <1>2, <1>3, <1>10, AncestorsArePrefixes DEF Tree, Reflects
<1>11. i.total + SizeOf(e) <= MaxUncompressedBytes
  BY TotalSizeAppend DEF Reflects, Tree
<1>. QED  BY <1>3, <1>4, <1>8, <1>9, <1>10, <1>11, Zenon DEF Fits

LEMMA TreeIfFits ==
  ASSUME NEW s \in Seq(Entry), NEW e \in Entry, NEW t \in Seq(Entry), Extends(t, s, e), Tree(s),
         NEW i, Reflects(i, s), Fits(i, e)
  PROVE  Tree(t)
<1>1. PICK n, m : Longer(t, s, e, n, m)
  BY PlacesOf
<1>2. m \in DOMAIN t /\ t[m] = e /\ (\A k \in DOMAIN t : k = m \/ (k \in DOMAIN s /\ k # m /\ t[k] = s[k]))
  BY <1>1 DEF Longer
<1>3. PICK p : p = NormalPath(e)
  OBVIOUS
<1>4. /\ p # None /\ ~e.special /\ p \notin Taken(i) \cup i.dirs /\ Taken(i) \cap Ancestors(p) = {}
      /\ e.kind = "file" => p \notin i.implied \cup Ancestors(p)
                            /\ i.total + SizeOf(e) <= MaxUncompressedBytes
  BY <1>3, Zenon DEF Fits
<1>5. p \in Path /\ p # <<>>
  BY <1>3, <1>4, NormalPathType
<1>6. ASSUME NEW k \in DOMAIN s
      PROVE  /\ NormalPath(s[k]) \in Path /\ NormalPath(s[k]) # <<>> /\ NormalPath(s[k]) # None
             /\ s[k].kind = "file" => NormalPath(s[k]) \in Taken(i)
             /\ s[k].kind = "directory" => NormalPath(s[k]) \in i.dirs
             /\ Ancestors(NormalPath(s[k])) \subseteq i.implied
             /\ NormalPath(s[k]) # p
  <2>1. s[k] \in Entry /\ NormalPath(s[k]) # None
    BY DEF Tree
  <2>2. NormalPath(s[k]) \in Path /\ NormalPath(s[k]) # <<>>
    BY <2>1, NormalPathType
  <2>3. s[k].kind \in {"file", "directory"}
    BY <2>1 DEF Entry
  <2>4. /\ s[k].kind = "file" => NormalPath(s[k]) \in Taken(i)
        /\ s[k].kind = "directory" => NormalPath(s[k]) \in i.dirs
        /\ Ancestors(NormalPath(s[k])) \subseteq i.implied
    BY DEF Reflects
  <2>. QED  BY <1>4, <2>1, <2>2, <2>3, <2>4
<1>7. \A k \in DOMAIN t : NormalPath(t[k]) # None /\ ~t[k].special
  BY <1>2, <1>3, <1>4 DEF Tree
<1>8. \A k, l \in DOMAIN t : NormalPath(t[k]) = NormalPath(t[l]) => k = l
  BY <1>2, <1>3, <1>6 DEF Tree
<1>9. ASSUME NEW k \in DOMAIN t, NEW l \in DOMAIN t, t[k].kind = "file", k # l
      PROVE  ~IsPrefix(NormalPath(t[k]), NormalPath(t[l]))
  BY <1>2, <1>9, <1>4, <1>6, <1>3, <1>5, AncestorsArePrefixes DEF Tree
<1>10. TotalSize(t) <= MaxUncompressedBytes
  BY <1>4, TotalSizeAppend DEF Reflects, SizeOf, Tree
<1>. QED  BY <1>7, <1>8, <1>9, <1>10 DEF Tree

LEMMA ReflectsAfter ==
  ASSUME NEW s \in Seq(Entry), NEW e \in Entry, NEW t \in Seq(Entry), Extends(t, s, e),
         NEW i, Reflects(i, s), Fits(i, e)
  PROVE  Reflects(Admit(i, e), t)
<1>1. PICK n, m : Longer(t, s, e, n, m)
  BY PlacesOf
<1>2. m \in DOMAIN t /\ m \notin DOMAIN s /\ t[m] = e /\ DOMAIN t = DOMAIN s \cup {m}
      /\ \A k \in DOMAIN s : t[k] = s[k]
  BY <1>1 DEF Longer
<1>3. PICK p : p = NormalPath(e) /\ p # None
  BY DEF Fits
<1>4. i \in Accepting /\ i.ok /\ i \in Inspection
  BY DEF Reflects, Accepting, Inspection
<1>5. PICK j : j = Admit(i, e)
  OBVIOUS
<1>6. {k \in DOMAIN t : t[k].kind = "file"} =
        {k \in DOMAIN s : s[k].kind = "file"} \cup (IF e.kind = "file" THEN {m} ELSE {})
  BY <1>2
<1>7. {k \in DOMAIN t : t[k].kind = "directory"} =
        {k \in DOMAIN s : s[k].kind = "directory"} \cup (IF e.kind = "directory" THEN {m} ELSE {})
  BY <1>2
<1>8. PICK K \in SUBSET DOMAIN s : K = {k \in DOMAIN s : s[k].kind = "file"}
  OBVIOUS
<1>9. PICK D \in SUBSET DOMAIN s : D = {k \in DOMAIN s : s[k].kind = "directory"}
  OBVIOUS
<1>10. ASSUME NEW S \in SUBSET DOMAIN s
       PROVE  /\ {NormalPath(t[k]) : k \in S} = {NormalPath(s[k]) : k \in S}
              /\ {NormalPath(t[k]) : k \in S \cup {m}} = {NormalPath(s[k]) : k \in S} \cup {p}
  BY <1>2, <1>3
<1>11. UNION {Ancestors(NormalPath(t[k])) : k \in DOMAIN t} =
         (UNION {Ancestors(NormalPath(s[k])) : k \in DOMAIN s}) \cup Ancestors(p)
  BY <1>2, <1>3
<1>12. TotalSize(s) \in Nat /\ TotalSize(t) = TotalSize(s) + SizeOf(e)
  BY TotalSizeAppend
<1>13. j.implied = i.implied \cup Ancestors(p) => j.implied = UNION {Ancestors(NormalPath(t[k])) : k \in DOMAIN t}
  BY <1>11 DEF Reflects
<1>14. CASE e.kind = "directory"
  <2>1. j = WithDirectory(i, e) /\ j \in Accepting
    BY <1>3, <1>4, <1>5, <1>14, AdmitIs, AcceptedType
  <2>2. j.files = i.files /\ j.dirs = i.dirs \cup {p} /\ j.implied = i.implied \cup Ancestors(p) /\ j.total = i.total
    BY <1>3, <1>4, <2>1 DEF WithDirectory, Accepting
  <2>3. SizeOf(e) = 0
    BY <1>14 DEF SizeOf
  <2>4. j.total = TotalSize(t)
    BY <1>12, <2>2, <2>3 DEF Reflects
  <2>5. Taken(j) = {NormalPath(t[k]) : k \in {k \in DOMAIN t : t[k].kind = "file"}}
    BY <2>2, <1>6, <1>8, <1>14, <1>10 DEF Taken, Reflects
  <2>6. j.dirs = {NormalPath(t[k]) : k \in {k \in DOMAIN t : t[k].kind = "directory"}}
    BY <1>7, <1>9, <1>14, <1>10, <2>2 DEF Reflects
  <2>. QED  BY <1>5, <1>13, <2>1, <2>2, <2>4, <2>5, <2>6 DEF Reflects
<1>15. CASE e.kind = "file"
  <2>1. j = WithFile(i, e) /\ j \in Accepting
    BY <1>3, <1>4, <1>5, <1>15, AdmitIs, AcceptedType
  <2>2. PICK f : f = [path |-> p, entry |-> e]
    OBVIOUS
  <2>3. j.files = Append(i.files, f) /\ j.dirs = i.dirs /\ j.implied = i.implied \cup Ancestors(p)
        /\ j.total = i.total + SizeOf(e)
    BY <1>3, <1>4, <2>1, <2>2 DEF WithFile, Accepting
  <2>4. j.total = TotalSize(t)
    BY <1>12, <2>3 DEF Reflects
  <2>5. Taken(j) = {NormalPath(t[k]) : k \in {k \in DOMAIN t : t[k].kind = "file"}}
    <3>1. f \in ListedFile
      BY <1>3, <2>2, NormalPathType DEF ListedFile
    <3>2. i.files \in Seq(ListedFile) /\ j.files \in Seq(ListedFile) /\ Extends(j.files, i.files, f)
      BY <1>4, <2>1, <2>3 DEF Accepting, Extends
    <3>3. ToSet(j.files) = ToSet(i.files) \cup {f}
      BY <3>1, <3>2, ToSetAppend
    <3>4. Taken(j) = Taken(i) \cup {p}
      BY <2>2, <3>3 DEF Taken
    <3>5. {k \in DOMAIN t : t[k].kind = "file"} = K \cup {m}
      BY <1>6, <1>8, <1>15
    <3>6. Taken(i) = {NormalPath(s[k]) : k \in K}
      BY <1>8 DEF Reflects
    <3>. QED  BY <1>10, <3>4, <3>5, <3>6
  <2>6. j.dirs = {NormalPath(t[k]) : k \in {k \in DOMAIN t : t[k].kind = "directory"}}
    BY <1>7, <1>9, <1>15, <1>10, <2>3 DEF Reflects
  <2>. QED  BY <1>5, <1>13, <2>1, <2>3, <2>4, <2>5, <2>6 DEF Reflects
<1>. QED  BY <1>14, <1>15 DEF Entry

\* The loop holds what it has seen, or has refused what is no tree.
Inspects(s) ==
  /\ Tree(s) => Reflects(Admitted(s), s)
  /\ ~Tree(s) => Admitted(s) \in Inspection /\ ~Admitted(s).ok

\* Whatever the entries and their order.
LEMMA EntriesInspected == \A s \in Seq(Entry) : Inspects(s)
<1> DEFINE T == {u \in Seq(Entry) : Inspects(u)}
<1>1. <<>> \in T
  <2>1. PICK u \in Seq(Entry) : u = <<>> /\ DOMAIN u = {}
    <3>1. <<>> \in Seq(Entry) /\ DOMAIN <<>> = {}
      OBVIOUS
    <3>. QED  BY <3>1, Zenon
  <2>2. TotalSize(u) = 0 /\ Admitted(u) = NoneYet
    BY <2>1, TotalSizeAppend, AdmittedAppend
  <2>3. Tree(u)
    BY <2>1, <2>2, ArchiveAssumption DEF Tree
  <2>4. NoneYet \in Accepting
    BY NoneYetType DEF NoneYet, Refused, Inspection
  <2>5. Taken(NoneYet) = {}
    BY ToSetAppend DEF NoneYet, Taken
  <2>6. Reflects(NoneYet, u)
    BY <2>1, <2>2, <2>4, <2>5 DEF Reflects, NoneYet
  <2>. QED  BY <2>1, <2>2, <2>3, <2>6 DEF Inspects
<1>2. \A u \in Seq(Entry), e \in Entry, t \in Seq(Entry) : u \in T /\ Extends(t, u, e) => t \in T
  <2> SUFFICES ASSUME NEW u \in Seq(Entry), NEW e \in Entry, NEW t \in Seq(Entry), Inspects(u), Extends(t, u, e)
               PROVE  Inspects(t)
    OBVIOUS
  <2>1. PICK i \in Inspection : i = Admitted(u) /\ Admitted(t) = Admit(i, e)
    BY AdmittedAppend
  <2>2. Admit(i, e) \in Inspection
    BY AdmitType
  <2>3. CASE ~Tree(u)
    BY <2>3, <2>1, TreeGrows, AdmitIs DEF Inspects
  <2>4. CASE Tree(u) /\ Fits(i, e)
    BY <2>1, <2>4, TreeIfFits, ReflectsAfter DEF Inspects
  <2>5. CASE Tree(u) /\ ~Fits(i, e)
    <3>1. Reflects(i, u) /\ i.ok
      BY <2>1, <2>5 DEF Inspects, Reflects, Accepting
    <3>2. ~Tree(t)
      BY <2>5, <3>1, FitsIfTree
    <3>3. Admit(i, e) = Refused
      BY <2>5, <3>1, AdmitIs
    <3>4. ~Refused.ok
      BY DEF Refused
    <3>. QED  BY <2>1, <2>2, <3>2, <3>3, <3>4 DEF Inspects
  <2>. QED  BY <2>3, <2>4, <2>5
<1>3. Seq(Entry) \subseteq T
  <2> HIDE DEF T
  <2>. QED  BY <1>1, <1>2, SeqSetInduction
<1>. QED  BY <1>3

LEMMA InspectedIsTree ==
  ASSUME NEW s \in Seq(Entry)
  PROVE  /\ Inspected(s) # None <=> IsFileTree(s)
         /\ Inspected(s) # None =>
              /\ Inspected(s) \in Seq(ListedFile)
              /\ \A f \in ToSet(Inspected(s)) : \E e \in ToSet(s) : e.kind = "file" /\ NormalPath(e) = f.path
<1>1. PICK n \in Nat : n = Len(s) /\ DOMAIN s = 1..n
  BY LenProperties
<1>2. IsFileTree(s) <=> n <= MaxEntries /\ Tree(s)
  BY <1>1, Zenon DEF IsFileTree, Tree
<1>3. PICK i \in Inspection : i = Admitted(s) /\ (Tree(s) => Reflects(i, s)) /\ (~Tree(s) => ~i.ok)
  BY EntriesInspected DEF Inspects, Reflects, Inspection
<1>4. i.ok <=> Tree(s)
  BY <1>3 DEF Reflects, Accepting
<1>5. PICK earlier : earlier = {p \in ToSet(i.files) \X ToSet(i.files) : PathBefore(p[1].path, p[2].path)}
  OBVIOUS
<1>6. Inspected(s) = IF n > MaxEntries \/ ~i.ok THEN None ELSE Sorted(i.files, earlier)
  BY <1>1, <1>3, <1>5, Zenon DEF Inspected
<1>7. MaxEntries \in Nat /\ None \notin Seq(ListedFile)
  BY ArchiveAssumption
<1>8. CASE ~(n <= MaxEntries /\ Tree(s))
  BY <1>4, <1>7, <1>8, <1>6, <1>2
<1>9. CASE n <= MaxEntries /\ Tree(s)
  <2>1. ~(n > MaxEntries \/ ~i.ok)
    BY <1>4, <1>7, <1>9
  <2>2. Inspected(s) = Sorted(i.files, earlier)
    BY <1>6, <2>1
  <2>3. Reflects(i, s)
    BY <1>3, <1>9
  <2>4. i.files \in Seq(ListedFile)
    BY <2>3 DEF Reflects, Accepting
  <2>5. Inspected(s) \in Seq(ListedFile) /\ ToSet(Inspected(s)) = ToSet(i.files)
    BY <2>2, <2>4, SortedElements
  <2>6. Inspected(s) # None
    BY <1>7, <2>5
  <2>7. ASSUME NEW f \in ToSet(Inspected(s)) PROVE \E e \in ToSet(s) : e.kind = "file" /\ NormalPath(e) = f.path
    <3>1. f.path \in Taken(i)
      BY <2>5 DEF Taken
    <3>2. PICK k \in DOMAIN s : s[k].kind = "file" /\ NormalPath(s[k]) = f.path
      BY <2>3, <3>1 DEF Reflects
    <3>3. s[k] \in ToSet(s)
      BY <1>1, ToSetIs
    <3>. QED  BY <3>2, <3>3
  <2>. QED  BY <1>2, <1>9, <2>5, <2>6, <2>7
<1>. QED  BY <1>8, <1>9

\* The files that are listed are of the archive.
FilesListed ==
  pc = "delivered" /\ call.tool = "archive_files" =>
    \A p \in ToSet(result.files) :
      \E e \in ToSet(scenario.entries) : e.kind = "file" /\ NormalPath(e) = p

LEMMA ListFilesListed ==
  ASSUME RequestOfTool, call.tool = "archive_files", UNCHANGED scenario,
         NEW files, files = Inspected(scenario.entries), files # None, ListFiles(files)
  PROVE  FilesListed'
<1>1. scenario.entries \in Seq(Entry)
  BY ArchiveAssumption DEF RequestOfTool
<1>2. files \in Seq(ListedFile)
      /\ \A f \in ToSet(files) : \E e \in ToSet(scenario.entries) : e.kind = "file" /\ NormalPath(e) = f.path
  BY <1>1, InspectedIsTree
<1>3. call.page \in Nat \ {0} /\ call.perPage \in Nat \ {0} /\ HardFilesPerPage \in Nat \ {0}
  BY ArchiveAssumption DEF RequestOfTool, call
<1>4. PICK per \in Nat \ {0} : per = PerPage(call.perPage, HardFilesPerPage)
  BY <1>3, MinIs DEF PerPage
<1>5. PICK n \in Nat : n = Len(files)
  BY <1>2, LenProperties
<1>6. PICK first \in Int : first = (call.page - 1) * per + 1 /\ 1 <= first
  BY <1>3
<1>7. PICK last \in Int : last = Min({first + per - 1, Len(files)}) /\ last <= Len(files)
  BY <1>5, MinIs
<1>8. PICK selected : selected = SubSeq(files, first, last)
  OBVIOUS
<1>9. selected \in Seq(ListedFile) /\ ToSet(selected) \subseteq ToSet(files)
  BY <1>2, <1>6, <1>7, <1>8, PieceElements
<1>10. result'.files = [k \in DOMAIN selected |-> selected[k].path]
  BY <1>4, <1>6, <1>7, <1>8 DEF ListFiles, Deliver, Returns
<1>11. ASSUME NEW p \in ToSet(result'.files) PROVE \E f \in ToSet(files) : p = f.path
  BY <1>10, <1>11, <1>9 DEF ToSet
<1>12. scenario' = scenario
  OBVIOUS
<1>. QED  BY <1>2, <1>11, <1>12 DEF FilesListed

LEMMA FilesListedInvariant == Spec => []FilesListed
<1>1. Init => FilesListed
  BY ToolAssumption DEF Init, ReadInit, call, FirstRequest, FilesListed
<1>2. RequestOfTool /\ FilesListed /\ [Next]_vars => FilesListed'
  <2> SUFFICES ASSUME RequestOfTool, FilesListed, [Next]_vars PROVE FilesListed'
    OBVIOUS
  <2>1. ASSUME call' = call, call.tool # "archive_files" PROVE FilesListed'
    BY <2>1 DEF FilesListed
  <2>2. ASSUME UNCHANGED <<scenario, pc, result>> PROVE FilesListed'
    BY <2>2 DEF FilesListed, call
  <2>3. ASSUME pc' # "delivered" PROVE FilesListed'
    BY <2>3 DEF FilesListed
  <2>4. CASE ArchiveStep
    <3>1. ArchiveNext /\ scenario' = scenario /\ call' = call
      BY <2>4 DEF ArchiveStep, othersOfArchive, call
    <3>2. CASE ReadArtifact \/ EndDownload
      BY <2>3, <3>2 DEF ReadArtifact, EndDownload, Raise, Raises, Goto, Then
    <3>3. CASE Download
      BY <3>3, <2>3 DEF Download, Raise, Raises, callVars
    <3>4. CASE InspectArchive
      BY <2>1, <3>1, <3>4, <2>3, ListFilesListed DEF InspectArchive, Raise, Raises
    <3>. QED  BY <3>1, <3>2, <3>3, <3>4 DEF ArchiveNext
  <2>5. CASE LogStep \/ RunListStep \/ WatchStep \/ WholeStep \/ PullStep \/ ExactStep
    <3>1. call' = call
      BY <2>5 DEF LogStep, othersOfLog, RunListStep, othersOfRunList, WatchStep, othersOfWatch, WholeStep,
         othersOfWhole, PullStep, othersOfPull, ExactStep, othersOfExact, call
    <3>2. call.tool # "archive_files"
      BY <2>5 DEF LogStep, RunListStep, WatchStep, WholeStep, PullStep, ExactStep, LogTools, RunListTools,
         WholeTools, PullTools, ExactTools
    <3>. QED  BY <2>1, <3>1, <3>2
  <2>6. CASE FailStep
    BY <2>3, <2>6 DEF FailStep, RequestFails, Raises
  <2>7. CASE RunMoves
    BY <2>2, <2>7 DEF RunMoves, GitHub, JobAppears, JobCompletes, AttemptCompletes, Rerun, RunChange, Change, replyVars
  <2>8. CASE ItemMoves
    BY <2>2, <2>8 DEF ItemMoves, ListGitHub, ItemAppears, ItemDeleted, Change, replyVars
  <2>9. CASE SnapshotMoves
    BY <2>2, <2>9 DEF SnapshotMoves, PullGitHub, PullMoves, Change, replyVars
  <2>10. CASE RepositoryMoves
    BY <2>2, <2>10 DEF RepositoryMoves, ExactGitHub, AccessChanges, Pushed, RefDeleted, Change, replyVars
  <2>11. CASE UNCHANGED vars
    BY <2>2, <2>11 DEF vars, replyVars
  <2>. QED  BY <2>4, <2>5, <2>6, <2>7, <2>8, <2>9, <2>10, <2>11, StepByTool
<1>. QED  BY <1>1, <1>2, RequestOfToolInvariant, PTL DEF Spec

\* The archive that gh_list_artifact_files and gh_read_artifact_file inspect is all that
\* GitHub sent behind the headers, however the answer was cut into chunks; it is
\* accepted exactly if it is a tree of files, whatever the order of its entries; and
\* the files that are listed are of it.
THEOREM ArchiveIsTreeInvariant == Spec => []ArchiveIsTree
<1>1. RequestOfTool /\ ArchiveSound /\ FilesListed => ArchiveIsTree
  BY ConcatEmptySeq, ArchiveAssumption, InspectedIsTree DEF ArchiveSound, Downloaded, RequestOfTool,
     ArchiveIsTree, FilesListed
<1>. QED  BY <1>1, RequestOfToolInvariant, ArchiveSoundInvariant, FilesListedInvariant, PTL

-----------------------------------------------------------------------------
(* The selection of a log: markers. *)

\* The marker is in the text, from place k.
Occurs(text, m, k) ==
  k \in 1..(Len(text) + 1 - Len(m)) /\ \A i \in 1..Len(m) : text[k + i - 1] = m[i]

\* Where it first is, or 0.
First(text, m, f) ==
  \/ f = 0 /\ \A k \in Nat : ~Occurs(text, m, k)
  \/ f \in Nat \ {0} /\ Occurs(text, m, f) /\ \A k \in Nat : Occurs(text, m, k) => f <= k

LEMMA PieceIs ==
  ASSUME NEW X, NEW text \in Seq(X), NEW m \in Seq(X), NEW k \in Nat \ {0}, k + Len(m) - 1 <= Len(text)
  PROVE  SubSeq(text, k, k + Len(m) - 1) = m <=> \A i \in 1..Len(m) : text[k + i - 1] = m[i]
<1>1. PICK n \in Nat, l \in Nat : n = Len(text) /\ l = Len(m)
  BY LenProperties
<1>2. PICK lo \in Nat, hi \in Int : k = lo + 1 /\ hi = k + l - 1 /\ hi <= n
  <2>1. k - 1 \in Nat /\ k = (k - 1) + 1 /\ k + l - 1 \in Int
    OBVIOUS
  <2>. QED  BY <1>1, <2>1
<1>3. /\ SubSeq(text, lo + 1, hi) \in Seq(X)
      /\ Len(SubSeq(text, lo + 1, hi)) = (IF lo < hi THEN hi - lo ELSE 0)
      /\ \A i \in 1..(hi - lo) : SubSeq(text, lo + 1, hi)[i] = text[lo + i]
  BY <1>1, <1>2, Slice
<1>4. PICK s \in Seq(X) : s = SubSeq(text, lo + 1, hi)
  BY <1>3
<1>5. hi - lo = l /\ (IF lo < hi THEN hi - lo ELSE 0) = l
  BY <1>2
<1>6. Len(s) = l /\ \A i \in 1..l : s[i] = text[lo + i]
  BY <1>3, <1>4, <1>5, Zenon
<1>7. \A i \in 1..l : lo + i = k + i - 1
  BY <1>2
<1>8. \A i \in 1..l : s[i] = text[k + i - 1]
  BY <1>6, <1>7
<1>9. s = m <=> \A i \in 1..l : s[i] = m[i]
  BY <1>1, <1>6, SeqEqual
<1>. QED  BY <1>1, <1>2, <1>4, <1>8, <1>9

Concatenates(u, s, t, n, j) ==
  /\ Len(u) = n + j
  /\ \A k \in 1..n : u[k] = s[k]
  /\ \A k \in 1..j : u[n + k] = t[k]

LEMMA ConcatIs ==
  ASSUME NEW X, NEW s \in Seq(X), NEW t \in Seq(X), NEW n \in Nat, NEW j \in Nat, HasLen(s, n), HasLen(t, j)
  PROVE  s \o t \in Seq(X) /\ Concatenates(s \o t, s, t, n, j)
<1>1. PICK u \in Seq(X) : u = s \o t
  BY ConcatProperties
<1>2. n = Len(s) /\ j = Len(t)
  BY DEF HasLen
<1>3. Len(u) = n + j /\ \A k \in 1..n + j : u[k] = IF k <= n THEN s[k] ELSE t[k - n]
  BY <1>1, <1>2, ConcatProperties
<1>4. \A k \in 1..n : k \in 1..n + j /\ k <= n
  OBVIOUS
<1>5. \A k \in 1..j : n + k \in 1..n + j /\ ~(n + k <= n) /\ (n + k) - n = k
  OBVIOUS
<1>6. \A k \in 1..n : u[k] = s[k]
  BY <1>3, <1>4
<1>7. \A k \in 1..j : u[n + k] = t[k]
  BY <1>3, <1>5
<1>. QED  BY <1>1, <1>3, <1>6, <1>7 DEF Concatenates

LEMMA FirstAtFirst ==
  ASSUME NEW text \in Seq(Char), NEW m \in Seq(Char) \ {<<>>}
  PROVE  First(text, m, FirstAt(text, m))
<1>1. PICK n \in Nat, l \in Nat \ {0} : n = Len(text) /\ l = Len(m)
  BY LenProperties, EmptySeq
<1>2. PICK f \in 0..n :
        /\ f = FirstAt(text, m)
        /\ f # 0 => f + l - 1 \in 1..n /\ SubSeq(text, f, f + l - 1) = m
        /\ \A k \in 1..(n + 1 - l) : SubSeq(text, k, k + l - 1) = m => f \in 1..k
  BY <1>1, FirstAtIs, Zenon
<1>3. \A k \in Nat : Occurs(text, m, k) <=> k \in 1..(n + 1 - l) /\ SubSeq(text, k, k + l - 1) = m
  BY <1>1, PieceIs DEF Occurs
<1>4. CASE f = 0
  <2>1. \A k \in Nat : ~Occurs(text, m, k)
    <3> SUFFICES ASSUME NEW k \in Nat, Occurs(text, m, k) PROVE FALSE
      OBVIOUS
    <3>1. k \in 1..(n + 1 - l) /\ SubSeq(text, k, k + l - 1) = m
      BY <1>3
    <3>2. f \in 1..k
      BY <1>2, <3>1
    <3>. QED  BY <1>4, <3>2
  <2>. QED  BY <1>2, <1>4, <2>1 DEF First
<1>5. CASE f # 0
  <2>1. Occurs(text, m, f)
    <3>1. f + l - 1 \in 1..n /\ SubSeq(text, f, f + l - 1) = m
      BY <1>2, <1>5
    <3>2. f \in 1..(n + 1 - l) /\ f \in Nat
      BY <1>5, <3>1
    <3>. QED  BY <1>3, <3>1, <3>2
  <2>2. \A k \in Nat : Occurs(text, m, k) => f <= k
    BY <1>2, <1>3
  <2>. QED  BY <1>2, <1>5, <2>1, <2>2 DEF First
<1>. QED  BY <1>4, <1>5

LEMMA FirstUnique ==
  ASSUME NEW text, NEW m, NEW f, NEW g, First(text, m, f), First(text, m, g)
  PROVE  f = g
BY DEF First

\* More text behind the first place does not move it.
LEMMA FirstStays ==
  ASSUME NEW s \in Seq(Char), NEW t \in Seq(Char), NEW m \in Seq(Char) \ {<<>>}, FirstAt(s, m) # 0
  PROVE  FirstAt(s \o t, m) = FirstAt(s, m)
<1>1. PICK n \in Nat, j \in Nat, l \in Nat \ {0} : n = Len(s) /\ j = Len(t) /\ l = Len(m)
  BY LenProperties, EmptySeq
<1>2. PICK u \in Seq(Char) : u = s \o t /\ Len(u) = n + j /\ \A k \in 1..n : u[k] = s[k]
  <2>1. HasLen(s, n) /\ HasLen(t, j)
    BY <1>1 DEF HasLen
  <2>2. s \o t \in Seq(Char) /\ Concatenates(s \o t, s, t, n, j)
    BY <2>1, ConcatIs
  <2>. QED  BY <2>2 DEF Concatenates
<1>3. PICK f : f = FirstAt(s, m) /\ f \in Nat \ {0} /\ Occurs(s, m, f) /\ \A k \in Nat : Occurs(s, m, k) => f <= k
  BY FirstAtFirst DEF First
<1>4. \A k \in Nat : k <= n + 1 - l => (Occurs(u, m, k) <=> Occurs(s, m, k))
  <2> SUFFICES ASSUME NEW k \in Nat, k <= n + 1 - l PROVE Occurs(u, m, k) <=> Occurs(s, m, k)
    OBVIOUS
  <2>1. CASE k = 0
    BY <2>1 DEF Occurs
  <2>2. CASE k # 0
    BY <2>2, <1>2, <1>1 DEF Occurs
  <2>. QED  BY <2>1, <2>2
<1>5. f <= n + 1 - l
  BY <1>1, <1>3 DEF Occurs
<1>6. First(u, m, f)
  BY <1>3, <1>4, <1>5 DEF First
<1>7. First(u, m, FirstAt(u, m))
  BY FirstAtFirst
<1>. QED  BY <1>2, <1>3, <1>6, <1>7, FirstUnique

\* What has been searched in vain need not be searched again, but for as much as may
\* be the beginning of a marker.
LEMMA FirstAcross ==
  ASSUME NEW s \in Seq(Char), NEW u \in Seq(Char), NEW t \in Seq(Char), NEW m \in Seq(Char) \ {<<>>},
         FirstAt(s \o u, m) = 0, s = <<>> \/ Len(u) = Len(m) - 1
  PROVE  FirstAt(s \o (u \o t), m) = IF FirstAt(u \o t, m) = 0 THEN 0 ELSE Len(s) + FirstAt(u \o t, m)
<1>0. (s \o u) \o t = s \o (u \o t)
  <2>1. Associative(Char)
    BY ConcatIsAssociative
  <2>. QED  BY <2>1, Zenon DEF Associative
<1>1. PICK n \in Nat, h \in Nat, j \in Nat, l \in Nat \ {0} : n = Len(s) /\ h = Len(u) /\ j = Len(t) /\ l = Len(m)
  BY LenProperties, EmptySeq
<1>2. n = 0 \/ h = l - 1
  BY <1>1, EmptySeq
<1>3. PICK c \in Seq(Char) : c = u \o t /\ Len(c) = h + j
  <2>1. HasLen(u, h) /\ HasLen(t, j)
    BY <1>1 DEF HasLen
  <2>2. u \o t \in Seq(Char) /\ Concatenates(u \o t, u, t, h, j)
    BY <2>1, ConcatIs
  <2>. QED  BY <2>2 DEF Concatenates
<1>4. PICK a \in Seq(Char) : a = s \o u /\ Len(a) = n + h
  <2>1. HasLen(s, n) /\ HasLen(u, h)
    BY <1>1 DEF HasLen
  <2>2. s \o u \in Seq(Char) /\ Concatenates(s \o u, s, u, n, h)
    BY <2>1, ConcatIs
  <2>. QED  BY <2>2 DEF Concatenates
<1>5. PICK b \in Seq(Char) : b = s \o c /\ Len(b) = n + (h + j) /\ \A k \in 1..(h + j) : b[n + k] = c[k]
  <2>1. h + j \in Nat /\ HasLen(s, n) /\ HasLen(c, h + j)
    BY <1>1, <1>3 DEF HasLen
  <2>2. s \o c \in Seq(Char) /\ Concatenates(s \o c, s, c, n, h + j)
    BY <2>1, ConcatIs
  <2>. QED  BY <2>2 DEF Concatenates
<1>6. PICK d \in Seq(Char) : d = a \o t /\ \A k \in 1..(n + h) : d[k] = a[k]
  <2>1. n + h \in Nat /\ HasLen(a, n + h) /\ HasLen(t, j)
    BY <1>1, <1>4 DEF HasLen
  <2>2. a \o t \in Seq(Char) /\ Concatenates(a \o t, a, t, n + h, j)
    BY <2>1, ConcatIs
  <2>. QED  BY <2>2 DEF Concatenates
<1>7. d = b
  BY <1>0, <1>3, <1>4, <1>5, <1>6, Zenon
<1>8. \A k \in Nat : ~Occurs(a, m, k)
  BY <1>4, FirstAtFirst DEF First
<1>9. \A k \in 1..n : ~Occurs(b, m, k)
  <2> SUFFICES ASSUME NEW k \in 1..n, Occurs(b, m, k) PROVE FALSE
    OBVIOUS
  <2>1. h = l - 1 /\ k + l - 1 <= n + h
    BY <1>2
  <2>2. \A i \in 1..l : k + i - 1 \in 1..(n + h)
    BY <2>1
  <2>3. \A i \in 1..l : a[k + i - 1] = m[i]
    BY <1>1, <1>6, <1>7, <2>2 DEF Occurs
  <2>4. k \in 1..(n + h + 1 - l)
    BY <2>1
  <2>5. Occurs(a, m, k)
    BY <1>1, <1>4, <2>3, <2>4 DEF Occurs
  <2>. QED  BY <1>8, <2>5
<1>10. \A k \in Nat \ {0} : Occurs(b, m, n + k) <=> Occurs(c, m, k)
  <2> SUFFICES ASSUME NEW k \in Nat \ {0} PROVE Occurs(b, m, n + k) <=> Occurs(c, m, k)
    OBVIOUS
  <2>1. n + k \in 1..(n + h + j + 1 - l) <=> k \in 1..(h + j + 1 - l)
    OBVIOUS
  <2>2. ASSUME k \in 1..(h + j + 1 - l), NEW i \in 1..l PROVE b[n + k + i - 1] = c[k + i - 1]
    <3>1. k + i - 1 \in 1..(h + j) /\ n + (k + i - 1) = n + k + i - 1
      BY <2>2
    <3>. QED  BY <1>5, <3>1
  <2>3. n + (h + j) + 1 - l = n + h + j + 1 - l
    OBVIOUS
  <2>4. Occurs(b, m, n + k) <=> n + k \in 1..(n + h + j + 1 - l) /\ \A i \in 1..l : b[n + k + i - 1] = m[i]
    BY <1>1, <1>5, <2>3, Zenon DEF Occurs
  <2>5. Occurs(c, m, k) <=> k \in 1..(h + j + 1 - l) /\ \A i \in 1..l : c[k + i - 1] = m[i]
    BY <1>1, <1>3, Zenon DEF Occurs
  <2>. QED  BY <2>1, <2>2, <2>4, <2>5
<1>11. \A k \in Nat : Occurs(b, m, k) => k - n \in Nat \ {0} /\ n + (k - n) = k /\ Occurs(c, m, k - n)
  <2> SUFFICES ASSUME NEW k \in Nat, Occurs(b, m, k)
               PROVE  k - n \in Nat \ {0} /\ n + (k - n) = k /\ Occurs(c, m, k - n)
    OBVIOUS
  <2>1. k # 0
    BY DEF Occurs
  <2>2. k - n \in Nat \ {0} /\ n + (k - n) = k
    BY <1>9, <2>1
  <2>. QED  BY <1>10, <2>2
<1>12. PICK f \in Nat : f = FirstAt(c, m) /\ First(c, m, f)
  <2>1. First(c, m, FirstAt(c, m))
    BY FirstAtFirst
  <2>. QED  BY <2>1 DEF First
<1>13. CASE f = 0
  BY <1>12, <1>13, <1>11, <1>3, <1>5, FirstAtFirst, FirstUnique DEF First
<1>14. CASE f # 0
  <2>1. Occurs(c, m, f) /\ \A k \in Nat : Occurs(c, m, k) => f <= k
    BY <1>12, <1>14 DEF First
  <2>2. Occurs(b, m, n + f)
    BY <1>10, <1>14, <2>1
  <2>3. \A k \in Nat : Occurs(b, m, k) => n + f <= k
    BY <1>11, <2>1
  <2>4. First(b, m, n + f)
    BY <1>14, <2>2, <2>3 DEF First
  <2>5. FirstAt(b, m) = n + f
    BY <2>4, FirstAtFirst, FirstUnique
  <2>. QED  BY <1>1, <1>3, <1>5, <1>12, <1>14, <2>5
<1>. QED  BY <1>13, <1>14

-----------------------------------------------------------------------------
(* The selection of a log: bytes and characters. *)

\* No byte belongs to a character that began before.
Aligned(v) == \A k \in 1..Len(v) : v[k][2] <= k

LEMMA AlignedAppend ==
  ASSUME NEW v \in Seq(Byte), NEW b \in Byte, NEW w \in Seq(Byte), Extends(w, v, b), Aligned(w)
  PROVE  Aligned(v) /\ b[2] <= Len(v) + 1
BY LenProperties, AppendProperties DEF Extends, Aligned

LEMMA EndsAligned ==
  ASSUME NEW b \in Byte, NEW n \in Nat, NEW m \in Nat, b[2] <= n + 1
  PROVE  EndsAt(b, n + 1) <=> EndsAt(b, m + n + 1)
BY WidthType DEF Byte, EndsAt

LEMMA DecodeConcat ==
  ASSUME NEW u \in Seq(Byte), NEW v \in Seq(Byte), Aligned(v)
  PROVE  Decode(u \o v) = Decode(u) \o Decode(v)
<1> DEFINE T == {x \in Seq(Byte) : Aligned(x) => Decode(u \o x) = Decode(u) \o Decode(x)}
<1>1. <<>> \in T
  BY EmptySeq, DecodeType, ConcatEmptySeq, DecodeAppend
<1>2. \A x \in Seq(Byte), b \in Byte, y \in Seq(Byte) : x \in T /\ Extends(y, x, b) => y \in T
  <2> SUFFICES ASSUME NEW x \in Seq(Byte), NEW b \in Byte, NEW y \in Seq(Byte), Extends(y, x, b), Aligned(y),
                      Aligned(x) => Decode(u \o x) = Decode(u) \o Decode(x)
               PROVE  Decode(u \o y) = Decode(u) \o Decode(y)
    OBVIOUS
  <2> HIDE DEF T
  <2>1. Aligned(x) /\ b[2] <= Len(x) + 1
    BY AlignedAppend
  <2>2. PICK p \in Seq(Byte), q \in Seq(Byte) : p = u \o x /\ q = u \o y
    BY ConcatProperties
  <2>3. Extends(q, p, b)
    BY <2>2, ExtendsConcat
  <2>4. PICK m \in Nat, n \in Nat : m = Len(u) /\ n = Len(x) /\ Len(p) = m + n
    BY <2>2, LenProperties, ConcatProperties
  <2>5. EndsAt(b, n + 1) <=> EndsAt(b, m + n + 1)
    BY <2>1, <2>4, EndsAligned
  <2>6. PICK du \in Seq(Char), dx \in Seq(Char), dy \in Seq(Char), dp \in Seq(Char), dq \in Seq(Char) :
          du = Decode(u) /\ dx = Decode(x) /\ dy = Decode(y) /\ dp = Decode(p) /\ dq = Decode(q)
    BY DecodeType
  <2>7. dp = du \o dx
    BY <2>1, <2>2, <2>6
  <2>8. b[1] \in Char
    BY DEF Byte
  <2>9. CASE EndsAt(b, n + 1)
    <3>1. Extends(dy, dx, b[1])
      BY <2>4, <2>6, <2>9, DecodeAppend
    <3>2. Extends(dq, dp, b[1])
      BY <2>4, <2>5, <2>9, <2>3, <2>6, DecodeAppend
    <3>3. Extends(du \o dy, du \o dx, b[1])
      BY <2>8, <3>1, ExtendsConcat
    <3>4. dq = du \o dy
      BY <2>7, <3>2, <3>3 DEF Extends
    <3>. QED  BY <2>2, <2>6, <3>4
  <2>10. CASE ~EndsAt(b, n + 1)
    BY <2>4, <2>6, <2>10, <2>5, <2>3, <2>2, <2>7, DecodeAppend
  <2>. QED  BY <2>9, <2>10
<1>3. Seq(Byte) \subseteq T
  <2> HIDE DEF T
  <2>. QED  BY <1>1, <1>2, SeqSetInduction
<1>. QED  BY <1>3

LEMMA BeginningGrows ==
  ASSUME NEW c \in Char, NEW n \in 0..3
  PROVE  Extends(Beginning(c, n + 1), Beginning(c, n), <<c, n + 1>>)
<1>1. PICK a \in Seq(Byte), b \in Seq(Byte) :
        /\ a = Beginning(c, n) /\ b = Beginning(c, n + 1) /\ Len(a) = n /\ Len(b) = n + 1
        /\ (\A k \in 1..n : a[k] = <<c, k>>) /\ \A k \in 1..(n + 1) : b[k] = <<c, k>>
  <2>1. n \in 0..4 /\ n + 1 \in 0..4
    OBVIOUS
  <2>. QED  BY <2>1, BeginningType
<1>2. <<c, n + 1>> \in Byte
  BY DEF Byte
<1>3. PICK d \in Seq(Byte) : d = Append(a, <<c, n + 1>>)
  BY <1>2, AppendProperties
<1>4. Len(d) = n + 1 /\ (\A k \in 1..n : d[k] = a[k]) /\ d[n + 1] = <<c, n + 1>>
  BY <1>1, <1>2, <1>3, AppendProperties
<1>5. \A k \in 1..(n + 1) : d[k] = b[k]
  <2> SUFFICES ASSUME NEW k \in 1..(n + 1) PROVE d[k] = b[k]
    OBVIOUS
  <2>1. k \in 1..n \/ k = n + 1
    OBVIOUS
  <2>2. b[k] = <<c, k>>
    BY <1>1
  <2>3. CASE k \in 1..n
    BY <1>1, <1>4, <2>3, <2>2
  <2>4. CASE k = n + 1
    BY <1>4, <2>2, <2>4
  <2>. QED  BY <2>1, <2>3, <2>4
<1>6. d = b
  BY <1>1, <1>4, <1>5, SeqEqual
<1>. QED  BY <1>1, <1>3, <1>6 DEF Extends

LEMMA DecodeBeginning ==
  ASSUME NEW c \in Char
  PROVE  /\ \A n \in 0..3 : n < Width[c] => Decode(Beginning(c, n)) = <<>>
         /\ Decode(Beginning(c, Width[c])) = <<c>>
<1>1. PICK w \in 1..4 : w = Width[c]
  BY WidthType
<1>2. \A n \in 0..3 : /\ Beginning(c, n) \in Seq(Byte) /\ Beginning(c, n + 1) \in Seq(Byte)
                      /\ Len(Beginning(c, n)) = n
                      /\ Extends(Beginning(c, n + 1), Beginning(c, n), <<c, n + 1>>)
                      /\ <<c, n + 1>> \in Byte
  <2> SUFFICES ASSUME NEW n \in 0..3
               PROVE  /\ Beginning(c, n) \in Seq(Byte) /\ Beginning(c, n + 1) \in Seq(Byte)
                      /\ Len(Beginning(c, n)) = n
                      /\ Extends(Beginning(c, n + 1), Beginning(c, n), <<c, n + 1>>)
                      /\ <<c, n + 1>> \in Byte
    OBVIOUS
  <2>1. n \in 0..4 /\ n + 1 \in 0..4
    OBVIOUS
  <2>2. Extends(Beginning(c, n + 1), Beginning(c, n), <<c, n + 1>>)
    BY BeginningGrows
  <2>3. <<c, n + 1>> \in Byte
    BY DEF Byte
  <2>4. Beginning(c, n) \in Seq(Byte) /\ Len(Beginning(c, n)) = n
    BY <2>1, BeginningType
  <2>5. Beginning(c, n + 1) \in Seq(Byte)
    BY <2>1, BeginningType
  <2>. QED  BY <2>2, <2>3, <2>4, <2>5
<1>3. \A n \in 0..3 : EndsAt(<<c, n + 1>>, n + 1) <=> n + 1 = w
  BY <1>1 DEF EndsAt
<1>4. \A n \in 0..3 : /\ n + 1 = w => Extends(Decode(Beginning(c, n + 1)), Decode(Beginning(c, n)), c)
                      /\ n + 1 # w => Decode(Beginning(c, n + 1)) = Decode(Beginning(c, n))
  BY <1>2, <1>3, DecodeAppend
<1>5. Decode(Beginning(c, 0)) = <<>>
  BY EmptySeq, DecodeAppend DEF Beginning
<1>6. w > 1 => Decode(Beginning(c, 1)) = <<>>
  BY <1>1, <1>4, <1>5
<1>7. w > 2 => Decode(Beginning(c, 2)) = <<>>
  BY <1>1, <1>4, <1>6
<1>8. w > 3 => Decode(Beginning(c, 3)) = <<>>
  BY <1>1, <1>4, <1>7
<1>9. \A n \in 0..3 : n < w => Decode(Beginning(c, n)) = <<>>
  BY <1>1, <1>5, <1>6, <1>7, <1>8
<1>10. Decode(Beginning(c, w)) = <<c>>
  <2>1. PICK n \in 0..3 : n + 1 = w
    OBVIOUS
  <2>2. Decode(Beginning(c, n)) = <<>>
    BY <1>1, <1>9, <2>1
  <2>3. Extends(Decode(Beginning(c, w)), <<>>, c)
    BY <1>4, <2>1, <2>2
  <2>4. Append(<<>>, c) = <<c>>
    OBVIOUS
  <2>. QED  BY <2>3, <2>4 DEF Extends
<1>. QED  BY <1>1, <1>9, <1>10

LEMMA BeginningAligned ==
  ASSUME NEW c \in Char, NEW n \in 0..4
  PROVE  Aligned(Beginning(c, n))
<1>1. Len(Beginning(c, n)) = n /\ \A k \in 1..n : Beginning(c, n)[k] = <<c, k>>
  BY BeginningType
<1>2. \A k \in 1..n : <<c, k>>[2] <= k
  OBVIOUS
<1>. QED  BY <1>1, <1>2 DEF Aligned

LEMMA CutWithin ==
  ASSUME NEW X, NEW b \in Seq(X), NEW e \in Seq(X), NEW m \in Nat, m <= Len(b)
  PROVE  SubSeq(b \o e, 1, m) = SubSeq(b, 1, m)
BY LenProperties, ConcatIs, Slice, SeqEqual DEF HasLen, Concatenates

LEMMA CutAcross ==
  ASSUME NEW X, NEW b \in Seq(X), NEW e \in Seq(X), NEW m \in Nat, m <= Len(e)
  PROVE  SubSeq(b \o e, 1, Len(b) + m) = b \o SubSeq(e, 1, m)
<1>1. PICK n \in Nat, j \in Nat, zero \in Nat : n = Len(b) /\ j = Len(e) /\ zero = 0
  BY LenProperties
<1>2. b \o e \in Seq(X) /\ Concatenates(b \o e, b, e, n, j)
  BY <1>1, ConcatIs DEF HasLen
<1>3. PICK c \in Seq(X) : c = b \o e /\ Len(c) = n + j
                          /\ (\A k \in 1..n : c[k] = b[k]) /\ \A k \in 1..j : c[n + k] = e[k]
  BY <1>2 DEF Concatenates
<1>4. /\ SubSeq(c, zero + 1, n + m) \in Seq(X)
      /\ Len(SubSeq(c, zero + 1, n + m)) = (IF zero < n + m THEN n + m - zero ELSE 0)
      /\ \A k \in 1..(n + m - zero) : SubSeq(c, zero + 1, n + m)[k] = c[zero + k]
  BY <1>1, <1>3, Slice
<1>5. /\ SubSeq(e, zero + 1, m) \in Seq(X) /\ Len(SubSeq(e, zero + 1, m)) = (IF zero < m THEN m - zero ELSE 0)
      /\ \A k \in 1..(m - zero) : SubSeq(e, zero + 1, m)[k] = e[zero + k]
  BY Slice
<1>6. PICK p \in Seq(X), q \in Seq(X) : p = SubSeq(c, zero + 1, n + m) /\ q = SubSeq(e, zero + 1, m)
  BY <1>4, <1>5
<1>7. Len(p) = n + m /\ Len(q) = m /\ zero + 1 = 1 /\ m - zero = m /\ n + m - zero = n + m
  BY <1>1, <1>4, <1>5, <1>6
<1>8. b \o q \in Seq(X) /\ Concatenates(b \o q, b, q, n, m)
  BY <1>1, <1>7, ConcatIs DEF HasLen
<1>9. PICK d \in Seq(X) : d = b \o q /\ Len(d) = n + m
                          /\ (\A k \in 1..n : d[k] = b[k]) /\ \A k \in 1..m : d[n + k] = q[k]
  BY <1>8 DEF Concatenates
<1>10. \A k \in 1..(n + m) : p[k] = d[k]
  BY <1>1, <1>4, <1>6, <1>7, <1>3, <1>9, <1>5
<1>11. p = d
  BY <1>7, <1>9, <1>10, SeqEqual
<1>. QED  BY <1>1, <1>3, <1>6, <1>7, <1>9, <1>11

LEMMA CutAligned ==
  ASSUME NEW v \in Seq(Byte), NEW m \in Nat, m <= Len(v), Aligned(v)
  PROVE  Aligned(SubSeq(v, 1, m))
BY LenProperties, SubSeqProperties DEF Aligned

LEMMA ConcatAligned ==
  ASSUME NEW u \in Seq(Byte), NEW v \in Seq(Byte), Aligned(u), Aligned(v)
  PROVE  Aligned(u \o v)
<1>1. PICK n \in Nat, j \in Nat : n = Len(u) /\ j = Len(v)
  BY LenProperties
<1>2. u \o v \in Seq(Byte) /\ Concatenates(u \o v, u, v, n, j)
  BY <1>1, ConcatIs DEF HasLen
<1>3. PICK c \in Seq(Byte) : c = u \o v /\ Len(c) = n + j
                          /\ (\A k \in 1..n : c[k] = u[k]) /\ \A k \in 1..j : c[n + k] = v[k]
  BY <1>2 DEF Concatenates
<1>4. (\A k \in 1..n : u[k][2] <= k) /\ \A k \in 1..j : v[k][2] <= k
  BY <1>1 DEF Aligned
<1>5. \A k \in 1..j : v[k][2] \in Nat
  BY <1>1, ElementOfSeq DEF Byte
<1>6. \A k \in 1..(n + j) : c[k][2] <= k
  <2> SUFFICES ASSUME NEW k \in 1..(n + j) PROVE c[k][2] <= k
    OBVIOUS
  <2>1. CASE k <= n
    BY <1>3, <1>4, <2>1
  <2>2. CASE ~(k <= n)
    <3>1. PICK i \in 1..j : k = n + i
      BY <2>2
    <3>2. c[k] = v[i] /\ v[i][2] <= i /\ v[i][2] \in Nat
      BY <1>3, <1>4, <1>5, <3>1
    <3>3. v[i][2] <= k
      BY <3>1, <3>2
    <3>. QED  BY <3>2, <3>3
  <2>. QED  BY <2>1, <2>2
<1>. QED  BY <1>3, <1>6 DEF Aligned

\* How many are not among the last n of l.
Skips(d, l, n) == d \in Nat /\ (n <= l => d = l - n) /\ (~(n <= l) => d = 0)

LEMMA LastOfIs ==
  ASSUME NEW X, NEW s \in Seq(X), NEW n \in Nat, NEW d \in Nat, Skips(d, Len(s), n)
  PROVE  /\ LastOf(s, n) = SubSeq(s, d + 1, Len(s)) /\ LastOf(s, n) \in Seq(X)
         /\ Len(LastOf(s, n)) = Len(s) - d
         /\ \A k \in 1..(Len(s) - d) : LastOf(s, n)[k] = s[d + k]
<1>1. PICK l \in Nat : l = Len(s)
  BY LenProperties
<1>0. d <= l /\ d = (IF n <= l THEN l - n ELSE 0)
  BY <1>1 DEF Skips
<1>2. Max({1, l - n + 1}) = d + 1
  BY <1>0, MaxIs
<1>3. LastOf(s, n) = SubSeq(s, d + 1, l)
  BY <1>1, <1>2, Zenon DEF LastOf
<1>4. /\ SubSeq(s, d + 1, l) \in Seq(X)
      /\ Len(SubSeq(s, d + 1, l)) = (IF d < l THEN l - d ELSE 0)
      /\ \A k \in 1..(l - d) : SubSeq(s, d + 1, l)[k] = s[d + k]
  BY <1>1, Slice
<1>5. (IF d < l THEN l - d ELSE 0) = l - d
  BY <1>0
<1>. QED  BY <1>1, <1>3, <1>4, <1>5, Zenon

\* The last of a text are the last of the end of it.
LEMMA LastWithin ==
  ASSUME NEW X, NEW a \in Seq(X), NEW w \in Seq(X), NEW n \in Nat, a = <<>> \/ n <= Len(w)
  PROVE  LastOf(a \o w, n) = LastOf(w, n)
<1>0. \A v \in Seq(X), d \in Nat :
        Skips(d, Len(v), n) =>
          /\ LastOf(v, n) \in Seq(X) /\ Len(LastOf(v, n)) = Len(v) - d
          /\ \A k \in 1..(Len(v) - d) : LastOf(v, n)[k] = v[d + k]
  BY LastOfIs
<1>1. CASE a = <<>>
  BY <1>1, ConcatEmptySeq
<1>2. CASE a # <<>>
  <2>1. PICK h \in Nat, l \in Nat : h = Len(a) /\ l = Len(w) /\ n <= l
    BY <1>2, LenProperties
  <2>2. a \o w \in Seq(X) /\ Concatenates(a \o w, a, w, h, l)
    BY <2>1, ConcatIs DEF HasLen
  <2>3. PICK c \in Seq(X) : c = a \o w /\ Len(c) = h + l /\ \A k \in 1..l : c[h + k] = w[k]
    BY <2>2 DEF Concatenates
  <2>4. PICK d \in Nat, e \in Nat : d = l - n /\ e = h + l - n
    <3>1. l - n \in Nat /\ h + l - n \in Nat
      BY <2>1
    <3>. QED  BY <3>1
  <2>5. /\ LastOf(w, n) \in Seq(X) /\ Len(LastOf(w, n)) = Len(w) - d
        /\ \A k \in 1..(Len(w) - d) : LastOf(w, n)[k] = w[d + k]
    BY <2>1, <2>4, <1>0 DEF Skips
  <2>6. /\ LastOf(c, n) \in Seq(X) /\ Len(LastOf(c, n)) = Len(c) - e
        /\ \A k \in 1..(Len(c) - e) : LastOf(c, n)[k] = c[e + k]
    <3>1. Skips(e, Len(c), n)
      BY <2>1, <2>3, <2>4 DEF Skips
    <3>. QED  BY <1>0, <3>1, Zenon
  <2>7. PICK p \in Seq(X), q \in Seq(X) : p = LastOf(w, n) /\ q = LastOf(c, n)
    BY <2>5, <2>6
  <2>8. Len(w) - d = n /\ Len(c) - e = n
    BY <2>1, <2>3, <2>4
  <2>9. Len(p) = n /\ Len(q) = n /\ (\A k \in 1..n : p[k] = w[d + k]) /\ \A k \in 1..n : q[k] = c[e + k]
    BY <2>5, <2>6, <2>7, <2>8, Zenon
  <2>10. \A k \in 1..n : e + k = h + (d + k) /\ d + k \in 1..l
    BY <2>1, <2>4
  <2>11. \A k \in 1..n : p[k] = q[k]
    BY <2>3, <2>9, <2>10
  <2>12. p = q
    BY <2>9, <2>11, SeqEqual
  <2>. QED  BY <2>3, <2>7, <2>12
<1>. QED  BY <1>1, <1>2

\* What is not among the last, and the last.
LEMMA LastSplits ==
  ASSUME NEW X, NEW s \in Seq(X), NEW n \in Nat
  PROVE  /\ LastOf(s, n) \in Seq(X)
         /\ \E a \in Seq(X) : /\ s = a \o LastOf(s, n)
                              /\ a = <<>> \/ Len(LastOf(s, n)) = n
                              /\ Len(LastOf(s, n)) <= n
                              /\ n <= Len(s) => a = AllButLast(s, n)
<1>1. PICK l \in Nat : l = Len(s)
  BY LenProperties
<1>2. PICK d \in Nat : d = (IF n <= l THEN l - n ELSE 0) /\ d <= l
  <2>1. (IF n <= l THEN l - n ELSE 0) \in Nat /\ (IF n <= l THEN l - n ELSE 0) <= l
    OBVIOUS
  <2>. QED  BY <2>1
<1>3. LastOf(s, n) = SubSeq(s, d + 1, l) /\ LastOf(s, n) \in Seq(X) /\ Len(LastOf(s, n)) = l - d
  <2>1. Skips(d, Len(s), n)
    BY <1>1, <1>2 DEF Skips
  <2>2. /\ LastOf(s, n) = SubSeq(s, d + 1, Len(s)) /\ LastOf(s, n) \in Seq(X)
        /\ Len(LastOf(s, n)) = Len(s) - d
    BY <2>1, LastOfIs
  <2>. QED  BY <1>1, <2>2
<1>4. PICK a \in Seq(X) : a = SubSeq(s, 1, d) /\ s = a \o SubSeq(s, d + 1, l)
  BY <1>1, <1>2, Parts
<1>5. s = a \o LastOf(s, n)
  BY <1>3, <1>4
<1>6. a = <<>> \/ Len(LastOf(s, n)) = n
  BY <1>2, <1>3, <1>4, SubSeqEmpty
<1>7. Len(LastOf(s, n)) <= n
  BY <1>2, <1>3
<1>8. n <= Len(s) => a = AllButLast(s, n)
  BY <1>1, <1>2, <1>4 DEF AllButLast
<1>. QED  BY <1>3, <1>5, <1>6, <1>7, <1>8

\* The last of a text that grows need only the last of it so far.
LEMMA LastOfConcat ==
  ASSUME NEW X, NEW t \in Seq(X), NEW u \in Seq(X), NEW n \in Nat
  PROVE  LastOf(LastOf(t, n) \o u, n) = LastOf(t \o u, n)
<1>1. PICK v \in Seq(X), a \in Seq(X) : v = LastOf(t, n) /\ t = a \o v /\ (a = <<>> \/ Len(v) = n)
  <2>1. LastOf(t, n) \in Seq(X)
    BY LastSplits
  <2>2. \E a \in Seq(X) : t = a \o LastOf(t, n) /\ (a = <<>> \/ Len(LastOf(t, n)) = n)
    BY LastSplits
  <2>. QED  BY <2>1, <2>2
<1>2. v \o u \in Seq(X) /\ Len(v \o u) = Len(v) + Len(u) /\ Len(u) \in Nat
  BY ConcatProperties, LenProperties
<1>3. PICK w \in Seq(X) : w = v \o u /\ (a = <<>> \/ n <= Len(w))
  <2>1. Len(v) = n => n <= Len(v \o u)
    BY <1>2
  <2>. QED  BY <1>1, <1>2, <2>1
<1>4. (a \o v) \o u = a \o (v \o u)
  <2>1. Associative(X)
    BY ConcatIsAssociative
  <2>. QED  BY <2>1, Zenon DEF Associative
<1>5. LastOf(a \o w, n) = LastOf(w, n)
  BY <1>3, LastWithin
<1>. QED  BY <1>1, <1>3, <1>4, <1>5

LEMMA EncodeAligned ==
  ASSUME NEW s \in Seq(Char)
  PROVE  Aligned(Encode(s))
<1> DEFINE T == {u \in Seq(Char) : Aligned(Encode(u))}
<1>1. <<>> \in T
  BY EncodeAppend, EmptySeq DEF Aligned
<1>2. \A u \in Seq(Char), e \in Char, w \in Seq(Char) : u \in T /\ Extends(w, u, e) => w \in T
  <2> SUFFICES ASSUME NEW u \in Seq(Char), NEW e \in Char, NEW w \in Seq(Char), Extends(w, u, e), Aligned(Encode(u))
               PROVE  Aligned(Encode(w))
    OBVIOUS
  <2> HIDE DEF T
  <2>1. PICK a \in Seq(Byte), b \in Seq(Byte) : a = Encode(u) /\ b = Beginning(e, Width[e]) /\ Aligned(b)
    BY EncodeType, WidthType, BeginningType, BeginningAligned
  <2>2. Encode(w) = a \o b
    BY <2>1, EncodeAppend
  <2>. QED  BY <2>1, <2>2, ConcatAligned
<1>3. Seq(Char) \subseteq T
  <2> HIDE DEF T
  <2>. QED  BY <1>1, <1>2, SeqSetInduction
<1>. QED  BY <1>3

\* What was encoded is decoded.
LEMMA DecodeEncode ==
  ASSUME NEW s \in Seq(Char)
  PROVE  Decode(Encode(s)) = s
<1> DEFINE T == {u \in Seq(Char) : Decode(Encode(u)) = u}
<1>1. <<>> \in T
  BY EncodeAppend, DecodeAppend, EmptySeq
<1>2. \A u \in Seq(Char), e \in Char, w \in Seq(Char) : u \in T /\ Extends(w, u, e) => w \in T
  <2> SUFFICES ASSUME NEW u \in Seq(Char), NEW e \in Char, NEW w \in Seq(Char), Extends(w, u, e),
                      Decode(Encode(u)) = u
               PROVE  Decode(Encode(w)) = w
    OBVIOUS
  <2> HIDE DEF T
  <2>1. PICK a \in Seq(Byte), b \in Seq(Byte) : a = Encode(u) /\ b = Beginning(e, Width[e]) /\ Aligned(b)
    BY EncodeType, WidthType, BeginningType, BeginningAligned
  <2>2. Encode(w) = a \o b
    BY <2>1, EncodeAppend
  <2>3. Decode(a \o b) = Decode(a) \o Decode(b)
    BY <2>1, DecodeConcat
  <2>4. Decode(a) = u /\ Decode(b) = <<e>>
    BY <2>1, DecodeBeginning
  <2>5. w = u \o <<e>>
    BY AppendIsConcat DEF Extends
  <2>. QED  BY <2>2, <2>3, <2>4, <2>5
<1>3. Seq(Char) \subseteq T
  <2> HIDE DEF T
  <2>. QED  BY <1>1, <1>2, SeqSetInduction
<1>. QED  BY <1>3

\* An incomplete character is not decoded.
LEMMA DecodeCut ==
  ASSUME NEW s \in Seq(Char), NEW c \in Char, NEW n \in 0..3, n < Width[c]
  PROVE  Decode(Encode(s) \o Beginning(c, n)) = s
<1>1. n \in 0..4
  OBVIOUS
<1>2. PICK a \in Seq(Byte), b \in Seq(Byte) : a = Encode(s) /\ b = Beginning(c, n) /\ Aligned(b)
  BY <1>1, EncodeType, BeginningType, BeginningAligned
<1>3. Decode(a \o b) = Decode(a) \o Decode(b)
  BY <1>2, DecodeConcat
<1>4. Decode(a) = s /\ Decode(b) = <<>>
  BY <1>2, DecodeEncode, DecodeBeginning
<1>5. s \o <<>> = s
  BY ConcatEmptySeq
<1>. QED  BY <1>2, <1>3, <1>4, <1>5

LEMMA BytesConcat ==
  ASSUME NEW s \in Seq(Char), NEW t \in Seq(Char)
  PROVE  /\ Bytes(s) \in Nat /\ Bytes(t) \in Nat
         /\ Bytes(s \o t) = Bytes(s) + Bytes(t)
BY EncodeType, EncodeConcat, ConcatProperties, LenProperties DEF Bytes

\* A text that fits is its own prefix.
LEMMA PrefixWhole ==
  ASSUME NEW s \in Seq(Char), NEW n \in Nat, Bytes(s) <= n
  PROVE  Prefix(s, n) = s
<1>1. PICK b \in Seq(Byte), l \in Nat : b = Encode(s) /\ l = Len(b) /\ l = Bytes(s)
  BY EncodeType, BytesType DEF Bytes
<1>2. Min({n, l}) = l
  BY <1>1, MinIs
<1>3. SubSeq(b, 1, l) = b
  BY <1>1, SubSeqFull
<1>. QED  BY <1>1, <1>2, <1>3, DecodeEncode DEF Prefix

\* What follows a text that does not fit does not change the prefix.
LEMMA PrefixPast ==
  ASSUME NEW s \in Seq(Char), NEW t \in Seq(Char), NEW n \in Nat, Bytes(s) > n
  PROVE  Prefix(s \o t, n) = Prefix(s, n) /\ Bytes(s \o t) > n
<1>1. PICK b \in Seq(Byte), l \in Nat : b = Encode(s) /\ l = Len(b) /\ l = Bytes(s)
  BY EncodeType, BytesType DEF Bytes
<1>2. PICK e \in Seq(Byte), j \in Nat : e = Encode(t) /\ j = Bytes(t)
  BY EncodeType, BytesType
<1>3. Encode(s \o t) = b \o e /\ Bytes(s \o t) = l + j
  BY <1>1, <1>2, EncodeConcat, BytesConcat
<1>4. Min({n, l}) = n /\ Min({n, l + j}) = n
  <2>1. Min({n, l}) = IF n <= l THEN n ELSE l
    BY MinIs
  <2>2. Min({n, l + j}) = IF n <= l + j THEN n ELSE l + j
    BY MinIs
  <2>. QED  BY <1>1, <2>1, <2>2
<1>5. SubSeq(b \o e, 1, n) = SubSeq(b, 1, n)
  <2>1. n <= Len(b)
    BY <1>1
  <2>. QED  BY <2>1, CutWithin
<1>6. Prefix(s \o t, n) = Decode(SubSeq(b \o e, 1, n))
  BY <1>3, <1>4, Zenon DEF Prefix
<1>7. Prefix(s, n) = Decode(SubSeq(b, 1, n))
  BY <1>1, <1>4, Zenon DEF Prefix
<1>8. l + j > n
  BY <1>1
<1>. QED  BY <1>3, <1>5, <1>6, <1>7, <1>8

\* The prefix of a text that begins with one that fits.
LEMMA PrefixAcross ==
  ASSUME NEW s \in Seq(Char), NEW t \in Seq(Char), NEW n \in Nat, Bytes(s) <= n
  PROVE  Prefix(s \o t, n) = s \o Prefix(t, n - Bytes(s))
<1>1. PICK b \in Seq(Byte), l \in Nat : b = Encode(s) /\ l = Len(b) /\ l = Bytes(s)
  BY EncodeType, BytesType DEF Bytes
<1>2. PICK e \in Seq(Byte), j \in Nat : e = Encode(t) /\ j = Bytes(t) /\ j = Len(e)
  BY EncodeType, BytesType DEF Bytes
<1>3. Encode(s \o t) = b \o e /\ Bytes(s \o t) = l + j
  BY <1>1, <1>2, EncodeConcat, BytesConcat
<1>4. PICK room \in Nat : room = n - l
  BY <1>1
<1>5. PICK m \in Nat : m = Min({room, j}) /\ m = (IF room <= j THEN room ELSE j) /\ m <= j
  <2>1. Min({room, j}) = IF room <= j THEN room ELSE j
    BY MinIs
  <2>2. (IF room <= j THEN room ELSE j) \in Nat /\ (IF room <= j THEN room ELSE j) <= j
    OBVIOUS
  <2>. QED  BY <2>1, <2>2
<1>6. Min({n, l + j}) = l + m
  <2>1. Min({n, l + j}) = IF n <= l + j THEN n ELSE l + j
    BY MinIs
  <2>2. n = l + room /\ (n <= l + j <=> room <= j)
    BY <1>1, <1>4
  <2>. QED  BY <1>5, <2>1, <2>2
<1>7. SubSeq(b \o e, 1, l + m) = b \o SubSeq(e, 1, m)
  <2>1. m <= Len(e)
    BY <1>2, <1>5
  <2>2. SubSeq(b \o e, 1, Len(b) + m) = b \o SubSeq(e, 1, m)
    BY <2>1, CutAcross
  <2>. QED  BY <1>1, <2>2
<1>8. PICK v \in Seq(Byte) : v = SubSeq(e, 1, m) /\ Aligned(v)
  <2>1. Aligned(e) /\ m <= Len(e)
    BY <1>2, <1>5, EncodeAligned
  <2>2. SubSeq(e, 1, m) \in Seq(Byte)
    BY <2>1, Parts
  <2>. QED  BY <2>1, <2>2, CutAligned
<1>9. Decode(b \o v) = s \o Decode(v)
  <2>1. Decode(b \o v) = Decode(b) \o Decode(v)
    BY <1>8, DecodeConcat
  <2>. QED  BY <1>1, <2>1, DecodeEncode
<1>10. Prefix(s \o t, n) = Decode(SubSeq(b \o e, 1, l + m))
  BY <1>3, <1>6, Zenon DEF Prefix
<1>11. Prefix(t, room) = Decode(SubSeq(e, 1, m))
  BY <1>2, <1>5, Zenon DEF Prefix
<1>. QED  BY <1>1, <1>4, <1>7, <1>8, <1>9, <1>10, <1>11

-----------------------------------------------------------------------------
(* The selection of a log: the accumulator. *)

\* What the collector holds of the text t.
Collected(a, t, limit) ==
  /\ a.kept = Prefix(t, limit)
  /\ a.closed => Bytes(t) > limit
  /\ ~a.closed => Bytes(t) <= limit

\* a and b differ in the fields of the collector at most.
SameOutside(a, b) ==
  /\ b.seen = a.seen /\ b.tail = a.tail /\ b.active = a.active /\ b.ended = a.ended
  /\ b.startTail = a.startTail /\ b.endTail = a.endTail

LEMMA CollectSoundly ==
  ASSUME NEW a \in Accumulator, NEW t \in Seq(Char), NEW text \in Seq(Char), NEW limit \in Nat,
         Collected(a, t, limit)
  PROVE  Collected(Collect(a, text, limit), t \o text, limit) /\ SameOutside(a, Collect(a, text, limit))
<1>1. /\ Bytes(t) \in Nat /\ Bytes(text) \in Nat /\ Bytes(t \o text) = Bytes(t) + Bytes(text)
  BY BytesConcat
<1>2. a.closed \in BOOLEAN /\ a.kept \in Seq(Char)
  BY DEF Accumulator
<1>3. PICK b : b = Collect(a, text, limit)
  OBVIOUS
<1>4. CASE a.closed
  BY <1>3, <1>4, PrefixPast DEF Collect, Collected, SameOutside
<1>5. CASE ~a.closed
  <2>1. Bytes(t) <= limit /\ a.kept = t
    BY <1>5, PrefixWhole DEF Collected
  <2>2. PICK room \in Nat : room = limit - Bytes(t) /\ room = limit - Bytes(a.kept)
    BY <1>1, <2>1
  <2>3. CASE text = <<>>
    BY <1>3, <2>3, ConcatEmptySeq DEF Collect, SameOutside
  <2>4. CASE text # <<>> /\ Bytes(text) <= room
    <3>1. b = [a EXCEPT !.kept = @ \o text]
      BY <1>3, <1>5, <2>2, <2>4, Zenon DEF Collect
    <3>2. b.kept = t \o text /\ b.closed = a.closed /\ SameOutside(a, b)
      BY <2>1, <3>1 DEF Accumulator, SameOutside
    <3>3. Bytes(t \o text) <= limit
      BY <1>1, <2>2, <2>4
    <3>4. Prefix(t \o text, limit) = t \o text
      BY <3>3, ConcatProperties, PrefixWhole
    <3>. QED  BY <1>3, <1>5, <3>2, <3>3, <3>4 DEF Collected
  <2>5. CASE text # <<>> /\ ~(Bytes(text) <= room)
    <3>1. b = [a EXCEPT !.kept = @ \o Prefix(text, room), !.closed = TRUE]
      BY <1>3, <1>5, <2>2, <2>5, Zenon DEF Collect
    <3>2. b.kept = t \o Prefix(text, room) /\ b.closed /\ SameOutside(a, b)
      BY <2>1, <3>1 DEF Accumulator, SameOutside
    <3>3. Bytes(t \o text) > limit
      BY <1>1, <2>2, <2>5
    <3>4. Prefix(t \o text, limit) = t \o Prefix(text, room)
      <4>1. Prefix(t \o text, limit) = t \o Prefix(text, limit - Bytes(t))
        BY <2>1, PrefixAcross
      <4>. QED  BY <2>2, <4>1
    <3>. QED  BY <1>3, <3>2, <3>3, <3>4 DEF Collected
  <2>. QED  BY <2>3, <2>4, <2>5
<1>. QED  BY <1>4, <1>5

\* What has been collected when the text f, from the start marker on, has been consumed.
Consumed(a, f, sel) ==
  /\ ~Given(sel.end) => ~a.ended /\ Collected(a, f, Limit(sel))
  /\ Given(sel.end) /\ a.ended =>
       LET at == FirstAt(f, Marker(sel.end))
       IN  at # 0 /\ Collected(a, SubSeq(f, 1, at + Len(Marker(sel.end)) - 1), Limit(sel))
  /\ Given(sel.end) /\ ~a.ended =>
       /\ FirstAt(f, Marker(sel.end)) = 0
       /\ \E t \in Seq(Char) : /\ f = t \o a.endTail
                               /\ t = <<>> \/ Len(a.endTail) = Len(Marker(sel.end)) - 1
                               /\ Collected(a, t, Limit(sel))

\* q is the last of c, and p what is before it, with t in front.
LeavesLast(p, q, t, c, keep) ==
  q = LastOf(c, keep) /\ p = AllButLast(c, keep) /\ Len(q) = keep /\ t \o c = (t \o p) \o q

LEMMA LastKept ==
  ASSUME NEW c \in Seq(Char), NEW keep \in Nat, NEW t \in Seq(Char), ~(Len(c) <= keep)
  PROVE  \E p, q \in Seq(Char) : LeavesLast(p, q, t, c, keep)
<1>1. PICK l \in Nat : l = Len(c) /\ keep <= l /\ keep < l
  BY LenProperties
<1>2. PICK q \in Seq(Char) : q = LastOf(c, keep) /\ Len(q) <= keep
  BY LastSplits
<1>3. \E a \in Seq(Char) : /\ c = a \o LastOf(c, keep)
                           /\ a = <<>> \/ Len(LastOf(c, keep)) = keep
                           /\ Len(LastOf(c, keep)) <= keep
                           /\ keep <= Len(c) => a = AllButLast(c, keep)
  BY LastSplits
<1>4. PICK p \in Seq(Char) : c = p \o q /\ (p = <<>> \/ Len(q) = keep) /\ p = AllButLast(c, keep)
  BY <1>1, <1>2, <1>3
<1>5. (t \o p) \o q = t \o (p \o q)
  <2>1. Associative(Char)
    BY ConcatIsAssociative
  <2>. QED  BY <1>2, <1>4, <2>1, Zenon DEF Associative
<1>6. p # <<>>
  BY <1>4, <1>1, <1>2, ConcatEmptySeq
<1>. QED  BY <1>2, <1>4, <1>5, <1>6 DEF LeavesLast

LEMMA ConsumeEnds ==
  ASSUME NEW a \in Accumulator, NEW f \in Seq(Char), NEW text \in Seq(Char), NEW sel, Selectable(sel),
         text # <<>>, ~a.ended, Given(sel.end), Consumed(a, f, sel)
  PROVE  LET b == ConsumeSelected(a, text, sel)
         IN  /\ b.seen = a.seen /\ b.tail = a.tail /\ b.active = a.active /\ b.startTail = a.startTail
             /\ Consumed(b, f \o text, sel)
<1>0. \A c \in Seq(Char), keep \in Nat, t \in Seq(Char) :
        ~(Len(c) <= keep) => \E p, q \in Seq(Char) : LeavesLast(p, q, t, c, keep)
  BY LastKept
<1>1. PICK e \in Seq(Char) \ {<<>>} : e = Marker(sel.end)
  BY MarkerType DEF Selectable, Given
<1>2. PICK limit \in Nat : limit = Limit(sel)
  BY LimitType
<1>3. PICK g \in Seq(Char) : g = a.endTail
  BY DEF Accumulator
<1>4. PICK t \in Seq(Char) : f = t \o g /\ (t = <<>> \/ Len(g) = Len(e) - 1) /\ Collected(a, t, limit)
  BY <1>1, <1>2, <1>3 DEF Consumed
<1>5. FirstAt(t \o g, e) = 0
  BY <1>1, <1>4 DEF Consumed
<1>6. PICK c \in Seq(Char) : c = g \o text
  BY ConcatProperties
<1>7. f \o text = t \o c
  <2>1. (t \o g) \o text = t \o (g \o text)
    <3>1. Associative(Char)
      BY ConcatIsAssociative
    <3>2. t \in Seq(Char) /\ g \in Seq(Char) /\ text \in Seq(Char)
      OBVIOUS
    <3>. QED  BY <3>1, <3>2, Zenon DEF Associative
  <2>. QED  BY <1>4, <1>6, <2>1
<1>8. PICK l \in Nat, keep \in Nat, h \in Nat, j \in Nat :
        /\ l = Len(c) /\ keep = Len(e) - 1 /\ h = Len(t) /\ j = Len(g)
        /\ l > j /\ l # 0
  <2>1. Len(e) \in Nat \ {0} /\ Len(text) \in Nat \ {0}
    BY EmptySeq
  <2>2. Len(g) \in Nat /\ Len(t) \in Nat /\ Len(c) = Len(g) + Len(text)
    BY <1>6, LenProperties, ConcatProperties
  <2>3. Len(e) - 1 \in Nat /\ Len(c) \in Nat /\ Len(c) > Len(g) /\ Len(c) # 0
    BY <2>1, <2>2
  <2>. QED  BY <2>2, <2>3
<1>9. PICK at \in Nat : at = FirstAt(c, e) /\ (at # 0 => at + keep \in 1..l)
  <2>1. FirstAt(c, e) \in 0..Len(c) /\ (FirstAt(c, e) # 0 => FirstAt(c, e) + Len(e) - 1 \in 1..Len(c))
    BY FirstAtIs
  <2>2. PICK at \in 0..l : at = FirstAt(c, e)
    BY <1>8, <2>1
  <2>3. at # 0 => at + Len(e) - 1 \in 1..l
    BY <1>8, <2>1, <2>2
  <2>4. at + Len(e) - 1 = at + keep
    BY <1>8, LenProperties
  <2>. QED  BY <2>2, <2>3, <2>4
<1>10. FirstAt(t \o c, e) = IF at = 0 THEN 0 ELSE h + at
  <2>1. FirstAt(t \o g, e) = 0 /\ (t = <<>> \/ Len(g) = Len(e) - 1)
    BY <1>4, <1>5
  <2>2. FirstAt(t \o (g \o text), e) = IF FirstAt(g \o text, e) = 0 THEN 0 ELSE Len(t) + FirstAt(g \o text, e)
    BY <2>1, FirstAcross
  <2>. QED  BY <1>6, <1>8, <1>9, <2>2
<1>11. PICK b : b = ConsumeSelected(a, text, sel)
  OBVIOUS
<1>12. CASE at # 0
  <2>1. PICK p \in Seq(Char) : p = SubSeq(c, 1, at + keep)
    <3>1. at + keep \in Nat /\ at + keep <= Len(c)
      BY <1>8, <1>9, <1>12
    <3>. QED  BY <3>1, Parts
  <2>2. PICK d : d = Collect(a, p, limit) /\ Collected(d, t \o p, limit) /\ SameOutside(a, d)
    BY <1>4, CollectSoundly
  <2>3. d \in Accumulator
    BY <2>2, CollectType
  <2>4. b = [d EXCEPT !.endTail = <<>>, !.ended = TRUE]
    BY <1>1, <1>2, <1>3, <1>6, <1>8, <1>9, <1>11, <1>12, <2>1, <2>2, Zenon DEF ConsumeSelected
  <2>5. /\ b.kept = d.kept /\ b.closed = d.closed /\ b.ended
        /\ b.seen = a.seen /\ b.tail = a.tail /\ b.active = a.active /\ b.startTail = a.startTail
    BY <2>2, <2>3, <2>4 DEF Accumulator, SameOutside
  <2>6. Collected(b, t \o p, limit)
    BY <2>2, <2>5 DEF Collected
  <2>7. SubSeq(t \o c, 1, h + (at + keep)) = t \o p
    <3>1. at + keep \in Nat /\ at + keep <= Len(c)
      BY <1>8, <1>9, <1>12
    <3>2. SubSeq(t \o c, 1, Len(t) + (at + keep)) = t \o SubSeq(c, 1, at + keep)
      BY <3>1, CutAcross
    <3>. QED  BY <1>8, <2>1, <3>2
  <2>8. FirstAt(t \o c, e) = h + at /\ h + at # 0 /\ (h + at) + Len(e) - 1 = h + (at + keep)
    BY <1>8, <1>10, <1>12, LenProperties
  <2>9. Consumed(b, t \o c, sel)
    BY <1>1, <1>2, <2>5, <2>6, <2>7, <2>8 DEF Consumed
  <2>. QED  BY <1>7, <1>11, <2>5, <2>9, Zenon
<1>13. CASE at = 0 /\ l <= keep
  <2>1. b = [a EXCEPT !.endTail = c]
    BY <1>1, <1>2, <1>3, <1>6, <1>8, <1>9, <1>11, <1>13, Zenon DEF ConsumeSelected
  <2>2. /\ b.kept = a.kept /\ b.closed = a.closed /\ b.ended = a.ended /\ b.endTail = c
        /\ b.seen = a.seen /\ b.tail = a.tail /\ b.active = a.active /\ b.startTail = a.startTail
    BY <2>1 DEF Accumulator
  <2>3. Collected(b, t, limit)
    BY <1>4, <2>2 DEF Collected
  <2>4. t = <<>>
    BY <1>4, <1>8, <1>13
  <2>5. FirstAt(t \o c, e) = 0
    BY <1>10, <1>13
  <2>6. Consumed(b, t \o c, sel)
    BY <1>1, <1>2, <2>2, <2>3, <2>4, <2>5 DEF Consumed
  <2>. QED  BY <1>7, <1>11, <2>2, <2>6, Zenon
<1>14. CASE at = 0 /\ ~(l <= keep)
  <2>1. ~(Len(c) <= keep) /\ c \in Seq(Char) /\ keep \in Nat /\ t \in Seq(Char)
    BY <1>4, <1>6, <1>8, <1>14
  <2>2. PICK p \in Seq(Char), q \in Seq(Char) :
          /\ q = LastOf(c, keep) /\ p = AllButLast(c, keep)
          /\ Len(q) = keep /\ t \o c = (t \o p) \o q
    <3>1. \E p, q \in Seq(Char) : LeavesLast(p, q, t, c, keep)
      BY <1>0, <2>1, Zenon
    <3>. QED  BY <3>1 DEF LeavesLast
  <2>3. PICK d : d = Collect(a, p, limit) /\ Collected(d, t \o p, limit) /\ SameOutside(a, d)
    BY <1>4, CollectSoundly
  <2>4. d \in Accumulator
    BY <2>3, CollectType
  <2>5. b = [d EXCEPT !.endTail = q]
    BY <1>1, <1>2, <1>3, <1>6, <1>8, <1>9, <1>11, <1>14, <2>2, <2>3, Zenon DEF ConsumeSelected
  <2>6. /\ b.kept = d.kept /\ b.closed = d.closed /\ b.ended = a.ended /\ b.endTail = q
        /\ b.seen = a.seen /\ b.tail = a.tail /\ b.active = a.active /\ b.startTail = a.startTail
    BY <2>3, <2>4, <2>5 DEF Accumulator, SameOutside
  <2>7. PICK tp \in Seq(Char) : tp = t \o p /\ Collected(b, tp, limit)
    BY <2>3, <2>6, ConcatProperties DEF Collected
  <2>8. t \o c = tp \o q
    BY <2>2, <2>7
  <2>9. FirstAt(t \o c, e) = 0
    BY <1>10, <1>14
  <2>10. Consumed(b, t \o c, sel)
    BY <1>1, <1>2, <1>8, <2>2, <2>6, <2>7, <2>8, <2>9 DEF Consumed
  <2>. QED  BY <1>7, <1>11, <2>6, <2>10, Zenon
<1>. QED  BY <1>12, <1>13, <1>14

LEMMA PieceBehind ==
  ASSUME NEW X, NEW a \in Seq(X), NEW c \in Seq(X), NEW n \in Nat, NEW k \in Nat, HasLen(a, n), HasLen(c, k)
  PROVE  SubSeq(a \o c, n + 1, n + k) = c
BY ConcatIs, Slice, SeqEqual DEF Concatenates, HasLen

LEMMA ConsumeSoundly ==
  ASSUME NEW a \in Accumulator, NEW f \in Seq(Char), NEW text \in Seq(Char), NEW sel, Selectable(sel),
         text # <<>>, ~a.ended, Consumed(a, f, sel)
  PROVE  LET b == ConsumeSelected(a, text, sel)
         IN  /\ b.seen = a.seen /\ b.tail = a.tail /\ b.active = a.active /\ b.startTail = a.startTail
             /\ Consumed(b, f \o text, sel)
<1>1. CASE Given(sel.end)
  BY <1>1, ConsumeEnds
<1>2. CASE ~Given(sel.end)
  BY <1>2, LimitType, CollectSoundly DEF Consumed, ConsumeSelected, SameOutside
<1>. QED  BY <1>1, <1>2

\* Nothing changes what lies between the markers once the end has been found.
LEMMA EndStays ==
  ASSUME NEW a, NEW b, NEW f \in Seq(Char), NEW text \in Seq(Char), NEW sel, Selectable(sel),
         a.ended, Consumed(a, f, sel),
         b.kept = a.kept, b.closed = a.closed, b.ended = a.ended
  PROVE  Consumed(b, f \o text, sel)
<1>1. Given(sel.end)
  BY DEF Consumed
<1>2. PICK e \in Seq(Char) \ {<<>>} : e = Marker(sel.end)
  BY <1>1, MarkerType DEF Selectable, Given
<1>3. PICK at \in Nat \ {0} : at = FirstAt(f, e)
  BY <1>1, <1>2, FirstAtIs, LenProperties DEF Consumed
<1>4. PICK n \in Nat : n = at + Len(e) - 1 /\ n <= Len(f)
  BY <1>3, FirstAtIs, LenProperties
<1>5. FirstAt(f \o text, e) = at
  BY <1>3, FirstStays
<1>6. SubSeq(f \o text, 1, n) = SubSeq(f, 1, n)
  BY <1>4, CutWithin
<1>7. Collected(a, SubSeq(f, 1, n), Limit(sel))
  BY <1>1, <1>2, <1>3, <1>4 DEF Consumed
<1>8. Collected(b, SubSeq(f \o text, 1, n), Limit(sel))
  BY <1>6, <1>7 DEF Collected
<1>. QED  BY <1>1, <1>2, <1>3, <1>4, <1>5, <1>8 DEF Consumed

\* The text from the first start marker on.
From(s, sel) == IF Given(sel.start) THEN SubSeq(s, FirstAt(s, Marker(sel.start)), Len(s)) ELSE s

LEMMA FromConcat ==
  ASSUME NEW sel, Selectable(sel), NEW s \in Seq(Char), NEW text \in Seq(Char),
         Given(sel.start) => FirstAt(s, Marker(sel.start)) # 0
  PROVE  /\ From(s, sel) \in Seq(Char)
         /\ From(s \o text, sel) = From(s, sel) \o text
         /\ Given(sel.start) => FirstAt(s \o text, Marker(sel.start)) # 0
<1>0. /\ \A x, y \in Seq(Char) : (x \o y) \o text = x \o (y \o text)
      /\ \A a, c \in Seq(Char), n, k \in Nat :
           HasLen(a, n) /\ HasLen(c, k) => SubSeq(a \o c, n + 1, n + k) = c
  BY ConcatAssociative, PieceBehind
<1>1. CASE ~Given(sel.start)
  BY <1>1 DEF From
<1>2. CASE Given(sel.start)
  <2>1. PICK m \in Seq(Char) \ {<<>>} : m = Marker(sel.start)
    BY <1>2, MarkerType DEF Selectable, Given
  <2>2. FirstAt(s, m) \in 0..Len(s) /\ FirstAt(s, m) # 0
    BY <1>2, <2>1, FirstAtIs
  <2>3. PICK n \in Nat : n + 1 = FirstAt(s, m) /\ n + 1 <= Len(s)
    <3>1. PICK l \in Nat : l = Len(s)
      BY LenProperties
    <3>2. FirstAt(s, m) \in 1..l
      BY <2>2, <3>1
    <3>3. FirstAt(s, m) - 1 \in Nat /\ (FirstAt(s, m) - 1) + 1 = FirstAt(s, m) /\ FirstAt(s, m) <= l
      BY <3>2
    <3>. QED  BY <3>1, <3>3
  <2>4. FirstAt(s \o text, m) = n + 1
    BY <2>2, <2>3, FirstStays
  <2>5. PICK l \in Nat, j \in Nat : l = Len(s) /\ j = Len(text)
    BY LenProperties
  <2>6. s \o text \in Seq(Char) /\ Len(s \o text) = l + j
    BY <2>5, ConcatProperties
  <2>7. PICK a \in Seq(Char), b \in Seq(Char) : a = SubSeq(s, 1, n) /\ b = SubSeq(s, n + 1, l) /\ s = a \o b /\ Len(a) = n
    <3>1. n \in Nat /\ n <= Len(s)
      BY <2>3, LenProperties
    <3>2. SubSeq(s, 1, n) \in Seq(Char) /\ SubSeq(s, n + 1, Len(s)) \in Seq(Char)
          /\ s = SubSeq(s, 1, n) \o SubSeq(s, n + 1, Len(s))
      BY <3>1, Parts
    <3>3. PICK zero \in Nat : zero = 0
      OBVIOUS
    <3>4. Len(SubSeq(s, zero + 1, n)) = (IF zero < n THEN n - zero ELSE 0)
      BY <3>1, Slice
    <3>5. zero + 1 = 1 /\ (IF zero < n THEN n - zero ELSE 0) = n
      BY <3>3
    <3>. QED  BY <2>5, <3>2, <3>4, <3>5
  <2>8. SubSeq(s \o text, n + 1, l + j) = b \o text
    <3>1. PICK c \in Seq(Char) : c = b \o text
      BY ConcatProperties
    <3>2. s \o text = a \o c
      <4>1. (a \o b) \o text = a \o (b \o text)
        BY <1>0, <2>7, Zenon
      <4>. QED  BY <2>7, <3>1, <4>1
    <3>3. Len(a \o c) = n + Len(c) /\ Len(c) \in Nat
      BY <2>7, ConcatProperties, LenProperties
    <3>4. PICK k \in Nat : k = Len(c) /\ l + j = n + k
      BY <2>6, <3>2, <3>3
    <3>5. SubSeq(a \o c, n + 1, n + k) = c
      <4>1. HasLen(a, n) /\ HasLen(c, k)
        BY <2>7, <3>4 DEF HasLen
      <4>2. n \in Nat /\ k \in Nat /\ a \in Seq(Char) /\ c \in Seq(Char)
        BY <2>3, <2>7, <3>1, <3>4
      <4>. QED  BY <1>0, <4>1, <4>2, Zenon
    <3>. QED  BY <3>1, <3>2, <3>4, <3>5
  <2>9. From(s, sel) = b
    BY <1>2, <2>1, <2>3, <2>5, <2>7 DEF From
  <2>10. From(s \o text, sel) = b \o text
    BY <1>2, <2>1, <2>4, <2>6, <2>8 DEF From
  <2>11. FirstAt(s \o text, Marker(sel.start)) # 0
    BY <2>1, <2>2, <2>3, <2>4
  <2>. QED  BY <2>7, <2>9, <2>10, <2>11
<1>. QED  BY <1>1, <1>2

-----------------------------------------------------------------------------
(* The selection of a log: what the accumulator is, at any time. *)

\* What the accumulator holds is what Selection asks for, of the text seen so far.
Selecting(a, sel) ==
  /\ Given(sel.tail) => a.tail = LastOf(Encode(a.seen), Min({sel.tail, Limit(sel)}))
  /\ ~Given(sel.tail) /\ a.active =>
       /\ Given(sel.start) => FirstAt(a.seen, Marker(sel.start)) # 0
       /\ Consumed(a, From(a.seen, sel), sel)
  /\ ~Given(sel.tail) /\ ~a.active =>
       /\ Given(sel.start) /\ FirstAt(a.seen, Marker(sel.start)) = 0
       /\ a.startTail = LastOf(a.seen, Len(Marker(sel.start)) - 1)
       /\ ~a.ended /\ a.endTail = <<>> /\ Collected(a, <<>>, Limit(sel))

LEMMA ConsumedSame ==
  ASSUME NEW a, NEW b, NEW f, NEW sel, Consumed(a, f, sel),
         b.kept = a.kept, b.closed = a.closed, b.ended = a.ended, b.endTail = a.endTail
  PROVE  Consumed(b, f, sel)
BY DEF Collected, Consumed

LEMMA NothingCollected ==
  ASSUME NEW a, NEW limit \in Nat, a.kept = <<>>, ~a.closed
  PROVE  Collected(a, <<>>, limit)
<1>1. PICK s \in Seq(Char) : s = <<>>
  BY EmptySeq
<1>2. Bytes(s) = 0
  BY <1>1, EncodeAppend, EmptySeq DEF Bytes
<1>3. Prefix(s, limit) = s
  BY <1>2, PrefixWhole
<1>. QED  BY <1>1, <1>2, <1>3 DEF Collected

LEMMA NothingConsumed ==
  ASSUME NEW a, NEW sel, Selectable(sel), ~a.ended, a.endTail = <<>>, Collected(a, <<>>, Limit(sel))
  PROVE  Consumed(a, <<>>, sel)
<1>1. PICK s \in Seq(Char) : s = <<>>
  BY EmptySeq
<1>2. CASE ~Given(sel.end)
  BY <1>2 DEF Consumed
<1>3. CASE Given(sel.end)
  <2>1. PICK m \in Seq(Char) \ {<<>>} : m = Marker(sel.end)
    BY <1>3, MarkerType DEF Selectable, Given
  <2>2. FirstAt(s, m) = 0
    <3>1. FirstAt(s, m) \in 0..Len(s) /\ Len(s) = 0
      BY <1>1, FirstAtIs, EmptySeq
    <3>. QED  BY <3>1
  <2>3. s = s \o a.endTail
    BY <1>1, ConcatEmptySeq
  <2>. QED  BY <1>1, <1>3, <2>1, <2>2, <2>3 DEF Consumed
<1>. QED  BY <1>2, <1>3

LEMMA NewEvidenceSelects ==
  ASSUME NEW sel, Selectable(sel)
  PROVE  Selecting(NewEvidence(sel), sel)
<1>1. PICK s, a : s \in Seq(Char) /\ s = <<>> /\ a = NewEvidence(sel)
  BY EmptySeq
<1>2. /\ a.seen = s /\ a.kept = <<>> /\ ~a.closed /\ a.tail = <<>> /\ a.active = (~Given(sel.start))
      /\ ~a.ended /\ a.startTail = <<>> /\ a.endTail = <<>>
  BY <1>1 DEF NewEvidence
<1>3. Collected(a, <<>>, Limit(sel))
  BY <1>2, LimitType, NothingCollected
<1>4. ASSUME NEW X, NEW e \in Seq(X), e = <<>>, NEW n \in Nat
      PROVE  LastOf(e, n) = <<>>
  <2>1. /\ LastOf(e, n) \in Seq(X)
        /\ \E b \in Seq(X) : /\ e = b \o LastOf(e, n)
                             /\ b = <<>> \/ Len(LastOf(e, n)) = n
                             /\ Len(LastOf(e, n)) <= n
                             /\ n <= Len(e) => b = AllButLast(e, n)
    BY LastSplits
  <2>3. PICK b \in Seq(X), w \in Seq(X) : e = b \o w /\ w = LastOf(e, n)
    BY <2>1
  <2>4. Len(b \o w) = Len(b) + Len(w) /\ Len(b) \in Nat /\ Len(w) \in Nat /\ Len(e) = 0
    BY <1>4, ConcatProperties, LenProperties, EmptySeq
  <2>5. Len(w) = 0
    BY <2>3, <2>4
  <2>. QED  BY <2>3, <2>5, EmptySeq
<1>5. CASE Given(sel.tail)
  <2>1. PICK e \in Seq(Byte) : e = Encode(s) /\ e = <<>>
    BY <1>1, EncodeAppend, EncodeType
  <2>2. PICK n \in Nat : n = Min({sel.tail, Limit(sel)})
    BY <1>5, LimitType, MinIs DEF Selectable, Given
  <2>3. LastOf(e, n) = <<>>
    BY <1>4, <2>1
  <2>. QED  BY <1>1, <1>2, <1>5, <2>1, <2>2, <2>3 DEF Selecting
<1>6. CASE ~Given(sel.tail) /\ ~Given(sel.start)
  BY <1>2, <1>3, <1>6, <1>1, NothingConsumed DEF From, Selecting
<1>7. CASE ~Given(sel.tail) /\ Given(sel.start)
  <2>1. PICK m \in Seq(Char) \ {<<>>} : m = Marker(sel.start) /\ Len(m) - 1 \in Nat
    BY <1>7, MarkerType DEF Selectable, Given
  <2>2. FirstAt(s, m) = 0
    <3>1. FirstAt(s, m) \in 0..Len(s) /\ Len(s) = 0
      BY <1>1, FirstAtIs, EmptySeq
    <3>. QED  BY <3>1
  <2>3. LastOf(s, Len(m) - 1) = <<>>
    BY <1>1, <1>4, <2>1
  <2>. QED  BY <1>1, <1>2, <1>3, <1>7, <2>1, <2>2, <2>3 DEF Selecting
<1>. QED  BY <1>5, <1>6, <1>7

\* The text c from a place on, also behind p.
Rest(w, X, p, c, at) ==
  /\ w \in Seq(X) /\ w # <<>>
  /\ SubSeq(c, at, Len(c)) = w /\ SubSeq(p \o c, Len(p) + at, Len(p \o c)) = w

LEMMA FromBehind ==
  ASSUME NEW X, NEW p \in Seq(X), NEW c \in Seq(X), NEW at \in 1..Len(c)
  PROVE  \E w : Rest(w, X, p, c, at)
<1>0. \A x, y \in Seq(X) : (p \o x) \o y = p \o (x \o y)
  <2>1. Associative(X)
    BY ConcatIsAssociative
  <2>. QED  BY <2>1, Zenon DEF Associative
<1>a. \A x, y \in Seq(X), n, k \in Nat :
        HasLen(x, n) /\ HasLen(y, k) => SubSeq(x \o y, n + 1, n + k) = y
  BY PieceBehind
<1>1. PICK n \in Nat, h \in Nat, l \in Nat : n + 1 = at /\ h = Len(p) /\ l = Len(c) /\ n + 1 <= l
  <2>1. Len(p) \in Nat /\ Len(c) \in Nat
    BY LenProperties
  <2>2. at - 1 \in Nat /\ (at - 1) + 1 = at /\ (at - 1) + 1 <= Len(c)
    BY <2>1
  <2>. QED  BY <2>1, <2>2
<1>2. PICK a \in Seq(X), b \in Seq(X) : a = SubSeq(c, 1, n) /\ b = SubSeq(c, n + 1, l) /\ c = a \o b
  <2>1. n \in Nat /\ n <= Len(c)
    BY <1>1
  <2>2. /\ SubSeq(c, 1, n) \in Seq(X) /\ SubSeq(c, n + 1, Len(c)) \in Seq(X)
        /\ c = SubSeq(c, 1, n) \o SubSeq(c, n + 1, Len(c))
    BY <2>1, Parts
  <2>. QED  BY <1>1, <2>2
<1>3. Len(a) = n
  BY <1>1, <1>2, Slice
<1>4. PICK k \in Nat : k = Len(b) /\ l = n + k /\ k # 0
  <2>1. Len(a \o b) = Len(a) + Len(b) /\ Len(b) \in Nat
    BY ConcatProperties, LenProperties
  <2>2. l = n + Len(b)
    BY <1>1, <1>2, <1>3, <2>1
  <2>. QED  BY <1>1, <2>1, <2>2
<1>5. PICK q \in Seq(X) : q = p \o a /\ Len(q) = h + n
  BY <1>1, <1>3, ConcatProperties
<1>6. p \o c = q \o b
  <2>1. (p \o a) \o b = p \o (a \o b)
    BY <1>0, Zenon
  <2>. QED  BY <1>2, <1>5, <2>1
<1>7. PICK g \in Nat : g = h + n /\ g + 1 = Len(p) + at /\ g + k = Len(p \o c)
  <2>1. Len(p \o c) = Len(p) + Len(c)
    BY ConcatProperties
  <2>2. Len(p \o c) = h + l /\ Len(p) + at = h + (n + 1)
    BY <1>1, <2>1
  <2>3. h + n \in Nat /\ (h + n) + 1 = h + (n + 1) /\ (h + n) + k = h + l
    BY <1>4
  <2>. QED  BY <2>2, <2>3
<1>8. SubSeq(q \o b, g + 1, g + k) = b
  <2>1. HasLen(q, g) /\ HasLen(b, k)
    BY <1>4, <1>5, <1>7 DEF HasLen
  <2>. QED  BY <1>a, <2>1, Zenon
<1>9. b # <<>>
  BY <1>4, EmptySeq
<1>. QED  BY <1>1, <1>2, <1>6, <1>7, <1>8, <1>9 DEF Rest

LEMMA SeekSelects ==
  ASSUME NEW sel, Selectable(sel), NEW a \in Accumulator, NEW text \in Seq(Char), NEW s \in Seq(Char),
         ~Given(sel.tail), ~a.active, Given(sel.start), ~a.ended,
         FirstAt(s, Marker(sel.start)) = 0, a.seen = s \o text,
         a.startTail = LastOf(s, Len(Marker(sel.start)) - 1),
         a.endTail = <<>>, Collected(a, <<>>, Limit(sel))
  PROVE  text # <<>> => /\ Selecting(SeekStart(a, text, sel), sel)
                        /\ SeekStart(a, text, sel).seen = a.seen
<1> SUFFICES ASSUME text # <<>>
             PROVE  Selecting(SeekStart(a, text, sel), sel) /\ SeekStart(a, text, sel).seen = a.seen
  OBVIOUS
<1>1. PICK m \in Seq(Char) \ {<<>>}, keep \in Nat : m = Marker(sel.start) /\ keep = Len(m) - 1
  BY MarkerType DEF Selectable, Given
<1>2. PICK u \in Seq(Char) : u = a.startTail /\ u = LastOf(s, keep)
  BY <1>1, LastSplits
<1>3. PICK p \in Seq(Char) : s = p \o u /\ (p = <<>> \/ Len(u) = keep)
  <2>1. /\ LastOf(s, keep) \in Seq(Char)
        /\ \E x \in Seq(Char) : /\ s = x \o LastOf(s, keep)
                                /\ x = <<>> \/ Len(LastOf(s, keep)) = keep
                                /\ Len(LastOf(s, keep)) <= keep
                                /\ keep <= Len(s) => x = AllButLast(s, keep)
    BY LastSplits
  <2>. QED  BY <1>2, <2>1
<1>4. PICK c \in Seq(Char) : c = u \o text /\ a.seen = p \o c
  <2>1. (p \o u) \o text = p \o (u \o text)
    <3>1. Associative(Char)
      BY ConcatIsAssociative
    <3>. QED  BY <3>1, Zenon DEF Associative
  <2>2. u \o text \in Seq(Char)
    BY ConcatProperties
  <2>. QED  BY <1>3, <2>1, <2>2
<1>5. PICK at \in Nat : at = FirstAt(c, m) /\ (at # 0 => at \in 1..Len(c))
  <2>1. FirstAt(c, m) \in 0..Len(c) /\ Len(c) \in Nat
    BY FirstAtIs, LenProperties
  <2>. QED  BY <2>1
<1>6. FirstAt(a.seen, m) = IF at = 0 THEN 0 ELSE Len(p) + at
  <2>1. FirstAt(p \o u, m) = 0 /\ (p = <<>> \/ Len(u) = Len(m) - 1)
    BY <1>1, <1>3
  <2>2. FirstAt(p \o (u \o text), m) = IF FirstAt(u \o text, m) = 0 THEN 0 ELSE Len(p) + FirstAt(u \o text, m)
    BY <2>1, FirstAcross
  <2>. QED  BY <1>4, <1>5, <2>2
<1>7. CASE at = 0
  <2>1. PICK b : b = [a EXCEPT !.startTail = LastOf(c, keep)] /\ b = SeekStart(a, text, sel)
    BY <1>1, <1>2, <1>4, <1>5, <1>7, Zenon DEF SeekStart
  <2>2. /\ b.seen = a.seen /\ b.kept = a.kept /\ b.closed = a.closed /\ b.active = a.active
        /\ b.ended = a.ended /\ b.endTail = a.endTail /\ b.startTail = LastOf(c, keep)
    BY <2>1 DEF Accumulator
  <2>3. LastOf(c, keep) = LastOf(a.seen, keep)
    <3>1. LastOf(LastOf(s, keep) \o text, keep) = LastOf(s \o text, keep)
      BY LastOfConcat
    <3>. QED  BY <1>2, <1>4, <3>1
  <2>4. Collected(b, <<>>, Limit(sel))
    BY <2>2 DEF Collected
  <2>5. Selecting(b, sel)
    BY <1>1, <1>6, <1>7, <2>2, <2>3, <2>4 DEF Selecting
  <2>. QED  BY <2>1, <2>2, <2>5
<1>8. CASE at # 0
  <2>1. PICK d \in Accumulator : d = [a EXCEPT !.active = TRUE, !.startTail = <<>>]
    BY EmptySeq DEF Accumulator
  <2>2. /\ d.seen = a.seen /\ d.kept = a.kept /\ d.closed = a.closed /\ d.active
        /\ d.ended = a.ended /\ d.endTail = a.endTail
    BY <2>1 DEF Accumulator
  <2>3. Collected(d, <<>>, Limit(sel))
    BY <2>2 DEF Collected
  <2>4. Consumed(d, <<>>, sel)
    BY <2>2, <2>3, NothingConsumed
  <2>5. PICK w \in Seq(Char) : /\ w = SubSeq(c, at, Len(c)) /\ w # <<>>
                               /\ SubSeq(p \o c, Len(p) + at, Len(p \o c)) = w
    <3>1. at \in 1..Len(c)
      BY <1>5, <1>8
    <3>2. \E w : Rest(w, Char, p, c, at)
      BY <3>1, FromBehind
    <3>. QED  BY <3>2 DEF Rest
  <2>6. PICK b : b = ConsumeSelected(d, w, sel) /\ b = SeekStart(a, text, sel)
    BY <1>1, <1>2, <1>4, <1>5, <1>8, <2>1, <2>5, Zenon DEF SeekStart
  <2>7. PICK e \in Seq(Char) : e = <<>> /\ e \o w = w
    BY EmptySeq, ConcatEmptySeq
  <2>8. /\ b.seen = d.seen /\ b.active = d.active /\ Consumed(b, e \o w, sel)
    <3>1. Consumed(d, e, sel) /\ ~d.ended
      BY <2>2, <2>4, <2>7
    <3>2. LET f == ConsumeSelected(d, w, sel)
          IN  /\ f.seen = d.seen /\ f.tail = d.tail /\ f.active = d.active /\ f.startTail = d.startTail
              /\ Consumed(f, e \o w, sel)
      BY <2>5, <3>1, ConsumeSoundly
    <3>. QED  BY <2>6, <3>2
  <2>9. From(b.seen, sel) = w
    BY <1>1, <1>4, <1>6, <1>8, <2>2, <2>5, <2>8 DEF From
  <2>10. FirstAt(b.seen, Marker(sel.start)) # 0
    BY <1>8, <1>1, <1>6, <2>2, <2>8, LenProperties
  <2>11. Selecting(b, sel)
    BY <2>2, <2>7, <2>8, <2>9, <2>10 DEF Selecting
  <2>. QED  BY <2>2, <2>6, <2>8, <2>11
<1>. QED  BY <1>7, <1>8

LEMMA AddTextSelects ==
  ASSUME NEW sel, Selectable(sel), Given(sel.tail) => ~Given(sel.start) /\ ~Given(sel.end),
         NEW a \in Fitting(sel), Selecting(a, sel), NEW chunk \in Seq(Char)
  PROVE  /\ Selecting(AddText(a, chunk, sel), sel)
         /\ AddText(a, chunk, sel).seen = a.seen \o Inert(chunk)
<1>0. a \in Accumulator
  BY DEF Fitting
<1>1. PICK text \in Seq(Char), s \in Seq(Char) : text = Inert(chunk) /\ s = a.seen
  BY <1>0, InertType DEF Accumulator
<1>2. PICK next \in Accumulator : next = [a EXCEPT !.seen = @ \o text] /\ next.seen = s \o text
  <2>1. PICK whole \in Seq(Char) : whole = s \o text /\ whole = a.seen \o text
    BY <1>1, ConcatProperties
  <2>2. [a EXCEPT !.seen = whole] \in Accumulator /\ [a EXCEPT !.seen = whole].seen = whole
    BY <1>0, <2>1 DEF Accumulator
  <2>. QED  BY <2>1, <2>2
<1>3. /\ next.kept = a.kept /\ next.closed = a.closed /\ next.tail = a.tail /\ next.active = a.active
      /\ next.ended = a.ended /\ next.startTail = a.startTail /\ next.endTail = a.endTail
  BY <1>0, <1>2 DEF Accumulator
<1>4. PICK b : b = AddText(a, chunk, sel)
  OBVIOUS
<1>5. CASE text = <<>>
  BY <1>1, <1>4, <1>5, ConcatEmptySeq DEF AddText
<1>6. CASE text # <<>> /\ Given(sel.tail)
  <2>1. PICK n \in Nat : n = Min({sel.tail, Limit(sel)})
    BY <1>6, LimitType, MinIs DEF Selectable, Given
  <2>2. PICK e \in Seq(Byte), d \in Seq(Byte) : e = Encode(s) /\ d = Encode(text)
    BY EncodeType
  <2>3. b = [next EXCEPT !.tail = LastOf(next.tail \o d, n)]
    BY <1>1, <1>2, <1>4, <1>6, <2>1, <2>2 DEF AddText, KeepTail
  <2>4. b.tail = LastOf(next.tail \o d, n) /\ b.seen = s \o text
    BY <1>2, <2>3 DEF Accumulator
  <2>5. next.tail = LastOf(e, n)
    BY <1>1, <1>3, <1>6, <2>1, <2>2 DEF Selecting
  <2>6. LastOf(LastOf(e, n) \o d, n) = LastOf(e \o d, n)
    BY LastOfConcat
  <2>7. Encode(s \o text) = e \o d
    BY <2>2, EncodeConcat
  <2>8. b.tail = LastOf(Encode(b.seen), Min({sel.tail, Limit(sel)}))
    BY <2>1, <2>4, <2>5, <2>6, <2>7
  <2>9. Selecting(b, sel)
    BY <1>6, <2>8 DEF Selecting
  <2>. QED  BY <1>1, <1>4, <2>4, <2>9
<1>7. ASSUME text # <<>>, ~Given(sel.tail), a.active
      PROVE  Selecting(b, sel) /\ b.seen = s \o text
  <2>1. (Given(sel.start) => FirstAt(s, Marker(sel.start)) # 0) /\ Consumed(a, From(s, sel), sel)
    BY <1>1, <1>7 DEF Selecting
  <2>2. /\ From(s, sel) \in Seq(Char)
        /\ From(s \o text, sel) = From(s, sel) \o text
        /\ Given(sel.start) => FirstAt(s \o text, Marker(sel.start)) # 0
    BY <2>1, FromConcat
  <2>3. PICK f \in Seq(Char) : f = From(s, sel) /\ From(s \o text, sel) = f \o text
    BY <2>2
  <2>4. Consumed(a, f, sel)
    BY <2>1, <2>3
  <2>5. CASE a.ended
    <3>1. b = next
      BY <1>1, <1>2, <1>4, <1>7, <2>5, Zenon DEF AddText
    <3>2. Consumed(b, f \o text, sel)
      BY <1>3, <3>1, <2>4, <2>5, EndStays
    <3>. QED  BY <1>2, <1>3, <1>7, <2>2, <2>3, <3>1, <3>2 DEF Selecting
  <2>6. CASE ~a.ended
    <3>1. b = ConsumeSelected(next, text, sel)
      BY <1>1, <1>2, <1>4, <1>7, <2>6, Zenon DEF AddText
    <3>2. Consumed(next, f, sel)
      BY <1>3, <2>4, ConsumedSame
    <3>3. ~next.ended
      BY <1>3, <2>6
    <3>4. LET g == ConsumeSelected(next, text, sel)
          IN  /\ g.seen = next.seen /\ g.tail = next.tail /\ g.active = next.active
              /\ g.startTail = next.startTail
              /\ Consumed(g, f \o text, sel)
      BY <1>7, <3>2, <3>3, ConsumeSoundly
    <3>5. b.seen = s \o text /\ b.active /\ Consumed(b, f \o text, sel)
      BY <1>2, <1>3, <1>7, <3>1, <3>4
    <3>. QED  BY <1>7, <2>2, <2>3, <3>5 DEF Selecting
  <2>. QED  BY <2>5, <2>6
<1>8. ASSUME text # <<>>, ~Given(sel.tail), ~a.active
      PROVE  Selecting(b, sel) /\ b.seen = s \o text
  <2>1. /\ Given(sel.start) /\ FirstAt(s, Marker(sel.start)) = 0
        /\ a.startTail = LastOf(s, Len(Marker(sel.start)) - 1)
        /\ ~a.ended /\ a.endTail = <<>> /\ Collected(a, <<>>, Limit(sel))
    BY <1>1, <1>8 DEF Selecting
  <2>2. b = SeekStart(next, text, sel)
    BY <1>1, <1>2, <1>4, <1>8, <2>1, Zenon DEF AddText
  <2>3. Collected(next, <<>>, Limit(sel))
    BY <1>3, <2>1 DEF Collected
  <2>4. /\ ~next.active /\ ~next.ended /\ next.endTail = <<>>
        /\ next.startTail = LastOf(s, Len(Marker(sel.start)) - 1)
    BY <1>3, <1>8, <2>1
  <2>5. text # <<>> => /\ Selecting(SeekStart(next, text, sel), sel)
                       /\ SeekStart(next, text, sel).seen = next.seen
    BY <1>2, <1>8, <2>1, <2>3, <2>4, SeekSelects
  <2>. QED  BY <1>2, <1>8, <2>2, <2>5
<1>. QED  BY <1>1, <1>4, <1>5, <1>6, <1>7, <1>8

\* What is delivered of it is what the reference selects from the whole.
LEMMA FinishSelects ==
  ASSUME NEW sel, Selectable(sel), Given(sel.tail) => ~Given(sel.start) /\ ~Given(sel.end),
         NEW a \in Fitting(sel), Selecting(a, sel)
  PROVE  Finish(a, sel) = Selection(a.seen, sel)
<1>1. PICK s \in Seq(Char) : s = a.seen
  BY DEF Fitting, Accumulator
<1>2. CASE Given(sel.tail)
  BY <1>1, <1>2 DEF Selecting, Finish, Suffix, LastOf, Bytes, Selection
<1>3. CASE ~Given(sel.tail) /\ ~a.active
  BY <1>1, <1>3 DEF Selecting, Finish, Selection
<1>4. CASE ~Given(sel.tail) /\ a.active
  <2> DEFINE start == IF Given(sel.start) THEN FirstAt(s, Marker(sel.start)) ELSE 1
             from == SubSeq(s, start, Len(s))
             end == FirstAt(from, Marker(sel.end))
             cut == IF Given(sel.end) THEN SubSeq(from, 1, end + Len(Marker(sel.end)) - 1) ELSE from
  <2>1. (Given(sel.start) => FirstAt(s, Marker(sel.start)) # 0) /\ Consumed(a, From(s, sel), sel)
    BY <1>1, <1>4 DEF Selecting
  <2>2. start # 0
    BY <2>1
  <2>3. from = From(s, sel)
    <3>1. SubSeq(s, 1, Len(s)) = s
      BY LenProperties, EmptySeq, ConcatEmptySeq, PieceBehind DEF HasLen
    <3>2. CASE Given(sel.start)
      BY <3>2 DEF From
    <3>3. CASE ~Given(sel.start)
      BY <3>1, <3>3 DEF From
    <3>. QED  BY <3>2, <3>3
  <2>4. Consumed(a, from, sel)
    BY <2>1, <2>3
  <2>5. CASE Given(sel.end) /\ ~a.ended
    <3>1. end = 0
      BY <2>4, <2>5 DEF Consumed
    <3>2. Finish(a, sel) = None
      BY <2>5 DEF Finish
    <3>3. Selection(s, sel) = None
      <4> HIDE DEF start, from, end, cut
      <4>1. Selection(s, sel) =
              CASE Given(sel.tail) -> Evidence(Suffix(s, Min({sel.tail, Limit(sel)})), s)
                [] ~Given(sel.tail) /\ (start = 0 \/ (Given(sel.end) /\ end = 0)) -> None
                [] OTHER -> Evidence(Prefix(cut, Limit(sel)), s)
        BY Zenon DEF Selection, start, from, end, cut
      <4>. QED  BY <1>4, <2>5, <3>1, <4>1, Zenon
    <3>. QED  BY <1>1, <3>2, <3>3
  <2>6. CASE ~(Given(sel.end) /\ ~a.ended)
    <3>1. Given(sel.end) => end # 0
      BY <2>4, <2>6 DEF Consumed
    <3>2. Collected(a, cut, Limit(sel))
      BY <2>4, <2>6 DEF Consumed
    <3>3. a.kept = Prefix(cut, Limit(sel))
      BY <3>2 DEF Collected
    <3>4. Finish(a, sel) = Evidence(a.kept, s)
      BY <1>1, <1>4, <2>6 DEF Finish
    <3>5. Selection(s, sel) = Evidence(Prefix(cut, Limit(sel)), s)
      <4> HIDE DEF start, from, end, cut
      <4>1. Selection(s, sel) =
              CASE Given(sel.tail) -> Evidence(Suffix(s, Min({sel.tail, Limit(sel)})), s)
                [] ~Given(sel.tail) /\ (start = 0 \/ (Given(sel.end) /\ end = 0)) -> None
                [] OTHER -> Evidence(Prefix(cut, Limit(sel)), s)
        BY Zenon DEF Selection, start, from, end, cut
      <4>. QED  BY <1>4, <2>2, <3>1, <4>1, Zenon
    <3>. QED  BY <1>1, <3>3, <3>4, <3>5
  <2>. QED  BY <2>5, <2>6
<1>. QED  BY <1>2, <1>3, <1>4

LogSelecting == call.tool \in {"job_logs", "run_logs"} => Selecting(acc, call.sel)

\* The markers and the tail are not asked for together.
LEMMA LogSelectable ==
  ASSUME RequestOfTool, RunSound, call.tool \in LogTools
  PROVE  Selectable(call.sel) /\ (Given(call.sel.tail) => ~Given(call.sel.start) /\ ~Given(call.sel.end))
BY LogReadsAssumption, LogCall DEF RequestOfTool, call, Given

\* The log of a job, or of every job, reaches the accumulator as text that is added.
LEMMA LogStepAdds ==
  ASSUME RequestOfTool, RunSound, LogSound, LogStep, call.tool \in {"job_logs", "run_logs"}
  PROVE  acc' = acc \/ \E chunk \in Seq(Char) : acc' = AddText(acc, chunk, call.sel)
<1>1. LogNext /\ call.tool \in LogTools /\ call.tool # "failed_logs"
  BY DEF LogStep, LogTools
<1>2. Stop \/ DeliverEvidence => acc' = acc
  BY DEF Stop, DeliverEvidence, logVars, streamVars
<1>3. CASE ReadJob \/ ReadAttempt
  BY <1>3, <1>2 DEF ReadJob, ReadAttempt, streamVars
<1>4. ASSUME NEW entries, WithAllJobs(entries) PROVE acc' = acc
  BY <1>4, <1>2 DEF WithAllJobs, streamVars
<1>5. CASE ReadMember
  BY <1>5, <1>2 DEF ReadMember, streamVars
<1>6. CASE ReadList
  BY <1>6, <1>2, <1>4 DEF ReadList, streamVars
<1>7. CASE OpenLog
  <2>1. Stop \/ acc' = acc \/ acc' = AddText(acc, <<Newline>>, call.sel)
    BY <1>7 DEF OpenLog
  <2>2. <<Newline>> \in Seq(Char)
    BY LogReadsAssumption
  <2>. QED  BY <1>2, <2>1, <2>2
<1>8. CASE TakeChunk
  <2>1. PICK n \in 1..Min({ChunkBytes, Len(wire)}) :
          acc' = AddText(acc, Complete(pending \o SubSeq(wire, 1, n)).text, call.sel)
    BY <1>8 DEF TakeChunk
  <2>2. n \in Int /\ n <= Len(wire)
    <3>1. PICK l \in Nat, c \in Nat : l = Len(wire) /\ c = ChunkBytes
      BY LogReadsAssumption, LenProperties DEF LogSound
    <3>2. Min({c, l}) \in Int /\ Min({c, l}) <= l
      BY MinIs
    <3>. QED  BY <2>1, <3>1, <3>2
  <2>3. PICK bytes \in Seq(Byte) : bytes = pending \o SubSeq(wire, 1, n)
    BY <2>2, CutTypes, ConcatProperties DEF LogSound
  <2>4. Complete(bytes).text \in Seq(Char)
    BY CompleteType
  <2>. QED  BY <2>1, <2>3, <2>4
<1>9. CASE EndStream
  BY <1>9, CompleteType DEF EndStream, LogSound
<1>10. CASE StreamFails
  BY <1>2, <1>10 DEF StreamFails, StreamRetrySafe
<1>11. ~ResolveFailed /\ ~ReadFailed /\ ~VerifyFailed
  BY <1>1, LogCall DEF ResolveFailed, ReadFailed, VerifyFailed
<1>. QED  BY <1>1, <1>3, <1>5, <1>6, <1>7, <1>8, <1>9, <1>10, <1>11 DEF LogNext

LEMMA LogSelectingInvariant == Spec => []LogSelecting
<1>1. Init => LogSelecting
  BY LogReadsAssumption, NewEvidenceSelects DEF LogSelecting, Init, ReadInit, LogInit, LogTools, call,
     Selectable
<1>2. RequestOfTool /\ RunSound /\ LogSound /\ LogSelecting /\ [Next]_vars => LogSelecting'
  <2> SUFFICES ASSUME RequestOfTool, RunSound, LogSound, LogSelecting, [Next]_vars,
                      call'.tool \in {"job_logs", "run_logs"}
               PROVE  Selecting(acc', call'.sel)
    BY DEF LogSelecting
  <2>1. UNCHANGED <<scenario, acc>> \/ LogStep
    BY StepByTool DEF vars, runReadVars, logVars, streamVars,
       RunListStep, othersOfRunList, WatchStep, othersOfWatch, ArchiveStep, othersOfArchive,
       WholeStep, othersOfWhole, PullStep, othersOfPull, ExactStep, othersOfExact,
       FailStep, RequestFails, Raises,
       RunMoves, GitHub, JobAppears, JobCompletes, AttemptCompletes, Rerun, RunChange,
       ItemMoves, ListGitHub, ItemAppears, ItemDeleted, SnapshotMoves, PullGitHub, PullMoves,
       RepositoryMoves, ExactGitHub, AccessChanges, Pushed, RefDeleted, Change, replyVars
  <2>2. CASE UNCHANGED <<scenario, acc>>
    BY <2>2 DEF LogSelecting, call
  <2>3. CASE LogStep
    BY <2>3, LogSelectable, LogStepAdds, AddTextSelects DEF LogStep, othersOfLog, call, LogTools,
       LogSound, LogSelecting
  <2>. QED  BY <2>1, <2>2, <2>3
<1>. QED  BY <1>1, <1>2, RequestOfToolInvariant, RunSoundInvariant, LogSoundInvariant, PTL DEF Spec

(***************************************************************************)
(* However a log is cut into chunks, what finish() returns for the text    *)
(* that add_text has been given is what is selected from the whole text    *)
(* at once (action_log_evidence.py).                                       *)
(***************************************************************************)
THEOREM SelectionMatchesWholeInvariant == Spec => []SelectionMatchesWhole
<1>1. RequestOfTool /\ RunSound /\ LogSound /\ LogSelecting => SelectionMatchesWhole
  BY LogSelectable, FinishSelects DEF SelectionMatchesWhole, LogTools, LogSound, LogSelecting
<1>. QED
  BY <1>1, RequestOfToolInvariant, RunSoundInvariant, LogSoundInvariant, LogSelectingInvariant, PTL DEF Spec

-----------------------------------------------------------------------------
(***************************************************************************)
(* The decoding of a stream.  However its bytes are cut into chunks, what  *)
(* the decoder hands on and what it keeps back is the log so far.          *)
(***************************************************************************)
LEMMA Cancels ==
  ASSUME NEW X, NEW a \in Seq(X), NEW b \in Seq(X), NEW c \in Seq(X), a \o b = a \o c
  PROVE  b = c
<1>1. PICK n \in Nat, k \in Nat, l \in Nat : n = Len(a) /\ k = Len(b) /\ l = Len(c)
  BY LenProperties
<1>2. Len(a \o b) = n + k /\ Len(a \o c) = n + l
  BY <1>1, ConcatProperties
<1>3. k = l
  BY <1>1, <1>2
<1>4. HasLen(a, n) /\ HasLen(b, k) /\ HasLen(c, k)
  BY <1>1, <1>3 DEF HasLen
<1>5. SubSeq(a \o b, n + 1, n + k) = b
  BY <1>4, PieceBehind
<1>6. SubSeq(a \o c, n + 1, n + k) = c
  BY <1>4, PieceBehind
<1>. QED  BY <1>5, <1>6

\* u is a and c, and b is c and v.
Between(c, a, b, u, v) == u = a \o c /\ b = c \o v

\* Of two ways to cut a sequence, the shorter beginning is one of the longer.
LEMMA EqualSplits ==
  ASSUME NEW X, NEW a \in Seq(X), NEW b \in Seq(X), NEW u \in Seq(X), NEW v \in Seq(X),
         a \o b = u \o v, Len(a) <= Len(u)
  PROVE  \E c \in Seq(X) : Between(c, a, b, u, v)
<1>1. PICK n \in Nat : n = Len(a) /\ n <= Len(u)
  BY LenProperties
<1>2. PICK c \in Seq(X) : u = SubSeq(u, 1, n) \o c
  <2>1. /\ SubSeq(u, 1, n) \in Seq(X) /\ SubSeq(u, n + 1, Len(u)) \in Seq(X)
        /\ u = SubSeq(u, 1, n) \o SubSeq(u, n + 1, Len(u))
    BY <1>1, Parts
  <2>. QED  BY <2>1
<1>3. SubSeq(u \o v, 1, n) = SubSeq(u, 1, n)
  BY <1>1, CutWithin
<1>4. SubSeq(a \o b, 1, n) = SubSeq(a, 1, n)
  BY <1>1, LenProperties, CutWithin
<1>5. SubSeq(a, 1, n) = a
  BY <1>1, SubSeqFull
<1>6. u = a \o c
  BY <1>2, <1>3, <1>4, <1>5
<1>7. (a \o c) \o v = a \o (c \o v)
  <2>1. Associative(X)
    BY ConcatIsAssociative
  <2>. QED  BY <2>1, Zenon DEF Associative
<1>8. c \o v \in Seq(X)
  BY ConcatProperties
<1>9. a \o b = a \o (c \o v)
  BY <1>6, <1>7
<1>10. b = c \o v
  BY <1>8, <1>9, Cancels
<1>. QED  BY <1>6, <1>10 DEF Between

\* A beginning of the bytes of a character, and not all of them.
Short(b) == \E c \in Char, n \in 0..3 : n < Width[c] /\ b = Beginning(c, n)

LEMMA ShortType ==
  ASSUME NEW b, Short(b)
  PROVE  b \in Seq(Byte)
<1>1. PICK c \in Char, n \in 0..3 : b = Beginning(c, n)
  BY DEF Short
<1>2. n \in 0..4
  OBVIOUS
<1>. QED  BY <1>1, <1>2, BeginningType

LEMMA NothingIsShort == <<>> \in Seq(Byte) /\ ((\E c : c \in Char) => Short(<<>>))
<1>1. <<>> \in Seq(Byte)
  BY EmptySeq
<1>2. ASSUME NEW c \in Char PROVE Short(<<>>)
  <2>1. 0 \in 0..4 /\ 0 \in 0..3 /\ 0 < Width[c]
    BY WidthType
  <2>2. Beginning(c, 0) \in Seq(Byte) /\ Len(Beginning(c, 0)) = 0
    BY <2>1, BeginningType
  <2>3. Beginning(c, 0) = <<>>
    BY <2>2, EmptySeq
  <2>. QED  BY <2>1, <2>3 DEF Short
<1>. QED  BY <1>1, <1>2

\* g is the first k bytes of a character, and rest the others of the first n.
Begins(g, rest, c, n, k) == g = Beginning(c, k) /\ (k = n => rest = <<>>)

LEMMA CutBeginning ==
  ASSUME NEW c \in Char, NEW n \in 0..4, NEW g \in Seq(Byte), NEW rest \in Seq(Byte),
         Beginning(c, n) = g \o rest
  PROVE  \E k \in 0..n : Begins(g, rest, c, n, k)
<1>1. PICK k \in Nat, j \in Nat : k = Len(g) /\ j = Len(rest)
  BY LenProperties
<1>2. Beginning(c, n) \in Seq(Byte) /\ Len(Beginning(c, n)) = n /\ \A i \in 1..n : Beginning(c, n)[i] = <<c, i>>
  BY BeginningType
<1>3. HasLen(g, k) /\ HasLen(rest, j)
  BY <1>1 DEF HasLen
<1>4. Concatenates(g \o rest, g, rest, k, j)
  BY <1>3, ConcatIs
<1>5. n = k + j /\ \A i \in 1..k : (g \o rest)[i] = g[i]
  BY <1>2, <1>4 DEF Concatenates
<1>6. k \in 0..n /\ k \in 0..4
  BY <1>5
<1>7. Beginning(c, k) \in Seq(Byte) /\ Len(Beginning(c, k)) = k /\ \A i \in 1..k : Beginning(c, k)[i] = <<c, i>>
  BY <1>6, BeginningType
<1>8. \A i \in 1..k : g[i] = Beginning(c, k)[i]
  <2> SUFFICES ASSUME NEW i \in 1..k PROVE g[i] = Beginning(c, k)[i]
    OBVIOUS
  <2>1. i \in 1..n
    BY <1>6
  <2>. QED  BY <1>2, <1>5, <1>7, <2>1
<1>9. g = Beginning(c, k)
  BY <1>1, <1>7, <1>8, SeqEqual
<1>10. k = n => rest = <<>>
  BY <1>1, <1>5, EmptySeq
<1>. QED  BY <1>6, <1>9, <1>10 DEF Begins

\* u, and the bytes b behind it, cut apart into got and rest: the characters t are
\* in got, r is the beginning of the next.
CutAt(u, got, rest, b, t, d, r) ==
  u = t \o d /\ got = Encode(t) \o r /\ Short(r) /\ r \o rest = Encode(d) \o b

Cuts(u, got, rest, b) ==
  \E t, d \in Seq(Char), r \in Seq(Byte) : CutAt(u, got, rest, b, t, d, r)

Reassociates(u, v, w) == (u \o v) \o w = u \o (v \o w)

LEMMA BytesAssociative ==
  ASSUME NEW u \in Seq(Byte), NEW v \in Seq(Byte), NEW w \in Seq(Byte)
  PROVE  Reassociates(u, v, w)
BY ConcatAssociative DEF Reassociates

LEMMA CutsBehind ==
  ASSUME NEW u \in Seq(Char),
         \A got, rest \in Seq(Byte) : Encode(u) = got \o rest => Cuts(u, got, rest, <<>>),
         NEW c \in Char, NEW n \in 0..4, n <= Width[c],
         NEW got \in Seq(Byte), NEW rest \in Seq(Byte), Encode(u) \o Beginning(c, n) = got \o rest
  PROVE  /\ n < Width[c] => Cuts(u, got, rest, Beginning(c, n))
         /\ n = Width[c] => Cuts(Append(u, c), got, rest, <<>>)
<1>1. PICK e \in Seq(Byte), b \in Seq(Byte) : e = Encode(u) /\ b = Beginning(c, n)
  BY EncodeType, BeginningType
<1>2. e \o b = got \o rest
  BY <1>1
<1>a. \A x, y, z \in Seq(Byte) : (x \o y) \o z = x \o (y \o z)
  BY BytesAssociative DEF Reassociates
<1>g. \A x, y, w, v \in Seq(Byte) :
        x \o y = w \o v /\ Len(x) <= Len(w) => \E s \in Seq(Byte) : Between(s, x, y, w, v)
  BY EqualSplits
<1>b. \A x \in Seq(Byte) : x \o <<>> = x /\ <<>> \o x = x
  BY ConcatEmptySeq
<1>c. \A x \in Seq(Char) : x \o <<>> = x /\ <<>> \o x = x
  BY ConcatEmptySeq
<1>d. Append(u, c) \in Seq(Char) /\ \A x \in Seq(Char) : Extends(Append(x, c), x, c) /\ Append(x, c) \in Seq(Char)
  BY AppendProperties DEF Extends
<1>e. \A x \in Seq(Char) : n = Width[c] => Encode(Append(x, c)) = Encode(x) \o b
  <2> SUFFICES ASSUME NEW x \in Seq(Char), n = Width[c] PROVE Encode(Append(x, c)) = Encode(x) \o b
    OBVIOUS
  <2>1. Encode(Append(x, c)) = Encode(x) \o Beginning(c, Width[c])
    BY <1>d, EncodeAppend
  <2>. QED  BY <1>1, <2>1
<1>f. <<>> \in Seq(Char) /\ <<>> \in Seq(Byte) /\ Short(<<>>) /\ Encode(<<>>) = <<>>
  BY EmptySeq, NothingIsShort, EncodeAppend
<1>3. CASE Len(got) <= Len(e)
  <2>1. PICK s \in Seq(Byte) : e = got \o s /\ rest = s \o b
    <3>1. got \o rest = e \o b
      BY <1>2
    <3>2. \E s \in Seq(Byte) : Between(s, got, rest, e, b)
      BY <1>3, <1>g, <3>1, Zenon
    <3>. QED  BY <3>2 DEF Between
  <2>2. Cuts(u, got, s, <<>>)
    BY <1>1, <2>1
  <2>3. PICK t \in Seq(Char), d \in Seq(Char), r \in Seq(Byte) :
          u = t \o d /\ got = Encode(t) \o r /\ Short(r) /\ r \o s = Encode(d) \o <<>>
    BY <2>2 DEF Cuts, CutAt
  <2>4. PICK f \in Seq(Byte) : f = Encode(d) /\ r \o s = f
    BY <1>b, <2>3, EncodeType
  <2>5. r \o rest = f \o b
    <3>1. Reassociates(r, s, b)
      BY <1>1, <2>1, <2>3, BytesAssociative
    <3>. QED  BY <2>1, <2>4, <3>1 DEF Reassociates
  <2>6. n < Width[c] => Cuts(u, got, rest, b)
    <3>1. r \o rest = Encode(d) \o b
      BY <2>4, <2>5
    <3>2. CutAt(u, got, rest, b, t, d, r)
      BY <2>3, <3>1 DEF CutAt
    <3>. QED  BY <3>2 DEF Cuts
  <2>7. ASSUME n = Width[c] PROVE Cuts(Append(u, c), got, rest, <<>>)
    <3>1. PICK dc \in Seq(Char) : dc = Append(d, c) /\ Encode(dc) = f \o b
      BY <1>d, <1>e, <2>4, <2>7
    <3>2. Append(u, c) = t \o dc
      <4>1. Extends(t \o dc, t \o d, c)
        BY <1>d, <3>1, ExtendsConcat
      <4>. QED  BY <2>3, <4>1 DEF Extends
    <3>3. r \o rest = Encode(dc) \o <<>>
      BY <1>b, <2>5, <3>1, ConcatProperties
    <3>4. CutAt(Append(u, c), got, rest, <<>>, t, dc, r)
      BY <2>3, <3>2, <3>3 DEF CutAt
    <3>. QED  BY <3>4 DEF Cuts
  <2>. QED  BY <1>1, <2>6, <2>7
<1>4. CASE Len(e) <= Len(got)
  <2>1. PICK g \in Seq(Byte) : got = e \o g /\ b = g \o rest
    <3>1. \E s \in Seq(Byte) : Between(s, e, b, got, rest)
      BY <1>2, <1>4, <1>g, Zenon
    <3>. QED  BY <3>1 DEF Between
  <2>2. PICK k \in 0..n : g = Beginning(c, k) /\ (k = n => rest = <<>>)
    <3>1. Beginning(c, n) = g \o rest
      BY <1>1, <2>1
    <3>2. \E k \in 0..n : Begins(g, rest, c, n, k)
      BY <3>1, CutBeginning
    <3>. QED  BY <3>2 DEF Begins
  <2>3. CASE k < Width[c]
    <3>1. Short(g)
      <4>1. Width[c] \in 1..4
        BY WidthType
      <4>2. k \in 0..3
        BY <2>3, <4>1
      <4>. QED  BY <2>2, <2>3, <4>2 DEF Short
    <3>2. n < Width[c] => Cuts(u, got, rest, b)
      <4>1. u = u \o <<>> /\ g \o rest = Encode(<<>>) \o b
        BY <1>b, <1>c, <1>f, <2>1
      <4>2. got = Encode(u) \o g
        BY <1>1, <2>1
      <4>3. CutAt(u, got, rest, b, u, <<>>, g)
        BY <3>1, <4>1, <4>2 DEF CutAt
      <4>. QED  BY <1>f, <4>3 DEF Cuts
    <3>3. ASSUME n = Width[c] PROVE Cuts(Append(u, c), got, rest, <<>>)
      <4>1. PICK d \in Seq(Char) : d = Append(<<>>, c) /\ Encode(d) = b
        <5>1. Append(<<>>, c) \in Seq(Char) /\ Encode(Append(<<>>, c)) = Encode(<<>>) \o b
          BY <1>d, <1>e, <1>f, <3>3
        <5>2. <<>> \o b = b
          BY <1>b
        <5>. QED  BY <1>f, <5>1, <5>2
      <4>2. Append(u, c) = u \o d
        BY <1>c, <1>f, <1>d, <4>1, ExtendsConcat DEF Extends
      <4>3. g \o rest = Encode(d) \o <<>>
        BY <1>b, <2>1, <4>1
      <4>4. got = Encode(u) \o g
        BY <1>1, <2>1
      <4>5. CutAt(Append(u, c), got, rest, <<>>, u, d, g)
        BY <3>1, <4>2, <4>3, <4>4 DEF CutAt
      <4>. QED  BY <4>5 DEF Cuts
    <3>. QED  BY <1>1, <3>2, <3>3
  <2>4. CASE ~(k < Width[c])
    <3>1. k = n /\ n = Width[c] /\ rest = <<>>
      <4>1. Width[c] \in 1..4
        BY WidthType
      <4>2. k = n
        BY <2>4, <4>1
      <4>. QED  BY <2>2, <2>4, <4>1, <4>2
    <3>2. got = Encode(Append(u, c)) \o <<>>
      BY <1>1, <2>2, <3>1, <1>b, <1>e, <2>1, ConcatProperties
    <3>3. Append(u, c) = Append(u, c) \o <<>>
      BY <1>c, <1>d
    <3>4. <<>> \o rest = Encode(<<>>) \o <<>>
      BY <1>f, <3>1
    <3>5. Cuts(Append(u, c), got, rest, <<>>)
      <4>1. CutAt(Append(u, c), got, rest, <<>>, Append(u, c), <<>>, <<>>)
        BY <1>f, <3>2, <3>3, <3>4 DEF CutAt
      <4>. QED  BY <1>d, <1>f, <4>1 DEF Cuts
    <3>. QED  BY <3>1, <3>5
  <2>. QED  BY <2>3, <2>4
<1>. QED  BY <1>3, <1>4, LenProperties

LEMMA EncodedCuts ==
  ASSUME NEW u \in Seq(Char), NEW got \in Seq(Byte), NEW rest \in Seq(Byte), Encode(u) = got \o rest
  PROVE  Cuts(u, got, rest, <<>>)
<1> DEFINE T == {s \in Seq(Char) : \A x, y \in Seq(Byte) : Encode(s) = x \o y => Cuts(s, x, y, <<>>)}
<1>1. <<>> \in T
  <2>1. <<>> \in Seq(Char) /\ <<>> \in Seq(Byte) /\ Encode(<<>>) = <<>>
    BY EmptySeq, EncodeAppend
  <2>2. ASSUME NEW x \in Seq(Byte), NEW y \in Seq(Byte), x \o y = <<>> PROVE Cuts(<<>>, x, y, <<>>)
    <3>1. Len(x \o y) = Len(x) + Len(y) /\ Len(x) \in Nat /\ Len(y) \in Nat /\ Len(x \o y) = 0
      BY <2>2, ConcatProperties, LenProperties, EmptySeq
    <3>2. Len(x) = 0 /\ Len(y) = 0
      BY <3>1
    <3>3. x = <<>> /\ y = <<>>
      BY <3>2, EmptySeq
    <3>4. Short(<<>>)
      BY LogAssumption, NothingIsShort
    <3>5. /\ \A s \in Seq(Char) : s \o <<>> = s
          /\ \A s \in Seq(Byte) : s \o <<>> = s
      BY ConcatEmptySeq
    <3>6. CutAt(<<>>, x, y, <<>>, <<>>, <<>>, <<>>)
      BY <2>1, <3>3, <3>4, <3>5 DEF CutAt
    <3>. QED  BY <2>1, <3>6 DEF Cuts
  <2>. QED  BY <2>1, <2>2
<1>2. \A s \in Seq(Char), c \in Char, t \in Seq(Char) : s \in T /\ Extends(t, s, c) => t \in T
  <2> SUFFICES ASSUME NEW s \in Seq(Char), NEW c \in Char, NEW t \in Seq(Char), s \in T, Extends(t, s, c),
                      NEW x \in Seq(Byte), NEW y \in Seq(Byte), Encode(t) = x \o y
               PROVE  Cuts(t, x, y, <<>>)
    OBVIOUS
  <2>1. \A v, w \in Seq(Byte) : Encode(s) = v \o w => Cuts(s, v, w, <<>>)
    OBVIOUS
  <2>2. PICK n \in 0..4 : n = Width[c]
    BY WidthType
  <2>3. Encode(s) \o Beginning(c, n) = x \o y /\ n <= Width[c]
    <3>1. Encode(t) = Encode(s) \o Beginning(c, Width[c])
      BY EncodeAppend
    <3>. QED  BY <2>2, <3>1
  <2>4. /\ n < Width[c] => Cuts(s, x, y, Beginning(c, n))
        /\ n = Width[c] => Cuts(Append(s, c), x, y, <<>>)
    BY <2>1, <2>3, CutsBehind
  <2>. QED  BY <2>2, <2>4 DEF Extends
<1>3. Seq(Char) \subseteq T
  <2> HIDE DEF T
  <2>. QED  BY <1>1, <1>2, SeqSetInduction
<1>4. u \in T
  BY <1>3
<1>. QED  BY <1>4

\* However a text, the last character of which may be incomplete, is cut: there are the
\* characters before the cut, those from the cut on, and the bytes that belong to one.
LEMMA StreamCuts ==
  ASSUME NEW u \in Seq(Char), NEW b, Short(b), NEW got \in Seq(Byte), NEW rest \in Seq(Byte),
         Encode(u) \o b = got \o rest
  PROVE  Cuts(u, got, rest, b)
<1>1. PICK c \in Char, m \in 0..3 : m < Width[c] /\ b = Beginning(c, m)
  BY DEF Short
<1>2. PICK n \in 0..4 : n = m
  OBVIOUS
<1>3. n < Width[c] /\ b = Beginning(c, n) /\ n <= Width[c]
  <2>1. Width[c] \in 1..4
    BY WidthType
  <2>. QED  BY <1>1, <1>2, <2>1
<1>4. \A x, y \in Seq(Byte) : Encode(u) = x \o y => Cuts(u, x, y, <<>>)
  BY EncodedCuts
<1>5. Encode(u) \o Beginning(c, n) = got \o rest
  BY <1>3
<1>6. /\ n < Width[c] => Cuts(u, got, rest, Beginning(c, n))
      /\ n = Width[c] => Cuts(Append(u, c), got, rest, <<>>)
  BY <1>3, <1>4, <1>5, CutsBehind
<1>. QED  BY <1>3, <1>6

LEMMA CompleteIs ==
  ASSUME NEW t \in Seq(Char), NEW r \in Seq(Byte), Short(r)
  PROVE  Complete(Encode(t) \o r).text = t /\ Complete(Encode(t) \o r).rest = r
<1>1. PICK v \in Seq(Byte), e \in Seq(Byte) : e = Encode(t) /\ v = e \o r
  BY EncodeType, ConcatProperties
<1>2. Decode(v) = t
  BY <1>1, DecodeCut DEF Short
<1>3. PICK n \in Nat, k \in Nat : n = Len(e) /\ k = Len(r) /\ n = Bytes(t)
  BY <1>1, LenProperties DEF Bytes
<1>4. Len(v) = n + k
  BY <1>1, <1>3, ConcatProperties
<1>5. SubSeq(v, n + 1, n + k) = r
  <2>1. HasLen(e, n) /\ HasLen(r, k)
    BY <1>3 DEF HasLen
  <2>2. SubSeq(e \o r, n + 1, n + k) = r
    BY <2>1, PieceBehind
  <2>. QED  BY <1>1, <2>2
<1>6. Complete(v).text = t /\ Complete(v).rest = SubSeq(v, n + 1, Len(v))
  BY <1>2, <1>3, Zenon DEF Complete
<1>. QED  BY <1>1, <1>4, <1>5, <1>6

-----------------------------------------------------------------------------
(***************************************************************************)
(* The logs of jobs, one after the other, and the jobs that have one.      *)
(***************************************************************************)
LEMMA KeepOnlySame ==
  ASSUME NEW X, NEW S, NEW R, NEW s \in Seq(X), \A e \in ToSet(s) : e \in S <=> e \in R
  PROVE  KeepOnly(s, S) = KeepOnly(s, R)
<1> DEFINE T == {t \in Seq(X) : (\A e \in ToSet(t) : e \in S <=> e \in R) => KeepOnly(t, S) = KeepOnly(t, R)}
<1>1. <<>> \in T
  BY KeepOnlyAppend, EmptySeq
<1>a1. \A t \in Seq(X), e \in X, u \in Seq(X) :
         Extends(u, t, e) /\ e \in S => Extends(KeepOnly(u, S), KeepOnly(t, S), e)
  BY KeepOnlyAppend
<1>a2. \A t \in Seq(X), e \in X, u \in Seq(X) :
         Extends(u, t, e) /\ e \notin S => KeepOnly(u, S) = KeepOnly(t, S)
  BY KeepOnlyDrops
<1>b1. \A t \in Seq(X), e \in X, u \in Seq(X) :
         Extends(u, t, e) /\ e \in R => Extends(KeepOnly(u, R), KeepOnly(t, R), e)
  BY KeepOnlyAppend
<1>b2. \A t \in Seq(X), e \in X, u \in Seq(X) :
         Extends(u, t, e) /\ e \notin R => KeepOnly(u, R) = KeepOnly(t, R)
  BY KeepOnlyDrops
<1>2. \A t \in Seq(X), e \in X, u \in Seq(X) : t \in T /\ Extends(u, t, e) => u \in T
  <2> SUFFICES ASSUME NEW t \in Seq(X), NEW e \in X, NEW u \in Seq(X), t \in T, Extends(u, t, e),
                      \A d \in ToSet(u) : d \in S <=> d \in R
               PROVE  KeepOnly(u, S) = KeepOnly(u, R)
    OBVIOUS
  <2>1. ToSet(u) = ToSet(t) \cup {e}
    BY ToSetAppend
  <2>2. KeepOnly(t, S) = KeepOnly(t, R)
    BY <2>1
  <2>3. e \in S <=> e \in R
    BY <2>1
  <2> HIDE DEF T
  <2>4. CASE e \in S
    <3>1. Extends(KeepOnly(u, S), KeepOnly(t, S), e) /\ Extends(KeepOnly(u, R), KeepOnly(t, R), e)
      BY <1>a1, <1>b1, <2>3, <2>4, Zenon
    <3>. QED  BY <2>2, <3>1 DEF Extends
  <2>5. CASE e \notin S
    BY <1>a2, <1>b2, <2>3, <2>5, <2>2
  <2>. QED  BY <2>4, <2>5
<1>3. Seq(X) \subseteq T
  <2> HIDE DEF T
  <2>. QED  BY <1>1, <1>2, SeqSetInduction
<1>4. s \in T
  BY <1>3
<1>. QED  BY <1>4

\* The log of a job, which is number k of those that are joined.
Gap(k) == IF k = 1 THEN <<>> ELSE <<Newline>>
Joint(k, j) == Gap(k) \o Decoded(scenario.log[j])

LEMMA JointType ==
  ASSUME RequestOfTool, NEW k, NEW j \in Job
  PROVE  Gap(k) \in Seq(Char) /\ Decoded(scenario.log[j]) \in Seq(Char) /\ Joint(k, j) \in Seq(Char)
<1>1. scenario.log[j] \in Seq(Byte)
  BY LogReadsAssumption DEF RequestOfTool, Byte
<1>2. PICK text \in Seq(Char) : text = Decoded(scenario.log[j])
  BY <1>1, CompleteType
<1>3. PICK gap \in Seq(Char) : gap = Gap(k)
  <2>1. <<Newline>> \in Seq(Char) /\ <<>> \in Seq(Char)
    BY LogReadsAssumption
  <2>. QED  BY <2>1, Zenon DEF Gap
<1>4. gap \o text \in Seq(Char)
  BY ConcatProperties
<1>. QED  BY <1>2, <1>3, <1>4 DEF Joint

LEMMA JoinedAppend ==
  ASSUME RequestOfTool
  PROVE  /\ Joined(<<>>) = <<>>
         /\ \A ids \in Seq(Job), j \in Job, more \in Seq(Job) :
              Extends(more, ids, j) => /\ Joined(ids) \in Seq(Char) /\ Joined(more) \in Seq(Char)
                                       /\ Joined(more) = Joined(ids) \o Joint(Len(ids) + 1, j)
<1>1. Joined(<<>>) = <<>>
  BY FlattenAppend DEF Joined
<1>2. ASSUME NEW ids \in Seq(Job), NEW j \in Job, NEW more \in Seq(Job), Extends(more, ids, j)
      PROVE  /\ Joined(ids) \in Seq(Char) /\ Joined(more) \in Seq(Char)
             /\ Joined(more) = Joined(ids) \o Joint(Len(ids) + 1, j)
  <2>1. PICK n \in Nat, m \in Nat : n = Len(ids) /\ m = n + 1
    BY LenProperties
  <2>2. /\ DOMAIN ids = 1..n /\ DOMAIN more = 1..m /\ (\A k \in 1..n : ids[k] \in Job /\ more[k] = ids[k])
        /\ more[m] = j
    BY <1>2, <2>1, AppendProperties, LenProperties DEF Extends
  <2>3. \A k \in Nat, i \in Job : Joint(k, i) \in Seq(Char)
    BY JointType
  <2>5. PICK ss \in Seq(Seq(Char)) : ss = [k \in 1..n |-> Joint(k, ids[k])]
    <3>1. [k \in 1..n |-> Joint(k, ids[k])] \in [1..n -> Seq(Char)]
      BY <2>2, <2>3
    <3>2. [k \in 1..n |-> Joint(k, ids[k])] \in Seq(Seq(Char))
      BY <3>1, IsASeq
    <3>. QED  BY <3>2
  <2>6. PICK tt \in Seq(Seq(Char)) : tt = [k \in 1..m |-> Joint(k, more[k])]
    <3>1. [k \in 1..m |-> Joint(k, more[k])] \in [1..m -> Seq(Char)]
      BY <2>1, <2>2, <2>3
    <3>2. [k \in 1..m |-> Joint(k, more[k])] \in Seq(Seq(Char))
      BY <3>1, IsASeq
    <3>. QED  BY <3>2
  <2>7. Joined(ids) = FlattenSeq(ss)
    BY <2>2, <2>5 DEF Joint, Gap, Joined
  <2>8. Joined(more) = FlattenSeq(tt)
    BY <2>1, <2>2, <2>6 DEF Joint, Gap, Joined
  <2>9. PICK s \in Seq(Char) : s = Joint(m, j)
    BY <2>1, <2>3
  <2>10. Extends(tt, ss, s)
    BY <2>5, <2>6, <2>1, <2>2, <2>9, AppendProperties, SeqEqual DEF Extends
  <2>11. FlattenSeq(tt) = FlattenSeq(ss) \o s
    BY <2>10, FlattenAppend
  <2>12. FlattenSeq(ss) \in Seq(Char) /\ FlattenSeq(tt) \in Seq(Char)
    BY FlattenType
  <2>. QED  BY <2>1, <2>7, <2>8, <2>9, <2>11, <2>12
<1>. QED  BY <1>1, <1>2

\* Two pieces that touch.
LEMMA PiecesJoin ==
  ASSUME NEW X, NEW s \in Seq(X), NEW n \in Nat, NEW m \in Nat, n <= m, m <= Len(s)
  PROVE  SubSeq(s, 1, n) \o SubSeq(s, n + 1, m) = SubSeq(s, 1, m)
<1>1. PICK l \in Nat, zero \in Nat : l = Len(s) /\ zero = 0
  BY LenProperties
<1>3. PICK a \in Seq(X) : a = SubSeq(s, zero + 1, n) /\ Len(a) = n /\ \A k \in 1..n : a[k] = s[zero + k]
  <2>1. n \in Int /\ n <= Len(s)
    BY <1>1
  <2>2. /\ SubSeq(s, zero + 1, n) \in Seq(X)
        /\ Len(SubSeq(s, zero + 1, n)) = (IF zero < n THEN n - zero ELSE 0)
        /\ \A k \in 1..(n - zero) : SubSeq(s, zero + 1, n)[k] = s[zero + k]
    BY <2>1, Slice
  <2>3. PICK v \in Seq(X) : v = SubSeq(s, zero + 1, n)
    BY <2>2
  <2>4. (IF zero < n THEN n - zero ELSE 0) = n /\ n - zero = n
    BY <1>1
  <2>5. Len(v) = n /\ \A k \in 1..n : v[k] = s[zero + k]
    BY <2>2, <2>3, <2>4, Zenon
  <2>. QED  BY <2>3, <2>5
<1>4. PICK c \in Seq(X) : c = SubSeq(s, zero + 1, m) /\ Len(c) = m /\ \A k \in 1..m : c[k] = s[zero + k]
  <2>1. m \in Int /\ m <= Len(s)
    BY <1>1
  <2>2. /\ SubSeq(s, zero + 1, m) \in Seq(X)
        /\ Len(SubSeq(s, zero + 1, m)) = (IF zero < m THEN m - zero ELSE 0)
        /\ \A k \in 1..(m - zero) : SubSeq(s, zero + 1, m)[k] = s[zero + k]
    BY <2>1, Slice
  <2>3. PICK v \in Seq(X) : v = SubSeq(s, zero + 1, m)
    BY <2>2
  <2>4. (IF zero < m THEN m - zero ELSE 0) = m /\ m - zero = m
    BY <1>1
  <2>5. Len(v) = m /\ \A k \in 1..m : v[k] = s[zero + k]
    BY <2>2, <2>3, <2>4, Zenon
  <2>. QED  BY <2>3, <2>5
<1>5. PICK j \in Nat : j = m - n /\ m = n + j
  OBVIOUS
<1>6. PICK b \in Seq(X) : b = SubSeq(s, n + 1, m) /\ Len(b) = j /\ \A k \in 1..j : b[k] = s[n + k]
  <2>1. m \in Int /\ m <= Len(s)
    BY <1>1
  <2>2. /\ SubSeq(s, n + 1, m) \in Seq(X)
        /\ Len(SubSeq(s, n + 1, m)) = (IF n < m THEN m - n ELSE 0)
        /\ \A k \in 1..(m - n) : SubSeq(s, n + 1, m)[k] = s[n + k]
    BY <2>1, Slice
  <2>3. PICK v \in Seq(X) : v = SubSeq(s, n + 1, m)
    BY <2>2
  <2>4. (IF n < m THEN m - n ELSE 0) = j /\ m - n = j
    BY <1>5
  <2>5. Len(v) = j /\ \A k \in 1..j : v[k] = s[n + k]
    BY <2>2, <2>3, <2>4, Zenon
  <2>. QED  BY <2>3, <2>5
<1>7. HasLen(a, n) /\ HasLen(b, j)
  BY <1>3, <1>6 DEF HasLen
<1>8. PICK u \in Seq(X) : u = a \o b /\ Concatenates(u, a, b, n, j)
  BY <1>7, ConcatIs
<1>9. Len(u) = m /\ (\A k \in 1..n : u[k] = a[k]) /\ \A k \in 1..j : u[n + k] = b[k]
  BY <1>5, <1>8 DEF Concatenates
<1>10. \A k \in 1..m : u[k] = c[k]
  <2> SUFFICES ASSUME NEW k \in 1..m PROVE u[k] = c[k]
    OBVIOUS
  <2>0. zero + k = k
    BY <1>1
  <2>1. CASE k \in 1..n
    BY <1>3, <1>4, <1>9, <2>0, <2>1
  <2>2. CASE k \notin 1..n
    <3>1. PICK i \in 1..j : k = n + i
      BY <1>5, <2>2
    <3>2. c[k] = s[k] /\ u[n + i] = b[i] /\ b[i] = s[n + i]
      BY <1>4, <1>6, <1>9, <2>0
    <3>. QED  BY <3>1, <3>2
  <2>. QED  BY <2>1, <2>2
<1>11. u = c
  BY <1>4, <1>9, <1>10, SeqEqual
<1>12. zero + 1 = 1
  BY <1>1
<1>. QED  BY <1>3, <1>4, <1>6, <1>8, <1>11, <1>12

\* What is noted of jobs is noted of each, and their ids are theirs.
LEMMA EntriesConcat ==
  ASSUME RunSound, NEW s \in Seq(Job), NEW t \in Seq(Job)
  PROVE  /\ Entries(s \o t) = Entries(s) \o Entries(t)
         /\ Ids(Entries(s)) = s
         /\ ToSet(Entries(s)) = {[id |-> j, done |-> done[j]] : j \in ToSet(s)}
<1>0. PICK E : E = [j \in Job |-> [id |-> j, done |-> done[j]]]
  OBVIOUS
<1>1. \A j \in Job : E[j] = [id |-> j, done |-> done[j]] /\ E[j].id = j
  BY <1>0
<1>2. \A u \in Seq(Job) : /\ Entries(u) \in Seq(JobEntry) /\ Len(Entries(u)) = Len(u)
                          /\ \A k \in 1..Len(u) : u[k] \in Job /\ Entries(u)[k] = E[u[k]]
  BY <1>1, EntriesType, LenProperties DEF Entries
<1>3. PICK n \in Nat, j \in Nat : n = Len(s) /\ j = Len(t)
  BY LenProperties
<1>4. PICK u \in Seq(Job) : u = s \o t /\ Concatenates(u, s, t, n, j)
  BY <1>3, ConcatIs DEF HasLen
<1>5. PICK a, b, c \in Seq(JobEntry) : a = Entries(s) /\ b = Entries(t) /\ c = Entries(u)
  BY <1>2
<1>6. /\ Len(a) = n /\ (\A k \in 1..n : a[k] = E[s[k]] /\ s[k] \in Job)
      /\ Len(b) = j /\ (\A k \in 1..j : b[k] = E[t[k]])
      /\ Len(c) = Len(u) /\ (\A k \in 1..Len(u) : c[k] = E[u[k]])
  BY <1>2, <1>3, <1>5
<1>7. PICK d \in Seq(JobEntry) : d = a \o b /\ Concatenates(d, a, b, n, j)
  BY <1>6, ConcatIs DEF HasLen
<1>8. Len(u) = n + j /\ Len(d) = n + j
  BY <1>4, <1>7 DEF Concatenates
<1>9. \A k \in 1..(n + j) : c[k] = d[k]
  <2> SUFFICES ASSUME NEW k \in 1..(n + j) PROVE c[k] = d[k]
    OBVIOUS
  <2>0. c[k] = E[u[k]]
    BY <1>6, <1>8
  <2>1. CASE k \in 1..n
    BY <1>4, <1>7, <2>1, <1>6, <2>0 DEF Concatenates
  <2>2. CASE k \notin 1..n
    <3>1. PICK i \in 1..j : k = n + i
      BY <2>2
    <3>2. u[k] = t[i] /\ d[k] = b[i]
      BY <1>4, <1>7, <3>1 DEF Concatenates
    <3>. QED  BY <1>6, <2>0, <3>2
  <2>. QED  BY <2>1, <2>2
<1>10. c = d
  BY <1>6, <1>8, <1>9, SeqEqual
<1>11. Ids(a) = s
  <2>1. PICK i \in Seq(Job) : i = Ids(a) /\ Len(i) = n
    BY <1>6, IdsType
  <2>2. \A k \in 1..n : i[k] = s[k]
    BY <1>6, <1>1, <2>1, LenProperties DEF Ids
  <2>3. i = s
    BY <1>3, <2>1, <2>2, SeqEqual
  <2>. QED  BY <2>1, <2>3
<1>12. ToSet(a) = {[id |-> i, done |-> done[i]] : i \in ToSet(s)}
  <2>1. ToSet(a) = {a[k] : k \in 1..n} /\ ToSet(s) = {s[k] : k \in 1..n}
    BY <1>3, <1>6, ToSetIs
  <2>2. \A k \in 1..n : a[k] = [id |-> s[k], done |-> done[s[k]]]
    BY <1>1, <1>6
  <2>3. ASSUME NEW x \in ToSet(a) PROVE \E i \in ToSet(s) : x = [id |-> i, done |-> done[i]]
    <3>1. PICK k \in 1..n : x = a[k]
      BY <2>1
    <3>2. s[k] \in ToSet(s)
      BY <2>1
    <3>. QED  BY <2>2, <3>1, <3>2
  <2>4. ASSUME NEW i \in ToSet(s) PROVE [id |-> i, done |-> done[i]] \in ToSet(a)
    <3>1. PICK k \in 1..n : i = s[k]
      BY <2>1
    <3>2. a[k] \in ToSet(a)
      BY <2>1
    <3>. QED  BY <2>2, <3>1, <3>2
  <2>. QED  BY <2>3, <2>4
<1>. QED  BY <1>4, <1>5, <1>7, <1>10, <1>11, <1>12

-----------------------------------------------------------------------------
(***************************************************************************)
(* What is final on GitHub: a job that is completed, and of an attempt     *)
(* that is completed its jobs and their conclusions.  Attempts that have   *)
(* not begun are absent, so that a rerun touches none that is completed.   *)
(***************************************************************************)
RunSettled ==
  /\ \A a \in Attempt : latest < a => status[a] = "absent"
  /\ \A a \in Attempt : status[a] = "completed" => \A j \in ToSet(listed[a]) : done[j] # None

LEMMA RunSettledInit ==
  ASSUME Init
  PROVE  RunSettled
<1>1. scenario \in Scenarios
  BY DEF Init, ReadInit
<1>2. 1 \in Attempt /\ \A a \in Attempt : a \in Nat
  BY RunAssumption DEF Attempt
<1>3. /\ scenario.jobs \in [Attempt -> Seq(Job)] /\ scenario.queued \in 0..Len(scenario.jobs[1])
      /\ scenario.status = "completed" =>
           scenario.queued = Len(scenario.jobs[1]) /\ \A j \in ToSet(scenario.jobs[1]) : scenario.done[j] # None
  BY <1>1, RunAssumption
<1>4. /\ latest = 1 /\ done = scenario.done
      /\ status = [a \in Attempt |-> IF a = 1 THEN scenario.status ELSE "absent"]
      /\ listed = [a \in Attempt |-> IF a = 1 THEN SubSeq(scenario.jobs[1], 1, scenario.queued) ELSE <<>>]
  BY DEF Init, RunInit
<1>5. \A a \in Attempt : latest < a => status[a] = "absent"
  BY <1>2, <1>4
<1>6. ASSUME NEW a \in Attempt, status[a] = "completed" PROVE \A j \in ToSet(listed[a]) : done[j] # None
  BY <1>4, <1>6, <1>2, <1>3, SubSeqFull
<1>. QED  BY <1>5, <1>6 DEF RunSettled

\* What is final stays as it is.
Stays ==
  /\ \A j \in Job : done[j] # None => done'[j] = done[j]
  /\ \A a \in Attempt : status[a] = "completed" => status'[a] = "completed" /\ listed'[a] = listed[a]

LEMMA RunMovesSettle ==
  ASSUME RequestOfTool, RunSound, RunSettled, GitHub
  PROVE  RunSettled' /\ Stays
<1>1. /\ latest \in Attempt /\ status \in [Attempt -> {"absent", "in_progress", "completed"}]
      /\ done \in [Job -> Conclusion \cup {None}] /\ listed \in [Attempt -> Seq(Job)]
  BY DEF RunSound, RunTypeOK
<1>2. \A a \in Attempt : a \in Nat /\ ToSet(listed[a]) \subseteq Job
  BY <1>1, RunAssumption, ToSetIs DEF Attempt
<1>4. ASSUME NEW a \in Attempt, JobAppears(a) PROVE RunSettled' /\ Stays
  BY <1>1, <1>4 DEF JobAppears, RunSettled, Stays
<1>5. ASSUME NEW a \in Attempt, AttemptCompletes(a) PROVE RunSettled' /\ Stays
  BY <1>5, <1>1 DEF AttemptCompletes, RunSettled, Stays
<1>6. ASSUME NEW a \in Attempt, NEW j \in Job, NEW c \in Conclusion, JobCompletes(a, j, c)
      PROVE  RunSettled' /\ Stays
  BY <1>6, <1>1, <1>2 DEF JobCompletes, RunSettled, Stays
<1>7. CASE Rerun
  BY <1>1, <1>2, <1>7, RunAssumption DEF Rerun, Attempt, RunSettled, Stays
<1>. QED  BY <1>4, <1>5, <1>6, <1>7 DEF GitHub

LEMMA StepSettles ==
  ASSUME RequestOfTool, RunSound, RunSettled, [Next]_vars
  PROVE  RunSettled' /\ Stays
<1>1. CASE UNCHANGED runVars
  BY <1>1 DEF runVars, RunSettled, Stays
<1>2. CASE RunMoves
  BY <1>2, RunMovesSettle DEF RunMoves
<1>3. UNCHANGED runVars \/ RunMoves
  BY StepByTool DEF vars, runReadVars, LogStep, othersOfLog, RunListStep, othersOfRunList, WatchStep, othersOfWatch,
     ArchiveStep, othersOfArchive, WholeStep, othersOfWhole, PullStep, othersOfPull, ExactStep, othersOfExact,
     FailStep, ItemMoves, SnapshotMoves, RepositoryMoves
<1>. QED  BY <1>1, <1>2, <1>3

LEMMA RunSettledInvariant == Spec => []RunSettled
<1>1. RequestOfTool /\ RunSound /\ RunSettled /\ [Next]_vars => RunSettled'
  BY StepSettles
<1>. QED  BY <1>1, RunSettledInit, RequestOfToolInvariant, RunSoundInvariant, PTL DEF Spec

-----------------------------------------------------------------------------
(***************************************************************************)
(* Which logs are read: that of the job, or of the jobs of the attempt     *)
(* that have one, which is known for good when the attempt is completed.   *)
(***************************************************************************)
StreamTools == {"job_logs", "run_logs"}

IdsOfLog ==
  IF call.tool = "job_logs" THEN <<call.job>>
  ELSE KeepOnly(Sorted(listed[call.attempt], Smaller), {j \in Job : done[j] # "skipped"})

Final ==
  IF call.tool = "job_logs" THEN done[call.job] # None ELSE status[call.attempt] = "completed"

\* The attempt is the one asked for.
LEMMA LogAttempt ==
  ASSUME RequestOfTool, RunSound, call.tool \in StreamTools
  PROVE  /\ call.attempt \in Attempt /\ attempt = call.attempt
         /\ call.tool \in LogTools /\ (call.tool = "job_logs" => call.job \in Job)
         /\ (call.tool # "job_logs" <=> call.tool = "run_logs")
BY LogReadsAssumption, RunAssumption DEF RequestOfTool, StreamTools, call, RunSound, LogTools

LEMMA IdsOfLogType ==
  ASSUME RequestOfTool, RunSound, RunSettled, call.tool \in StreamTools
  PROVE  /\ IdsOfLog \in Seq(Job)
         /\ Final => \A j \in ToSet(IdsOfLog) : done[j] # None
<1>1. CASE call.tool = "job_logs"
  <2>1. PICK j \in Job : j = call.job
    BY <1>1, LogAttempt
  <2>2. PICK e \in Seq(Job) : e = <<>> /\ ToSet(e) = {}
    BY EmptySeq, ToSetAppend
  <2>3. PICK ids \in Seq(Job) : ids = Append(e, j) /\ ids = <<j>>
    <3>1. Append(e, j) \in Seq(Job)
      BY AppendProperties
    <3>2. Append(<<>>, j) = <<j>>
      OBVIOUS
    <3>. QED  BY <2>2, <3>1, <3>2
  <2>4. ToSet(ids) = ToSet(e) \cup {j}
    <3>1. Extends(ids, e, j)
      BY <2>3 DEF Extends
    <3>. QED  BY <3>1, ToSetAppend
  <2>5. IdsOfLog = ids /\ ToSet(ids) = {j}
    BY <1>1, <2>1, <2>2, <2>3, <2>4 DEF IdsOfLog
  <2>6. Final => done[j] # None
    BY <1>1, <2>1 DEF Final
  <2>. QED  BY <2>5, <2>6
<1>2. CASE call.tool # "job_logs"
  BY <1>2, LogAttempt, SortedElements, KeepOnlyElements DEF RunSound, IdsOfLog, Final, RunSettled
<1>. QED  BY <1>1, <1>2

\* Once known they stay, and so do the logs.
LEMMA FinalStays ==
  ASSUME RequestOfTool, RunSound, RunSettled, Stays, scenario' = scenario, call.tool \in StreamTools, Final
  PROVE  /\ Final' /\ IdsOfLog' = IdsOfLog
         /\ Joined(IdsOfLog)' = Joined(IdsOfLog)
<1>0. call' = call /\ call.attempt \in Attempt
  BY LogAttempt DEF call
<1>1. Final' /\ IdsOfLog' = IdsOfLog
  BY <1>0, LogAttempt, SortedElements, ToSetIs, KeepOnlySame DEF Final, IdsOfLog, Stays, RunSound,
     RunSettled
<1>2. Joined(IdsOfLog)' = Joined(IdsOfLog)
  BY <1>1 DEF Joined
<1>. QED  BY <1>1, <1>2

\* bytes are the characters d, and b of one more.
Encodes(bytes, d, b) == bytes = Encode(d) \o b /\ Decoded(bytes) = d \o Flush(b)

LEMMA LogEncodes ==
  ASSUME NEW bytes \in Seq(Byte), IsEncoding(bytes)
  PROVE  \E d \in Seq(Char), b \in Seq(Byte) : Short(b) /\ Encodes(bytes, d, b)
<1>1. PICK c \in Char, n \in 0..3 : n < Width[c] /\ bytes = Encode(Decode(bytes)) \o Beginning(c, n)
  BY DEF IsEncoding
<1>2. PICK d \in Seq(Char), b \in Seq(Byte) : d = Decode(bytes) /\ b = Beginning(c, n) /\ Short(b)
  BY <1>1, ShortType, DecodeType DEF Short
<1>3. bytes = Encode(d) \o b
  BY <1>1, <1>2
<1>4. Complete(Encode(d) \o b).text = d /\ Complete(Encode(d) \o b).rest = b
  BY <1>2, CompleteIs
<1>5. Decoded(bytes) = d \o Flush(b)
  BY <1>3, <1>4 DEF Decoded
<1>. QED  BY <1>2, <1>3, <1>5 DEF Encodes

\* Of the characters d that are to come, x come with the next n bytes, and y later.
Takes(x, y, d, b, p, w, n) ==
  /\ d = x \o y /\ Complete(p \o SubSeq(w, 1, n)).text = x
  /\ Short(Complete(p \o SubSeq(w, 1, n)).rest)
  /\ Complete(p \o SubSeq(w, 1, n)).rest \o SubSeq(w, n + 1, Len(w)) = Encode(y) \o b

LEMMA TextAssociative ==
  ASSUME NEW u \in Seq(Char), NEW v \in Seq(Char), NEW w \in Seq(Char)
  PROVE  (u \o v) \o w = u \o (v \o w)
BY ConcatAssociative

LEMMA ChunkTakes ==
  ASSUME NEW d \in Seq(Char), NEW b \in Seq(Byte), Short(b), NEW p \in Seq(Byte), NEW w \in Seq(Byte),
         p \o w = Encode(d) \o b, NEW n \in Nat, n <= Len(w)
  PROVE  \E x, y \in Seq(Char) : Takes(x, y, d, b, p, w, n)
<1>a. \A u, v \in Seq(Byte) : (p \o u) \o v = p \o (u \o v)
  BY BytesAssociative DEF Reassociates
<1>1. PICK v \in Seq(Byte), rest \in Seq(Byte) :
        v = SubSeq(w, 1, n) /\ rest = SubSeq(w, n + 1, Len(w)) /\ w = v \o rest
  <2>1. /\ SubSeq(w, 1, n) \in Seq(Byte) /\ SubSeq(w, n + 1, Len(w)) \in Seq(Byte)
        /\ w = SubSeq(w, 1, n) \o SubSeq(w, n + 1, Len(w))
    BY Parts
  <2>. QED  BY <2>1
<1>2. PICK got \in Seq(Byte) : got = p \o v
  BY ConcatProperties
<1>3. (p \o v) \o rest = p \o (v \o rest)
  BY <1>a
<1>4. Encode(d) \o b = got \o rest
  BY <1>1, <1>2, <1>3
<1>5. Cuts(d, got, rest, b)
  BY <1>4, StreamCuts
<1>6. PICK x \in Seq(Char), y \in Seq(Char), r \in Seq(Byte) :
        d = x \o y /\ got = Encode(x) \o r /\ Short(r) /\ r \o rest = Encode(y) \o b
  BY <1>5 DEF Cuts, CutAt
<1>7. Complete(Encode(x) \o r).text = x /\ Complete(Encode(x) \o r).rest = r
  BY <1>6, CompleteIs
<1>8. Takes(x, y, d, b, p, w, n)
  BY <1>1, <1>2, <1>6, <1>7 DEF Takes
<1>. QED  BY <1>8

LEMMA NothingToCome ==
  ASSUME NEW d \in Seq(Char), NEW b \in Seq(Byte), Short(b), NEW p \in Seq(Byte), Short(p),
         p \o <<>> = Encode(d) \o b
  PROVE  d = <<>> /\ b = p
<1>1. PICK e \in Seq(Char) : e = <<>> /\ Encode(e) = <<>>
  BY EmptySeq, EncodeAppend
<1>2. Encode(e) \o p = p /\ p \o <<>> = p
  BY <1>1, ConcatEmptySeq
<1>3. Complete(Encode(e) \o p).text = e /\ Complete(Encode(e) \o p).rest = p
  BY CompleteIs
<1>4. Complete(Encode(d) \o b).text = d /\ Complete(Encode(d) \o b).rest = b
  BY CompleteIs
<1>. QED  BY <1>1, <1>2, <1>3, <1>4

\* More text of the last log.
Grows(s, g, t, u) ==
  t \o u \in Seq(Char) /\ Inert(s \o (g \o t)) \o Inert(u) = Inert(s \o (g \o (t \o u)))

LEMMA InertGrows ==
  ASSUME NEW s \in Seq(Char), NEW g \in Seq(Char), NEW t \in Seq(Char), NEW u \in Seq(Char)
  PROVE  Grows(s, g, t, u)
<1>a. (g \o t) \o u = g \o (t \o u)
  BY ConcatAssociative
<1>b. \A gt \in Seq(Char) : (s \o gt) \o u = s \o (gt \o u)
  BY ConcatAssociative
<1>1. PICK gt \in Seq(Char), tu \in Seq(Char) : gt = g \o t /\ tu = t \o u
  BY ConcatProperties
<1>2. PICK sgt \in Seq(Char) : sgt = s \o gt
  BY ConcatProperties
<1>3. sgt \o u = s \o (g \o tu)
  BY <1>a, <1>b, <1>1, <1>2
<1>4. Inert(sgt \o u) = Inert(sgt) \o Inert(u)
  BY InertConcat
<1>. QED  BY <1>1, <1>2, <1>3, <1>4 DEF Grows

-----------------------------------------------------------------------------
(***************************************************************************)
(* The jobs of which the log has been read are past; of the one that is    *)
(* being read, t has been taken, and d and the beginning b of one more     *)
(* character are to come.                                                  *)
(***************************************************************************)
LogsRead(past) ==
  /\ past \in Seq(Job) /\ IdsOfLog = past \o queue
  /\ (firstLog <=> past = <<>>) /\ round = "before" /\ Final

Streamed(past, t, d, b) ==
  /\ t \in Seq(Char) /\ d \in Seq(Char) /\ b \in Seq(Byte) /\ Short(b) /\ Short(pending)
  /\ pending \o wire = Encode(d) \o b
  /\ Decoded(scenario.log[Head(queue)]) = t \o (d \o Flush(b))
  /\ acc.seen = Inert(Joined(past) \o (Gap(Len(past) + 1) \o t))

\* The first of s goes to the end of p.
LEMMA HeadMoves ==
  ASSUME NEW X, NEW p \in Seq(X), NEW s \in Seq(X), s # <<>>
  PROVE  /\ Head(s) \in X /\ Tail(s) \in Seq(X) /\ Append(p, Head(s)) \in Seq(X)
         /\ Append(p, Head(s)) \o Tail(s) = p \o s
         /\ Append(p, Head(s)) # <<>> /\ Head(s) \in ToSet(p \o s)
<1>a. \A u, v \in Seq(X) : (p \o u) \o v = p \o (u \o v)
  BY ConcatAssociative
<1>b. \A e \in X : Append(p, e) \in Seq(X) /\ Append(p, e) = p \o <<e>> /\ Append(p, e) # <<>> /\ <<e>> \in Seq(X)
  BY AppendProperties, AppendIsConcat
<1>1. PICK e \in X, r \in Seq(X) : e = Head(s) /\ r = Tail(s)
  BY HeadTailProperties
<1>2. PICK n \in Nat : n = Len(s) /\ n >= 1 /\ s[1] = e
  BY <1>1, LenProperties, EmptySeq
<1>3. s = <<e>> \o r
  BY <1>2, <1>1, SubSeqRecursiveFirst, SubSeqFull, TailIsSubSeq
<1>4. Append(p, e) \o r = p \o s
  BY <1>a, <1>b, <1>1, <1>3
<1>5. e \in ToSet(p \o s)
  BY <1>2, ToSetIs, ToSetConcat
<1>. QED  BY <1>1, <1>b, <1>4, <1>5

\* Job j is the next, rest come behind it, and after it more will have been read.
NextLog(past, j, rest, more) ==
  /\ j \in Job /\ rest \in Seq(Job) /\ more \in Seq(Job) /\ more # <<>>
  /\ j = Head(queue) /\ rest = Tail(queue) /\ more \o rest = IdsOfLog
  /\ done[j] # None
  /\ Joined(past) \in Seq(Char) /\ Joined(more) = Joined(past) \o Joint(Len(past) + 1, j)
  /\ past = <<>> => Joined(past) = <<>>

LEMMA NextLogIs ==
  ASSUME RequestOfTool, RunSound, RunSettled, LogSound, call.tool \in StreamTools,
         pc \in {"open", "stream"}, NEW past, LogsRead(past)
  PROVE  \E j, rest, more : NextLog(past, j, rest, more)
<1>1. past \in Seq(Job) /\ queue \in Seq(Job) /\ queue # <<>> /\ IdsOfLog = past \o queue /\ Final
  BY DEF LogSound, LogsRead
<1>2. PICK j \in Job, rest \in Seq(Job), more \in Seq(Job) :
        j = Head(queue) /\ rest = Tail(queue) /\ more = Append(past, j)
        /\ more \o rest = past \o queue /\ more # <<>> /\ j \in ToSet(past \o queue)
  BY <1>1, HeadMoves
<1>3. Extends(more, past, j)
  BY <1>2 DEF Extends
<1>4. /\ Joined(past) \in Seq(Char) /\ Joined(more) = Joined(past) \o Joint(Len(past) + 1, j)
      /\ past = <<>> => Joined(past) = <<>>
  BY <1>1, <1>2, <1>3, JoinedAppend
<1>5. done[j] # None
  BY <1>1, <1>2, IdsOfLogType
<1>. QED  BY <1>1, <1>2, <1>4, <1>5 DEF NextLog

\* Text added to what is shown of the logs.
LEMMA SeenGrows ==
  ASSUME RequestOfTool, RunSound, LogSound, LogSelecting, call.tool \in StreamTools,
         NEW chunk \in Seq(Char)
  PROVE  /\ AddText(acc, chunk, call.sel).seen = acc.seen \o Inert(chunk)
         /\ acc.seen \in Seq(Char)
<1>1. call.tool \in LogTools /\ call.tool \in {"job_logs", "run_logs"}
  BY DEF StreamTools, LogTools
<1>2. /\ Selectable(call.sel) /\ (Given(call.sel.tail) => ~Given(call.sel.start) /\ ~Given(call.sel.end))
      /\ acc \in Fitting(call.sel) /\ Selecting(acc, call.sel)
  BY <1>1, LogSelectable DEF LogSound, LogSelecting
<1>3. AddText(acc, chunk, call.sel).seen = acc.seen \o Inert(chunk)
  BY <1>2, AddTextSelects
<1>. QED  BY <1>3 DEF LogSound, Accumulator

\* The logs are as they were.
LEMMA LogsStay ==
  ASSUME UNCHANGED <<scenario, runVars>>
  PROVE  /\ Final' = Final /\ IdsOfLog' = IdsOfLog /\ call' = call
         /\ \A ids : Joined(ids)' = Joined(ids)
BY DEF call, runVars, Final, IdsOfLog, Joined

\* A log that is opened is there to its end: its job is completed.
LEMMA OpenReads ==
  ASSUME RequestOfTool, RunSound, RunSettled, LogSound, LogSelecting, call.tool \in StreamTools,
         NEW past, LogsRead(past), acc.seen = Inert(Joined(past)),
         OpenLog, UNCHANGED <<scenario, runVars>>
  PROVE  Stop \/ (pc' = "stream" /\ LogsRead(past)' /\ \E t, d, b : Streamed(past, t, d, b)')
<1>1. PICK j, rest, more : NextLog(past, j, rest, more)
  BY NextLogIs DEF OpenLog
<1>2. PICK bytes \in Seq(Byte) : bytes = scenario.log[j] /\ IsEncoding(bytes)
  BY <1>1, LogReadsAssumption DEF RequestOfTool, NextLog, Byte
<1>3. PICK d \in Seq(Char), b \in Seq(Byte) : Short(b) /\ Encodes(bytes, d, b)
  BY <1>2, LogEncodes
<1>4. CASE done[j] = "skipped"
  BY <1>1, <1>4 DEF OpenLog, NextLog
<1>5. CASE done[j] # "skipped"
  <2>1. /\ \E n \in (IF done[j] = None THEN 0 ELSE Len(bytes))..Len(bytes) : wire' = SubSeq(bytes, 1, n)
        /\ acc' = IF firstLog THEN acc ELSE AddText(acc, <<Newline>>, call.sel)
        /\ pending' = <<>> /\ pc' = "stream"
        /\ UNCHANGED <<round, queue, firstLog>>
    BY <1>1, <1>2, <1>5 DEF OpenLog, NextLog, Goto, Then
  <2>2. wire' = bytes
    BY <1>1, <2>1, LenProperties, SubSeqFull DEF NextLog
  <2>3. PICK e \in Seq(Char), none \in Seq(Byte) : e = <<>> /\ none = <<>> /\ Short(none)
    BY EmptySeq, NothingIsShort, LogReadsAssumption
  <2>4. none \o bytes = Encode(d) \o b
    BY <1>3, <2>3, ConcatEmptySeq DEF Encodes
  <2>5. Decoded(bytes) = e \o (d \o Flush(b))
    BY <1>3, <2>3, CompleteType, ConcatProperties, ConcatEmptySeq DEF Encodes
  <2>6. acc'.seen = Inert(Joined(past) \o (Gap(Len(past) + 1) \o e))
    <3>1. PICK s \in Seq(Char), p \in Seq(Job), nl \in Seq(Char) : s = Joined(past) /\ p = past /\ nl = <<Newline>>
      <4>1. <<Newline>> \in Seq(Char)
        BY LogReadsAssumption
      <4>. QED  BY <1>1, <4>1 DEF NextLog, LogsRead
    <3>2. \A x \in Seq(Char) : x \o e = x
      BY <2>3, ConcatEmptySeq
    <3>3. CASE firstLog
      BY <3>3, <2>3, <3>2, <2>1, <3>1 DEF LogsRead, Gap
    <3>4. CASE ~firstLog
      <4>1. Len(p) + 1 # 1
        BY <3>1, <3>4, LenProperties, EmptySeq DEF LogsRead
      <4>2. Gap(Len(past) + 1) = nl
        BY <3>1, <4>1 DEF Gap
      <4>3. acc'.seen = acc.seen \o Inert(nl)
        BY <2>1, <3>1, <3>4, SeenGrows
      <4>4. acc'.seen = Inert(s \o nl)
        BY <3>1, <4>3, InertConcat
      <4>. QED  BY <3>1, <3>2, <4>2, <4>4
    <3>. QED  BY <3>3, <3>4
  <2>7. LogsRead(past)'
    BY <2>1, LogsStay DEF LogsRead
  <2>8. Streamed(past, e, d, b)'
    <3>1. Decoded(scenario'.log[Head(queue')]) = e \o (d \o Flush(b))
      BY <1>1, <1>2, <2>1, <2>5 DEF NextLog
    <3>2. pending' = none /\ pending' \o wire' = Encode(d) \o b
      BY <2>1, <2>2, <2>3, <2>4
    <3>3. Joined(past)' = Joined(past)
      BY LogsStay
    <3>. QED  BY <1>3, <2>3, <2>6, <3>1, <3>2, <3>3 DEF Streamed
  <2>. QED  BY <2>1, <2>7, <2>8
<1>. QED  BY <1>4, <1>5

Regroups(t, x, y, f) == t \o ((x \o y) \o f) = (t \o x) \o (y \o f)

LEMMA TakenAssociative ==
  ASSUME NEW t \in Seq(Char), NEW x \in Seq(Char), NEW y \in Seq(Char), NEW f \in Seq(Char)
  PROVE  Regroups(t, x, y, f)
<1>1. (x \o y) \o f = x \o (y \o f)
  BY TextAssociative
<1>2. \A w \in Seq(Char) : (t \o x) \o w = t \o (x \o w)
  BY TextAssociative
<1>3. y \o f \in Seq(Char)
  BY ConcatProperties
<1>. QED  BY <1>1, <1>2, <1>3 DEF Regroups

\* A chunk takes characters from those that are to come.
LEMMA ChunkReads ==
  ASSUME RequestOfTool, RunSound, RunSettled, LogSound, LogSelecting, call.tool \in StreamTools,
         NEW past, LogsRead(past), NEW t, NEW d, NEW b, Streamed(past, t, d, b),
         TakeChunk, UNCHANGED <<scenario, runVars>>
  PROVE  pc' = "stream" /\ LogsRead(past)' /\ \E x, y : Streamed(past, t \o x, y, b)'
<1>1. PICK j, rest, more : NextLog(past, j, rest, more)
  BY NextLogIs DEF TakeChunk
<1>2. /\ t \in Seq(Char) /\ d \in Seq(Char) /\ b \in Seq(Byte) /\ Short(b)
      /\ pending \in Seq(Byte) /\ wire \in Seq(Byte) /\ pending \o wire = Encode(d) \o b
      /\ Decoded(scenario.log[j]) = t \o (d \o Flush(b))
      /\ acc.seen = Inert(Joined(past) \o (Gap(Len(past) + 1) \o t))
  BY <1>1 DEF Streamed, LogSound, NextLog
<1>3. PICK n \in 1..Min({ChunkBytes, Len(wire)}) :
        /\ wire' = SubSeq(wire, n + 1, Len(wire))
        /\ pending' = Complete(pending \o SubSeq(wire, 1, n)).rest
        /\ acc' = AddText(acc, Complete(pending \o SubSeq(wire, 1, n)).text, call.sel)
  BY DEF TakeChunk
<1>4. pc' = "stream" /\ UNCHANGED <<round, queue, firstLog>>
  BY DEF TakeChunk, callVars
<1>5. n \in Nat /\ n <= Len(wire)
  <2>1. PICK l \in Nat, c \in Nat : l = Len(wire) /\ c = ChunkBytes
    BY <1>2, LogReadsAssumption, LenProperties
  <2>2. Min({c, l}) \in Int /\ Min({c, l}) <= l
    BY MinIs
  <2>. QED  BY <1>3, <2>1, <2>2
<1>6. PICK x \in Seq(Char), y \in Seq(Char) : Takes(x, y, d, b, pending, wire, n)
  BY <1>2, <1>5, ChunkTakes
<1>7. PICK f \in Seq(Char), s \in Seq(Char), g \in Seq(Char) :
        f = Flush(b) /\ s = Joined(past) /\ g = Gap(Len(past) + 1)
  BY <1>2, <1>1, CompleteType, JointType DEF NextLog
<1>8. Decoded(scenario.log[j]) = (t \o x) \o (y \o f)
  <2>1. d = x \o y
    BY <1>6 DEF Takes
  <2>2. t \in Seq(Char)
    BY <1>2
  <2>3. Regroups(t, x, y, f)
    BY <1>6, <1>7, <2>2, TakenAssociative
  <2>. QED  BY <1>2, <1>7, <2>1, <2>3 DEF Regroups
<1>9. t \o x \in Seq(Char) /\ acc'.seen = Inert(s \o (g \o (t \o x)))
  <2>1. acc'.seen = acc.seen \o Inert(x)
    BY <1>3, <1>6, SeenGrows DEF Takes
  <2>2. Grows(s, g, t, x)
    BY <1>2, <1>6, <1>7, InertGrows
  <2>. QED  BY <1>2, <1>7, <2>1, <2>2 DEF Grows
<1>10. Streamed(past, t \o x, y, b)'
  BY <1>1, <1>4, <1>7, <1>8, <1>3, <1>6, <1>2, <1>9, LogsStay DEF NextLog, Takes, Streamed
<1>11. LogsRead(past)'
  BY <1>4, LogsStay DEF LogsRead
<1>. QED  BY <1>4, <1>10, <1>11

\* The end of a log: all of it has been taken, and the next is read, if there is one.
LEMMA EndReads ==
  ASSUME RequestOfTool, RunSound, RunSettled, LogSound, LogSelecting, call.tool \in StreamTools,
         NEW past, LogsRead(past), NEW t, NEW d, NEW b, Streamed(past, t, d, b),
         EndStream, UNCHANGED <<scenario, runVars>>
  PROVE  \/ /\ pc' \in {"job", "attempt"} /\ round' = "after"
            /\ acc'.seen = Inert(Joined(IdsOfLog)) /\ Final
         \/ pc' = "open" /\ \E more : LogsRead(more)' /\ acc'.seen = Inert(Joined(more))
<1>1. PICK j, rest, more : NextLog(past, j, rest, more)
  BY NextLogIs DEF EndStream
<1>2. /\ t \in Seq(Char) /\ d \in Seq(Char) /\ b \in Seq(Byte) /\ Short(b) /\ Short(pending)
      /\ pending \in Seq(Byte) /\ wire = <<>> /\ pending \o wire = Encode(d) \o b
      /\ Decoded(scenario.log[j]) = t \o (d \o Flush(b))
      /\ acc.seen = Inert(Joined(past) \o (Gap(Len(past) + 1) \o t))
  BY <1>1 DEF Streamed, LogSound, NextLog, EndStream
<1>3. d = <<>> /\ b = pending
  BY <1>2, NothingToCome
<1>4. PICK f \in Seq(Char), s \in Seq(Char), g \in Seq(Char) :
        f = Flush(pending) /\ s = Joined(past) /\ g = Gap(Len(past) + 1)
  BY <1>2, <1>1, CompleteType, JointType DEF NextLog
<1>5. Decoded(scenario.log[j]) = t \o f
  BY <1>3, <1>4, <1>2, ConcatEmptySeq
<1>6. acc'.seen = Inert(Joined(more))
  <2>1. acc'.seen = acc.seen \o Inert(f)
    BY <1>4, SeenGrows DEF EndStream
  <2>2. Grows(s, g, t, f)
    BY <1>2, <1>4, InertGrows
  <2>3. acc'.seen = Inert(s \o (g \o (t \o f)))
    BY <1>2, <1>4, <2>1, <2>2 DEF Grows
  <2>4. Joined(more) = s \o (g \o (t \o f))
    BY <1>1, <1>4, <1>5 DEF NextLog, Joint
  <2>. QED  BY <2>3, <2>4
<1>7. /\ queue' = rest /\ firstLog' = FALSE
      /\ round' = IF rest = <<>> THEN "after" ELSE "before"
      /\ pc' = IF rest # <<>> THEN "open" ELSE IF call.tool = "job_logs" THEN "job" ELSE "attempt"
  BY <1>1 DEF EndStream, NextLog, Goto, Then
<1>8. more \in Seq(Job) /\ more # <<>> /\ IdsOfLog = more \o rest
  BY <1>1 DEF NextLog
<1>9. CASE rest = <<>>
  BY <1>8, <1>9, <1>6, <1>7, ConcatEmptySeq DEF LogsRead
<1>10. CASE rest # <<>>
  BY <1>7, <1>8, <1>10, <1>6, LogsStay DEF LogsRead
<1>. QED  BY <1>9, <1>10

-----------------------------------------------------------------------------
(***************************************************************************)
(* The list of the jobs of an attempt that is completed: it stays as it is *)
(* while it is read, so that the pages make up the whole of it.            *)
(***************************************************************************)
ScannedTo(n) ==
  /\ n = (page - 1) * JobsPerPage /\ n <= Len(listed[attempt])
  /\ scanned = Entries(SubSeq(listed[attempt], 1, n))

ListedSoFar == status[attempt] = "completed" /\ \E n \in Nat : ScannedTo(n)

\* The page that is read next goes up to job m.
PageTo(m, all) ==
  /\ m <= Len(listed[attempt]) /\ (m < Len(listed[attempt]) => m = page * JobsPerPage)
  /\ all = Entries(SubSeq(listed[attempt], 1, m)) /\ Len(all) = m

LEMMA NextPage ==
  ASSUME RequestOfTool, RunSound, LogSound, attempt \in Attempt, NEW n \in Nat, ScannedTo(n)
  PROVE  \E m \in Nat : PageTo(m, scanned \o Entries(JobsPage(attempt, page, JobsPerPage)))
<1>1. PICK s \in Seq(Job), l \in Nat : s = listed[attempt] /\ l = Len(s)
  BY LenProperties DEF RunSound
<1>2. PICK p \in Nat, per \in Nat : p = page /\ p >= 1 /\ per = JobsPerPage /\ per >= 1
  BY RunAssumption DEF LogSound
<1>3. PICK hi \in Nat : hi = p * per /\ hi = n + per /\ (p - 1) * per = n
  BY <1>2 DEF ScannedTo
<1>4. PICK m \in Int : m = Min({hi, l}) /\ m <= l /\ m <= hi /\ m \in {hi, l}
  BY MinIs
<1>5. n <= l /\ scanned = Entries(SubSeq(s, 1, n))
  BY <1>1 DEF ScannedTo
<1>6. m \in Nat /\ n <= m /\ (m < l => m = hi)
  BY <1>2, <1>3, <1>4, <1>5
<1>7. JobsPage(attempt, page, JobsPerPage) = SubSeq(s, n + 1, m)
  BY <1>1, <1>2, <1>3, <1>4, Zenon DEF JobsPage
<1>8. PICK a \in Seq(Job), b \in Seq(Job), c \in Seq(Job) :
        a = SubSeq(s, 1, n) /\ b = SubSeq(s, n + 1, m) /\ c = SubSeq(s, 1, m) /\ Len(c) = m
  <2>1. n <= Len(s) /\ m <= Len(s) /\ m \in Nat /\ n + 1 >= 1
    BY <1>1, <1>4, <1>5, <1>6
  <2>2. SubSeq(s, 1, n) \in Seq(Job) /\ SubSeq(s, n + 1, m) \in Seq(Job) /\ SubSeq(s, 1, m) \in Seq(Job)
    BY <2>1, PieceElements
  <2>3. Len(SubSeq(s, 1, m)) = m
    BY <2>1, <1>6, LenProperties, SubSeqProperties
  <2>. QED  BY <2>2, <2>3
<1>9. c = a \o b
  BY <1>1, <1>4, <1>6, <1>8, PiecesJoin
<1>10. Entries(c) = Entries(a) \o Entries(b) /\ Len(Entries(c)) = m
  BY <1>8, <1>9, EntriesConcat, EntriesType
<1>. QED
  BY <1>1, <1>2, <1>3, <1>4, <1>5, <1>6, <1>7, <1>8, <1>10 DEF PageTo

\* What was noted of the jobs of an attempt that is completed is still so.
LEMMA ListedStays ==
  ASSUME RunSound, RunSettled, Stays, attempt \in Attempt, ListedSoFar, UNCHANGED <<attempt, page, scanned>>
  PROVE  ListedSoFar'
<1>1. PICK s \in Seq(Job), l \in Nat : s = listed[attempt] /\ l = Len(s) /\ \A k \in 1..l : s[k] \in Job
  BY LenProperties DEF RunSound
<1>2. PICK n \in Nat : ScannedTo(n)
  BY DEF ListedSoFar
<1>3. /\ status[attempt] = "completed" /\ n = (page - 1) * JobsPerPage /\ n <= l
      /\ scanned = Entries(SubSeq(s, 1, n))
  BY <1>1, <1>2 DEF ScannedTo, ListedSoFar
<1>4. status'[attempt'] = "completed" /\ listed'[attempt'] = s
  BY <1>1, <1>3 DEF Stays
<1>5. PICK t : t = SubSeq(s, 1, n)
  OBVIOUS
<1>a. t \in Seq(Job) /\ Len(t) = n /\ \A k \in 1..n : t[k] = s[k]
  BY <1>1, <1>3, <1>5, SubSeqProperties
<1>6. \A k \in 1..n : t[k] \in Job /\ done'[t[k]] = done[t[k]]
  BY <1>1, <1>3, <1>a, ToSetIs DEF RunSettled, Stays
<1>7. Entries(t)' = Entries(t)
  BY <1>a, <1>6, LenProperties DEF Entries
<1>8. ScannedTo(n)'
  BY <1>1, <1>3, <1>4, <1>5, <1>7 DEF ScannedTo
<1>. QED  BY <1>4, <1>8 DEF ListedSoFar

\* The jobs that have a log, of those that were listed.
LEMMA LoggedOfListed ==
  ASSUME RequestOfTool, RunSound, call.tool = "run_logs", NEW all, all = Entries(listed[attempt])
  PROVE  KeepOnly(Sorted(Ids(all), Smaller), {e.id : e \in {e \in ToSet(all) : e.done # "skipped"}}) = IdsOfLog
<1>1. attempt = call.attempt /\ call.attempt \in Attempt
  BY LogAttempt DEF StreamTools
<1>2. PICK s \in Seq(Job) : s = listed[attempt] /\ \A j \in ToSet(s) : j \in Job
  BY <1>1, ToSetIs DEF RunSound
<1>3. PICK o \in Seq(Job) : o = Sorted(s, Smaller) /\ ToSet(o) = ToSet(s)
  BY SortedElements
<1>4. Ids(all) = s /\ ToSet(all) = {[id |-> j, done |-> done[j]] : j \in ToSet(s)}
  BY <1>2, EntriesConcat
<1>5. PICK S, R : /\ S = {e.id : e \in {e \in ToSet(all) : e.done # "skipped"}}
                  /\ R = {j \in Job : done[j] # "skipped"}
  OBVIOUS
<1>6. \A j \in ToSet(o) : j \in S <=> j \in R
  <2>1. \A j : j \in S <=> j \in ToSet(s) /\ done[j] # "skipped"
    <3>1. ASSUME NEW j, j \in S PROVE j \in ToSet(s) /\ done[j] # "skipped"
      BY <1>4, <1>5, <3>1
    <3>2. ASSUME NEW j \in ToSet(s), done[j] # "skipped" PROVE j \in S
      <4>0. PICK d : d = done[j]
        OBVIOUS
      <4>1. PICK e : e = [id |-> j, done |-> d]
        OBVIOUS
      <4>2. e \in ToSet(all) /\ e.done # "skipped"
        BY <1>4, <3>2, <4>0, <4>1
      <4>. QED  BY <1>5, <4>0, <4>1, <4>2
    <3>. QED  BY <3>1, <3>2
  <2>. QED  BY <1>2, <1>3, <1>5, <2>1
<1>7. KeepOnly(o, S) = KeepOnly(o, R)
  BY <1>6, KeepOnlySame
<1>8. IdsOfLog = KeepOnly(o, R)
  BY <1>1, <1>2, <1>3, <1>5 DEF IdsOfLog
<1>. QED  BY <1>3, <1>4, <1>5, <1>7, <1>8

LEMMA NothingRead ==
  ASSUME RequestOfTool
  PROVE  <<>> = Inert(Joined(<<>>)) /\ \A ids \in Seq(Job) : <<>> \o ids = ids /\ <<>> \in Seq(Job)
BY JoinedAppend, FlattenAppend, EmptySeq, ConcatEmptySeq DEF Inert

-----------------------------------------------------------------------------
(***************************************************************************)
(* The reading of logs up to any moment.  Before the first log, nothing is *)
(* shown; while logs are read, what is shown is of those that have been    *)
(* read and of a beginning of the one that is; behind the last, it is all. *)
(***************************************************************************)
FirstLook == pc \in {"job", "attempt", "member", "list"} /\ round = "before"

LogWhole ==
  call.tool \in StreamTools =>
    /\ pc = "open" => \E past : LogsRead(past) /\ acc.seen = Inert(Joined(past))
    /\ pc = "stream" => \E past, t, d, b : LogsRead(past) /\ Streamed(past, t, d, b)
    /\ FirstLook => acc.seen = <<>> /\ firstLog
    /\ round = "after" => Final /\ acc.seen = Inert(Joined(IdsOfLog))
    /\ pc = "delivered" => round = "after"
    /\ call.tool = "job_logs" /\ seenDone # None => done[call.job] # None
    /\ FirstLook /\ call.tool = "run_logs" /\ pc = "list" => ListedSoFar

\* The logs that are being read are final, so that nothing that GitHub does matters.
LEMMA KeepsWhole ==
  ASSUME RequestOfTool, RunSound, RunSettled, LogWhole, Stays,
         UNCHANGED <<scenario, attempt, logVars>>,
         pc' \in {pc, "raised"} \/ (pc' = "delivered" /\ round = "after")
  PROVE  LogWhole'
<1> SUFFICES ASSUME call.tool \in StreamTools, call' = call
             PROVE  LogWhole'
  BY DEF LogWhole, call
<1>0. UNCHANGED <<round, seenDone, page, total, scanned, before, queue, firstLog, wire, pending, acc>>
  BY DEF logVars, pageVars, streamVars
<1>1. Final => Final' /\ IdsOfLog' = IdsOfLog /\ Joined(IdsOfLog)' = Joined(IdsOfLog)
  BY FinalStays
<1>2. \A ids : Joined(ids)' = Joined(ids)
  BY DEF Joined
<1>3. \A past : LogsRead(past) => LogsRead(past)'
  BY <1>0, <1>1 DEF LogsRead
<1>4. \A past, t, d, b : Streamed(past, t, d, b) => Streamed(past, t, d, b)'
  BY <1>0, <1>2 DEF Streamed
<1>5. pc' = "open" => \E past : LogsRead(past)' /\ acc'.seen = Inert(Joined(past)')
  BY <1>0, <1>2, <1>3 DEF LogWhole
<1>6. pc' = "stream" => \E past, t, d, b : LogsRead(past)' /\ Streamed(past, t, d, b)'
  BY <1>3, <1>4 DEF LogWhole
<1>7. FirstLook' => FirstLook /\ acc'.seen = <<>> /\ firstLog'
  BY <1>0 DEF LogWhole, FirstLook
<1>8. round' = "after" => Final' /\ acc'.seen = Inert(Joined(IdsOfLog)')
  BY <1>0, <1>1 DEF LogWhole
<1>9. pc' = "delivered" => round' = "after"
  BY <1>0 DEF LogWhole
<1>10. call.tool = "job_logs" /\ seenDone' # None => done'[call.job] # None
  BY <1>0, LogAttempt DEF LogWhole, Stays
<1>11. FirstLook' /\ call.tool = "run_logs" /\ pc' = "list" => ListedSoFar'
  BY <1>7, <1>0, LogAttempt, ListedStays DEF LogWhole
<1>. QED  BY <1>5, <1>6, <1>7, <1>8, <1>9, <1>10, <1>11 DEF LogWhole

\* A call that ends, ends with all of the logs or with an error.
LEMMA StopsWhole ==
  ASSUME RequestOfTool, RunSound, RunSettled, LogWhole, UNCHANGED <<scenario, runVars>>,
         Stop \/ (DeliverEvidence /\ round = "after")
  PROVE  LogWhole'
BY KeepsWhole DEF runVars, Stays, Stop, DeliverEvidence, Raise, Raises, Deliver, Returns

\* The step of the request by which the job, or the attempt, is looked at.
LEMMA LookWhole ==
  ASSUME RequestOfTool, RunSound, RunSettled, LogSound, LogWhole, UNCHANGED <<scenario, runVars>>,
         call.tool \in StreamTools, ReadJob \/ ReadAttempt
  PROVE  LogWhole'
<1>0. call' = call
  BY DEF call
<1>1. /\ Final' = Final /\ IdsOfLog' = IdsOfLog /\ Joined(IdsOfLog)' = Joined(IdsOfLog)
      /\ done' = done /\ listed' = listed /\ status' = status
  BY LogsStay DEF runVars
<1>2. CASE Stop
  BY <1>2, StopsWhole
<1>3. CASE ReadJob /\ ~Stop
  BY <1>3, <1>1, <1>0 DEF ReadJob, Goto, Then, streamVars, LogWhole, FirstLook
<1>4. CASE ReadAttempt /\ ~Stop
  <2>1. /\ pc = "attempt" /\ pc' = (IF call.tool = "job_logs" THEN "member" ELSE "list")
        /\ page' = 1 /\ scanned' = <<>> /\ attempt' = attempt
        /\ UNCHANGED <<round, seenDone, before, queue, streamVars>>
        /\ call.tool = "run_logs" /\ round = "before" => status[attempt] = "completed"
    BY <1>4 DEF ReadAttempt, Goto, Then, FirstPage
  <2>2. UNCHANGED <<acc, firstLog>>
    BY <2>1 DEF streamVars
  <2>3. FirstLook' => acc'.seen = <<>> /\ firstLog'
    BY <2>1, <2>2 DEF LogWhole, FirstLook
  <2>4. round' = "after" => Final' /\ acc'.seen = Inert(Joined(IdsOfLog)')
    BY <1>1, <2>1, <2>2 DEF LogWhole
  <2>5. call.tool = "job_logs" /\ seenDone' # None => done'[call.job] # None
    BY <1>1, <2>1 DEF LogWhole
  <2>6. call.tool = "run_logs" /\ round' = "before" => ListedSoFar'
    BY <1>1, <2>1, LogAttempt, LenProperties, SubSeqEmpty, RunAssumption DEF RunSound, Entries,
       ScannedTo, ListedSoFar
  <2>. QED  BY <1>0, <2>1, <2>3, <2>4, <2>5, <2>6 DEF LogWhole, FirstLook
<1>. QED  BY <1>2, <1>3, <1>4

\* The logs are opened that are to be read.
LEMMA OpensWhole ==
  ASSUME RequestOfTool, RunSound, RunSettled, LogSound, LogWhole, UNCHANGED <<scenario, runVars>>,
         call.tool \in StreamTools, FirstLook, Final, IdsOfLog # <<>>,
         pc' = "open", queue' = IdsOfLog, round' = "before",
         UNCHANGED <<seenDone, firstLog, acc>>
  PROVE  LogWhole'
BY LogsStay, IdsOfLogType, NothingRead DEF call, runVars, LogWhole, LogsRead, FirstLook

LEMMA MemberWhole ==
  ASSUME RequestOfTool, RunSound, RunSettled, LogSound, LogWhole, UNCHANGED <<scenario, runVars>>,
         call.tool \in StreamTools, ReadMember
  PROVE  LogWhole'
<1>1. call.tool = "job_logs" /\ pc = "member" /\ call.job \in Job /\ round \in {"before", "after"}
  <2>1. pc = "member" /\ round \in {"before", "after"}
    BY DEF ReadMember, LogSound
  <2>2. call.tool = "job_logs"
    BY <2>1 DEF RequestOfTool, Requests, Ended, StreamTools
  <2>. QED  BY <2>1, <2>2, LogAttempt
<1>2. CASE Stop \/ (DeliverEvidence /\ round = "after")
  BY <1>2, StopsWhole
<1>3. CASE /\ round # "after" /\ seenDone # None
           /\ pc' = "open" /\ queue' = <<call.job>>
           /\ UNCHANGED <<round, seenDone, pageVars, before, streamVars>>
  BY <1>1, <1>3, OpensWhole DEF IdsOfLog, Final, FirstLook, LogWhole, streamVars
<1>4. CASE UNCHANGED <<callVars, round, seenDone, before, queue, streamVars>>
  BY <1>1, <1>4, LogsStay DEF callVars, streamVars, call, runVars, LogWhole, FirstLook
<1>5. \/ Stop
      \/ DeliverEvidence /\ round = "after"
      \/ /\ round # "after" /\ seenDone # None
         /\ pc' = "open" /\ queue' = <<call.job>>
         /\ UNCHANGED <<round, seenDone, pageVars, before, streamVars>>
      \/ UNCHANGED <<callVars, round, seenDone, before, queue, streamVars>>
  BY <1>1 DEF ReadMember, Goto, Then
<1>. QED  BY <1>2, <1>3, <1>4, <1>5

\* All the jobs of an attempt that is completed are known.
LEMMA AllJobsWhole ==
  ASSUME RequestOfTool, RunSound, RunSettled, LogSound, LogWhole, UNCHANGED <<scenario, runVars>>,
         call.tool = "run_logs", pc = "list", NEW all, WithAllJobs(all),
         round = "before" => status[attempt] = "completed" /\ all = Entries(listed[attempt])
  PROVE  LogWhole'
<1>0. call.tool \in StreamTools /\ call' = call /\ attempt = call.attempt /\ round \in {"before", "after"}
  BY LogAttempt DEF StreamTools, call, LogSound
<1>1. PICK ids, withLog, logged :
        /\ ids = Sorted(Ids(all), Smaller)
        /\ withLog = {e.id : e \in {e \in ToSet(all) : e.done # "skipped"}}
        /\ logged = KeepOnly(ids, withLog)
  OBVIOUS
<1>2. \/ Stop
      \/ DeliverEvidence /\ round = "after"
      \/ /\ round # "after" /\ before' = ids /\ queue' = logged
         /\ round' = IF logged = <<>> THEN "after" ELSE "before"
         /\ Goto(IF logged = <<>> THEN "attempt" ELSE "open")
         /\ UNCHANGED <<seenDone, pageVars, streamVars>>
  BY <1>1, Zenon DEF WithAllJobs
<1>3. CASE Stop \/ (DeliverEvidence /\ round = "after")
  BY <1>3, StopsWhole
<1>4. CASE /\ round # "after" /\ before' = ids /\ queue' = logged
           /\ round' = IF logged = <<>> THEN "after" ELSE "before"
           /\ Goto(IF logged = <<>> THEN "attempt" ELSE "open")
           /\ UNCHANGED <<seenDone, pageVars, streamVars>>
  <2>1. FirstLook /\ Final /\ logged = IdsOfLog
    BY <1>0, <1>4, <1>1, LoggedOfListed DEF FirstLook, Final
  <2>2. UNCHANGED <<seenDone, firstLog, acc>> /\ acc.seen = <<>>
    BY <1>0, <1>4, <2>1 DEF streamVars, LogWhole
  <2>3. CASE logged # <<>>
    BY <1>4, <2>1, <2>3, <1>0, <2>2, OpensWhole DEF Goto, Then
  <2>4. CASE logged = <<>>
    BY <1>4, <2>4, <2>1, <2>2, <1>0, LogsStay, NothingRead DEF Goto, Then, runVars, LogWhole, FirstLook
  <2>. QED  BY <2>3, <2>4
<1>. QED  BY <1>2, <1>3, <1>4

LEMMA ListWhole ==
  ASSUME RequestOfTool, RunSound, RunSettled, LogSound, LogWhole, UNCHANGED <<scenario, runVars>>,
         call.tool \in StreamTools, ReadList
  PROVE  LogWhole'
<1>0. pc = "list" /\ call.tool = "run_logs" /\ attempt \in Attempt /\ round \in {"before", "after"}
  <2>1. pc = "list" /\ round \in {"before", "after"}
    BY DEF ReadList, LogSound
  <2>2. call.tool = "run_logs"
    BY <2>1 DEF RequestOfTool, Requests, Ended, StreamTools
  <2>. QED  BY <2>1, <2>2, LogAttempt
<1>1. PICK ids, all : ids = JobsPage(attempt, page, JobsPerPage) /\ all = scanned \o Entries(ids)
  OBVIOUS
<1>2. PICK count \in Nat : count = Len(listed[attempt])
  BY <1>0, LenProperties DEF RunSound
<1>3. \/ Stop
      \/ Len(all) = count /\ WithAllJobs(all)
      \/ /\ ~(Len(all) > count) /\ Len(all) # count
         /\ page' = page + 1 /\ scanned' = all
         /\ UNCHANGED <<callVars, round, seenDone, before, queue, streamVars>>
  BY <1>1, <1>2, Zenon DEF ReadList
<1>4. round = "before" => status[attempt] = "completed" /\ \E m \in Nat : PageTo(m, all)
  BY <1>0, <1>1, NextPage DEF LogWhole, FirstLook, ListedSoFar
<1>5. CASE Stop
  BY <1>5, StopsWhole
<1>6. CASE Len(all) = count /\ WithAllJobs(all)
  BY <1>4, <1>0, <1>2, <1>6, SubSeqFull, AllJobsWhole DEF RunSound, PageTo
<1>7. CASE /\ ~(Len(all) > count) /\ Len(all) # count
           /\ page' = page + 1 /\ scanned' = all
           /\ UNCHANGED <<callVars, round, seenDone, before, queue, streamVars>>
  <2>1. pc' = "list" /\ attempt' = attempt /\ UNCHANGED <<round, seenDone, firstLog, acc>> /\ call' = call
    BY <1>0, <1>7 DEF callVars, streamVars, call
  <2>2. /\ Final' = Final /\ Joined(IdsOfLog)' = Joined(IdsOfLog)
        /\ done' = done /\ status' = status /\ listed' = listed
    BY LogsStay DEF runVars
  <2>3. round = "before" => ListedSoFar'
    <3> SUFFICES ASSUME round = "before" PROVE ListedSoFar'
      OBVIOUS
    <3>1. PICK m \in Nat : PageTo(m, all)
      BY <1>4
    <3>2. /\ m = page * JobsPerPage /\ m <= Len(listed[attempt])
          /\ all = Entries(SubSeq(listed[attempt], 1, m))
      BY <1>2, <1>7, <3>1 DEF PageTo
    <3>3. (page' - 1) * JobsPerPage = m
      <4>1. page \in Nat /\ page' - 1 = page
        BY <1>7 DEF LogSound
      <4>. QED  BY <3>2, <4>1
    <3>4. Entries(SubSeq(listed[attempt], 1, m))' = Entries(SubSeq(listed[attempt], 1, m))
      BY <2>1, <2>2 DEF Entries
    <3>5. ScannedTo(m)'
      BY <1>7, <2>1, <2>2, <3>2, <3>3, <3>4 DEF ScannedTo
    <3>. QED  BY <1>4, <2>1, <2>2, <3>5 DEF ListedSoFar
  <2>. QED  BY <1>0, <2>1, <2>2, <2>3 DEF LogWhole, FirstLook
<1>. QED  BY <1>3, <1>5, <1>6, <1>7

LEMMA LogStepWhole ==
  ASSUME RequestOfTool, RunSound, RunSettled, LogSound, LogSelecting, LogWhole, LogStep
  PROVE  LogWhole'
<1>1. LogNext /\ UNCHANGED <<scenario, runVars>> /\ call' = call
  BY DEF LogStep, othersOfLog, call
<1>2. CASE call.tool \notin StreamTools
  BY <1>1, <1>2 DEF LogWhole
<1> SUFFICES ASSUME call.tool \in StreamTools PROVE LogWhole'
  BY <1>2
<1>3. Final' = Final /\ done' = done /\ IdsOfLog' = IdsOfLog /\ \A ids : Joined(ids)' = Joined(ids)
  BY <1>1, LogsStay DEF runVars
<1>4. CASE ReadJob \/ ReadAttempt
  BY <1>1, <1>4, LookWhole
<1>5. CASE ReadMember
  BY <1>1, <1>5, MemberWhole
<1>6. CASE ReadList
  BY <1>1, <1>6, ListWhole
<1>7. CASE OpenLog
  BY <1>7, <1>1, <1>3, StopsWhole, OpenReads DEF OpenLog, LogWhole, Stop, logVars, LogsRead, FirstLook
<1>8. CASE TakeChunk
  BY <1>8, <1>1, <1>3, ChunkReads DEF TakeChunk, LogWhole, LogsRead, FirstLook
<1>9. CASE EndStream
  BY <1>9, <1>1, <1>3, EndReads, LogsStay DEF EndStream, LogWhole, FirstLook, LogsRead
<1>10. CASE StreamFails
  BY <1>1, <1>10, StopsWhole DEF StreamFails, StreamRetrySafe
<1>11. ~ResolveFailed /\ ~ReadFailed /\ ~VerifyFailed
  BY DEF RequestOfTool, Requests, Ended, StreamTools, ResolveFailed, ReadFailed, VerifyFailed
<1>. QED  BY <1>1, <1>4, <1>5, <1>6, <1>7, <1>8, <1>9, <1>10, <1>11 DEF LogNext

LEMMA LogWholeInvariant == Spec => []LogWhole
<1>1. Init => LogWhole
  BY DEF LogWhole, Init, ReadInit, LogInit, NewEvidence, FirstRequest, StreamTools, FirstLook
<1>2. RequestOfTool /\ RunSound /\ RunSettled /\ LogSound /\ LogSelecting /\ LogWhole /\ [Next]_vars => LogWhole'
  <2> SUFFICES ASSUME RequestOfTool, RunSound, RunSettled, LogSound, LogSelecting, LogWhole, [Next]_vars
               PROVE  LogWhole'
    OBVIOUS
  <2>1. Stays
    BY StepSettles
  <2>2. \/ LogStep
        \/ UNCHANGED scenario /\ call.tool \notin StreamTools
        \/ UNCHANGED <<scenario, attempt, logVars>> /\ pc' \in {pc, "raised"}
    <3>1. CASE UNCHANGED vars
      BY <3>1 DEF vars, runReadVars, replyVars
    <3>2. CASE RunListStep \/ WatchStep \/ ArchiveStep \/ WholeStep \/ PullStep \/ ExactStep
      BY <3>2 DEF RunListStep, othersOfRunList, WatchStep, othersOfWatch, ArchiveStep, othersOfArchive,
         WholeStep, othersOfWhole, PullStep, othersOfPull, ExactStep, othersOfExact,
         StreamTools, RunListTools, ArchiveTools, WholeTools, PullTools, ExactTools
    <3>3. CASE FailStep
      BY <3>3 DEF FailStep, RequestFails, Raises, runReadVars
    <3>4. CASE RunMoves \/ ItemMoves \/ SnapshotMoves \/ RepositoryMoves
      BY <3>4 DEF RunMoves, GitHub, JobAppears, JobCompletes, AttemptCompletes, Rerun, RunChange,
         ItemMoves, ListGitHub, ItemAppears, ItemDeleted, SnapshotMoves, PullGitHub, PullMoves,
         RepositoryMoves, ExactGitHub, AccessChanges, Pushed, RefDeleted, Change, replyVars, runReadVars
    <3>. QED  BY StepByTool, <3>1, <3>2, <3>3, <3>4
  <2>3. CASE LogStep
    BY <2>3, LogStepWhole
  <2>4. CASE UNCHANGED scenario /\ call.tool \notin StreamTools
    BY <2>4 DEF LogWhole, call
  <2>5. CASE UNCHANGED <<scenario, attempt, logVars>> /\ pc' \in {pc, "raised"}
    BY <2>1, <2>5, KeepsWhole
  <2>. QED  BY <2>2, <2>3, <2>4, <2>5
<1>. QED
  BY <1>1, <1>2, RequestOfToolInvariant, RunSoundInvariant, RunSettledInvariant, LogSoundInvariant,
     LogSelectingInvariant, PTL DEF Spec

(***************************************************************************)
(* Log evidence that is returned, and for as long as the run goes on, is   *)
(* of all of the log of the job, or of all the jobs of the attempt that    *)
(* have one, in the order of their ids, each of them completed             *)
(* (tools/action_logs.py).                                                 *)
(***************************************************************************)
THEOREM LogsAreWholeAndFinalInvariant == Spec => []LogsAreWholeAndFinal
<1>1. RequestOfTool /\ RunSound /\ RunSettled /\ LogSound /\ LogWhole => LogsAreWholeAndFinal
  BY IdsOfLogType DEF LogsAreWholeAndFinal, StreamTools, IdsOfLog, LogWhole
<1>. QED
  BY <1>1, RequestOfToolInvariant, RunSoundInvariant, RunSettledInvariant, LogSoundInvariant,
     LogWholeInvariant, PTL DEF Spec
=============================================================================
