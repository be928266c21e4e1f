----------------------- MODULE MergeRequirementsProofs -----------------------
(***************************************************************************)
(* Proofs, for any rules, protections, checks, reviews, pages, moves and   *)
(* faults, of what gh_get_merge_requirements answers: the policy it calls  *)
(* complete covers what was in force all through the call, complete check  *)
(* evidence hides no failure and reports nothing missing that was there,   *)
(* and reviews it calls sufficient were there at a time of the call.       *)
(***************************************************************************)
EXTENDS MergeRequirements, FiniteSetTheorems, SequenceTheorems, TLAPS

-----------------------------------------------------------------------------
(* The largest of finitely many counts. *)

\* A set of naturals has a least element: of the intervals from 0 up to one of
\* its elements, one has no other inside it.
LEMMA Least ==
  ASSUME NEW T \in SUBSET Nat, T # {}
  PROVE  \E m \in T : \A n \in T : m <= n
<1> DEFINE F == {0..n : n \in T}
<1>1. F \subseteq FiniteSubsetsOf(Nat)
  <2> SUFFICES ASSUME NEW n \in T PROVE 0..n \in FiniteSubsetsOf(Nat)
    OBVIOUS
  <2>1. n \in Int /\ 0 \in Int
    OBVIOUS
  <2>2. IsFiniteSet(0..n)
    BY <2>1, FS_Interval
  <2>. QED  BY <2>2 DEF FiniteSubsetsOf
<1>2. F # {}
  OBVIOUS
<1>3. IsWellFoundedOn(StrictSubsetOrdering(Nat), FiniteSubsetsOf(Nat))
  BY FS_StrictSubsetOrderingWellFounded
<1>4. PICK x \in F : \A y \in F : <<y, x>> \notin StrictSubsetOrdering(Nat)
  BY <1>1, <1>2, <1>3, WFMin
<1>5. PICK m \in T : x = 0..m
  BY <1>4
<1>6. ASSUME NEW n \in T, ~(m <= n) PROVE FALSE
  <2>1. 0..n \subseteq 0..m /\ m \in 0..m /\ m \notin 0..n
    BY <1>6
  <2>2. 0..n # 0..m
    BY <2>1
  <2>3. <<0..n, 0..m>> \in StrictSubsetOrdering(Nat)
    BY <2>1, <2>2 DEF StrictSubsetOrdering
  <2>. QED  BY <2>3, <1>4, <1>5
<1>. QED  BY <1>6

\* Max of a set of naturals that has a bound is its largest element.
LEMMA MaxOfBounded ==
  ASSUME NEW S \in SUBSET Nat, S # {}, NEW b \in Nat, \A y \in S : y <= b
  PROVE  Max(S) \in S /\ \A y \in S : Max(S) >= y
<1> DEFINE U == {n \in Nat : \A y \in S : y <= n}
<1>1. PICK u \in U : \A n \in U : u <= n
  <2>1. U # {} /\ U \in SUBSET Nat
    OBVIOUS
  <2>. HIDE DEF U
  <2>. QED  BY <2>1, Least
<1>2. u \in S
  <2>1. SUFFICES ASSUME u \notin S PROVE FALSE
    OBVIOUS
  <2>2. \A y \in S : y < u /\ y \in Nat
    BY <1>1, <2>1
  <2>3. u - 1 \in Nat
    <3>1. PICK y \in S : TRUE
      OBVIOUS
    <3>. QED  BY <3>1, <2>2
  <2>4. u - 1 \in U
    BY <2>2, <2>3
  <2>. QED  BY <1>1, <2>4
<1>3. \A y \in S : u >= y
  BY <1>1
<1>. QED  BY <1>2, <1>3 DEF Max

\* Finitely many counts have a bound.
LEMMA CountsBounded ==
  ASSUME NEW n \in Nat, NEW f, \A i \in 1..n : f[i] \in Nat
  PROVE  \E b \in Nat : \A i \in 1..n : f[i] <= b
<1> DEFINE Bounded(k) == \E b \in Nat : \A i \in 1..k : f[i] <= b
           T == {k \in 0..n : ~Bounded(k)}
<1>1. SUFFICES ASSUME ~Bounded(n) PROVE FALSE
  OBVIOUS
<1>2. PICK k \in T : \A j \in T : k <= j
  <2>1. T # {} /\ T \in SUBSET Nat
    BY <1>1
  <2>. HIDE DEF T
  <2>. QED  BY <2>1, Least
<1>3. k # 0
  <2>1. Bounded(0)
    OBVIOUS
  <2>. QED  BY <2>1, <1>2
<1>4. PICK b \in Nat : \A i \in 1..(k - 1) : f[i] <= b
  <2>1. k \in 0..n
    BY <1>2
  <2>2. k - 1 \in 0..n
    BY <2>1, <1>3
  <2>3. k - 1 \notin T
    <3>. HIDE DEF T
    <3>. QED  BY <2>1, <1>2
  <2>. QED  BY <2>2, <2>3
<1>5. f[k] \in Nat
  BY <1>2, <1>3
<1>6. PICK c \in Nat : c >= b /\ c >= f[k]
  <2>1. b + f[k] \in Nat /\ b + f[k] >= b /\ b + f[k] >= f[k]
    BY <1>5
  <2>. QED  BY <2>1
<1>7. \A i \in 1..k : f[i] <= c
  <2> SUFFICES ASSUME NEW i \in 1..k PROVE f[i] <= c
    OBVIOUS
  <2>1. CASE i = k
    BY <2>1, <1>6, <1>5
  <2>2. CASE i # k
    <3>1. i \in 1..(k - 1)
      BY <2>2, <1>2
    <3>2. f[i] <= b /\ f[i] \in Nat
      BY <3>1, <1>4, <1>2
    <3>. QED  BY <3>2, <1>6
  <2>. QED  BY <2>1, <2>2
<1>. QED  BY <1>7, <1>2

-----------------------------------------------------------------------------
(* Layering. *)

RawCheck == [context : Contexts, app : Apps \cup {AnyApp, None}]

\* What one source contributes.
Share ==
  [checks : SUBSET RawCheck, approvals : Nat, flags : SUBSET Flags,
   methods : SUBSET Methods, linear : BOOLEAN, modelled : BOOLEAN]

\* A rule contributes a share.
LEMMA RuleShare ==
  ASSUME NEW rule \in Rule
  PROVE  FromRule(rule) \in Share
<1>1. /\ rule.checks \in SUBSET RawCheck
      /\ rule.approvals \in Nat
      /\ rule.flags \in SUBSET Flags
      /\ rule.methods \in SUBSET Methods
      /\ rule.reviewers \in BOOLEAN
  BY DEF Rule, RawCheck
<1>2. Strict(rule.strict /\ rule.checks # {}) \in SUBSET Flags
  BY DEF Strict, Flags
<1>3. Neutral \in Share
  BY DEF Neutral, Share
<1>4. CASE rule.type = "required_linear_history"
  <2>1. FromRule(rule) = [Neutral EXCEPT !.linear = TRUE]
    BY <1>4 DEF FromRule
  <2>. QED  BY <2>1, <1>3 DEF Share, Neutral
<1>5. CASE rule.type = "required_status_checks"
  <2>1. FromRule(rule) = [Neutral EXCEPT !.checks = rule.checks,
                            !.flags = Strict(rule.strict /\ rule.checks # {})]
    BY <1>5 DEF FromRule
  <2>. QED  BY <2>1, <1>1, <1>2, <1>3 DEF Share, Neutral
<1>6. CASE rule.type = "pull_request"
  <2>1. FromRule(rule) = [Neutral EXCEPT !.approvals = rule.approvals, !.flags = rule.flags,
                            !.methods = rule.methods, !.modelled = ~rule.reviewers]
    BY <1>6 DEF FromRule
  <2>. QED  BY <2>1, <1>1, <1>3 DEF Share, Neutral
<1>7. CASE rule.type \notin {"required_linear_history", "required_status_checks", "pull_request"}
  <2>1. FromRule(rule) = [Neutral EXCEPT !.modelled = FALSE]
    BY <1>7 DEF FromRule
  <2>. QED  BY <2>1, <1>3 DEF Share, Neutral
<1>. QED  BY <1>4, <1>5, <1>6, <1>7

\* So does classic protection.
LEMMA ClassicShare ==
  ASSUME NEW classic \in Classic
  PROVE  FromClassic(classic) \in Share
<1> DEFINE named == {check.context : check \in classic.checks}
           legacy == {[context |-> c, app |-> None] : c \in classic.contexts \ named}
<1>1. /\ classic.checks \in SUBSET RawCheck
      /\ classic.contexts \in SUBSET Contexts
      /\ classic.approvals \in Nat
      /\ classic.flags \in SUBSET Flags
      /\ classic.linear \in BOOLEAN
  BY DEF Classic, RawCheck
<1>2. legacy \in SUBSET RawCheck
  BY <1>1 DEF RawCheck
<1>3. classic.checks \cup legacy \in SUBSET RawCheck
  BY <1>1, <1>2
<1>4. classic.flags \cup Strict(classic.strict) \in SUBSET Flags
  BY <1>1 DEF Strict, Flags
<1>5. FromClassic(classic) =
        [Neutral EXCEPT !.checks = classic.checks \cup legacy,
                        !.approvals = classic.approvals,
                        !.flags = classic.flags \cup Strict(classic.strict),
                        !.linear = classic.linear]
  BY DEF FromClassic
<1> HIDE DEF legacy
<1>6. Neutral \in Share
  BY DEF Neutral, Share
<1>. QED  BY <1>1, <1>3, <1>4, <1>5, <1>6 DEF Share, Neutral

\* The approval counts of the sources have a bound.
LEMMA ApprovalsBounded ==
  ASSUME NEW rules \in Seq(Rule), NEW classic \in Classic \cup {None}
  PROVE  /\ Sources(rules, classic) \subseteq Share
         /\ \E b \in Nat : \A s \in Sources(rules, classic) : s.approvals <= b
<1> DEFINE f == [i \in 1..Len(rules) |-> FromRule(rules[i]).approvals]
           own == IF classic = None THEN {} ELSE {FromClassic(classic)}
<1>1. Len(rules) \in Nat /\ DOMAIN rules = 1..Len(rules) /\ \A i \in 1..Len(rules) : rules[i] \in Rule
  OBVIOUS
<1>2. \A i \in 1..Len(rules) : FromRule(rules[i]) \in Share
  BY <1>1, RuleShare
<1>3. own \subseteq Share
  BY ClassicShare
<1>4. Sources(rules, classic) = {FromRule(rules[i]) : i \in 1..Len(rules)} \cup own
  BY <1>1 DEF Sources
<1>5. \A i \in 1..Len(rules) : f[i] \in Nat
  BY <1>2 DEF Share
<1>6. PICK b \in Nat : \A i \in 1..Len(rules) : f[i] <= b
  <2> HIDE DEF f
  <2>. QED  BY <1>1, <1>5, CountsBounded
<1>7. \A i \in 1..Len(rules) : FromRule(rules[i]).approvals <= b
  BY <1>6
<1>8. CASE own = {}
  BY <1>2, <1>4, <1>7, <1>8
<1>9. CASE own # {}
  <2>1. PICK s \in Share : own = {s}
    BY <1>3, <1>9
  <2>2. s.approvals \in Nat
    BY <2>1 DEF Share
  <2>3. PICK c \in Nat : c >= b /\ c >= s.approvals
    <3>1. b + s.approvals \in Nat /\ b + s.approvals >= b /\ b + s.approvals >= s.approvals
      BY <2>2
    <3>. QED  BY <3>1
  <2>4. \A i \in 1..Len(rules) : FromRule(rules[i]).approvals <= c
    <3> SUFFICES ASSUME NEW i \in 1..Len(rules) PROVE FromRule(rules[i]).approvals <= c
      OBVIOUS
    <3>1. FromRule(rules[i]).approvals \in Nat
      BY <1>2 DEF Share
    <3>. QED  BY <3>1, <1>7, <2>3
  <2>5. \A t \in Sources(rules, classic) : t.approvals <= c
    BY <2>1, <2>3, <2>4, <1>4
  <2>. QED  BY <2>5, <1>2, <1>3, <1>4
<1>. QED  BY <1>8, <1>9

\* Layering leaves out nothing of any source.
LEMMA LayeredCovers ==
  ASSUME NEW sources \in SUBSET Share,
         NEW b \in Nat, \A s \in sources : s.approvals <= b
  PROVE  /\ Layered(sources) \in Policy
         /\ \A s \in sources :
              /\ \A check \in s.checks : Normalize(check) \in Layered(sources).checks
              /\ Layered(sources).approvals >= s.approvals
              /\ s.flags \subseteq Layered(sources).flags
              /\ Layered(sources).methods \subseteq s.methods
              /\ s.linear => "merge" \notin Layered(sources).methods
<1> DEFINE counts == {0} \cup {s.approvals : s \in sources}
           checks == {Normalize(check) : check \in UNION {s.checks : s \in sources}}
           flags == UNION {s.flags : s \in sources}
           methods == {m \in Methods : /\ \A s \in sources : m \in s.methods
                                       /\ m = "merge" => \A s \in sources : ~s.linear}
<1>1. Layered(sources) = [checks |-> checks, approvals |-> Max(counts), flags |-> flags,
                          methods |-> methods]
  BY DEF Layered
<1>2. /\ counts \in SUBSET Nat /\ counts # {}
      /\ \A n \in counts : n <= b
  BY DEF Share
<1>3. Max(counts) \in counts /\ \A n \in counts : Max(counts) >= n
  <2> HIDE DEF counts
  <2>. QED  BY <1>2, MaxOfBounded
<1>4. checks \in SUBSET Requirement
  <2> SUFFICES ASSUME NEW s \in sources, NEW check \in s.checks
               PROVE  Normalize(check) \in Requirement
    OBVIOUS
  <2>1. check \in RawCheck
    BY DEF Share
  <2>. QED  BY <2>1 DEF RawCheck, Normalize, Requirement
<1>5. flags \in SUBSET Flags
  BY DEF Share
<1>6. methods \in SUBSET Methods
  OBVIOUS
<1>7. \A s \in sources : s.approvals \in counts
  OBVIOUS
<1>8. \A s \in sources : \A check \in s.checks : Normalize(check) \in checks
  OBVIOUS
<1>9. \A s \in sources : s.flags \subseteq flags /\ methods \subseteq s.methods
                         /\ (s.linear => "merge" \notin methods)
  OBVIOUS
<1> HIDE DEF counts, checks, flags, methods
<1>10. [checks |-> checks, approvals |-> Max(counts), flags |-> flags,
        methods |-> methods] \in Policy
  BY <1>2, <1>3, <1>4, <1>5, <1>6 DEF Policy
<1>. QED  BY <1>1, <1>3, <1>7, <1>8, <1>9, <1>10

\* A policy that can be expressed covers each rule and the classic protection it
\* was composed from (_apply_ruleset_rules, _apply_classic_protection).
THEOREM EffectiveCovers ==
  ASSUME NEW rules \in Seq(Rule), NEW classic \in Classic \cup {None},
         Effective(rules, classic) # None
  PROVE  /\ Effective(rules, classic) \in Policy
         /\ \A i \in DOMAIN rules : CoversRule(Effective(rules, classic), rules[i])
         /\ classic # None => CoversClassic(Effective(rules, classic), classic)
<1> DEFINE sources == Sources(rules, classic)
           p == Layered(sources)
<1>1. PICK b \in Nat : \A s \in sources : s.approvals <= b
  BY ApprovalsBounded
<1>2. sources \in SUBSET Share
  BY ApprovalsBounded
<1>3. Effective(rules, classic) = p /\ \A s \in sources : s.modelled
  BY DEF Effective
<1>4. \A i \in DOMAIN rules : FromRule(rules[i]) \in sources
  BY DEF Sources
<1>5. classic # None => FromClassic(classic) \in sources
  BY DEF Sources
<1> HIDE DEF sources
<1>6. /\ p \in Policy
      /\ \A s \in sources :
           /\ \A check \in s.checks : Normalize(check) \in p.checks
           /\ p.approvals >= s.approvals
           /\ s.flags \subseteq p.flags
           /\ p.methods \subseteq s.methods
           /\ s.linear => "merge" \notin p.methods
  BY <1>1, <1>2, LayeredCovers
<1> HIDE DEF p
<1>7. ASSUME NEW checks \in SUBSET RawCheck,
             \A check \in checks : Normalize(check) \in p.checks
      PROVE  Demands(p, checks)
  <2> SUFFICES ASSUME NEW check \in checks
               PROVE  \E r \in p.checks :
                        /\ r.context = check.context
                        /\ r.app = check.app \/ (r.app = None /\ check.app = AnyApp)
    BY DEF Demands
  <2>1. check \in RawCheck
    OBVIOUS
  <2>2. Normalize(check) \in p.checks
    BY <1>7
  <2>3. /\ Normalize(check).context = check.context
        /\ Normalize(check).app = IF check.app = AnyApp THEN None ELSE check.app
    BY <2>1 DEF Normalize, RawCheck
  <2>. QED  BY <2>2, <2>3
<1>8. ASSUME NEW i \in DOMAIN rules PROVE CoversRule(p, rules[i])
  <2> DEFINE rule == rules[i]
             s == FromRule(rule)
  <2>1. rule \in Rule
    OBVIOUS
  <2>2. s \in sources /\ s.modelled
    BY <1>3, <1>4
  <2>3. rule.type \in RuleTypes /\ rule.checks \in SUBSET RawCheck
    BY <2>1 DEF Rule, RawCheck
  <2> SUFFICES CoversRule(p, rule)
    OBVIOUS
  <2> HIDE DEF rule
  <2>4. CASE rule.type = "required_linear_history"
    <3>1. s.linear
      BY <2>4 DEF FromRule, Neutral
    <3>. QED  BY <3>1, <2>2, <2>4, <1>6 DEF CoversRule
  <2>5. CASE rule.type = "required_status_checks"
    <3>1. s.checks = rule.checks /\ s.flags = Strict(rule.strict /\ rule.checks # {})
      BY <2>5 DEF FromRule, Neutral
    <3>2. Demands(p, rule.checks)
      BY <3>1, <2>2, <2>3, <1>6, <1>7
    <3>3. (rule.strict /\ rule.checks # {}) => "up to date" \in p.flags
      BY <3>1, <2>2, <1>6 DEF Strict
    <3>. QED  BY <3>2, <3>3, <2>5 DEF CoversRule
  <2>6. CASE rule.type = "pull_request"
    <3>1. /\ s.approvals = rule.approvals /\ s.flags = rule.flags
          /\ s.methods = rule.methods /\ s.modelled = ~rule.reviewers
      BY <2>6 DEF FromRule, Neutral
    <3>2. /\ p.approvals >= rule.approvals /\ rule.flags \subseteq p.flags
          /\ p.methods \subseteq rule.methods
      BY <3>1, <2>2, <1>6
    <3>3. ~rule.reviewers
      BY <3>1, <2>2
    <3>. QED  BY <3>2, <3>3, <2>6 DEF CoversRule
  <2>7. CASE rule.type = "other"
    <3>1. s.modelled = FALSE
      BY <2>7 DEF FromRule, Neutral
    <3>. QED  BY <3>1, <2>2
  <2>. QED  BY <2>3, <2>4, <2>5, <2>6, <2>7 DEF RuleTypes
<1>9. ASSUME classic # None PROVE CoversClassic(p, classic)
  <2> DEFINE s == FromClassic(classic)
             named == {check.context : check \in classic.checks}
             legacy == {[context |-> c, app |-> None] : c \in classic.contexts \ named}
  <2>1. classic \in Classic /\ classic.checks \in SUBSET RawCheck
    BY <1>9 DEF Classic, RawCheck
  <2>2. s \in sources
    BY <1>5, <1>9
  <2>3. /\ s.checks = classic.checks \cup legacy
        /\ s.approvals = classic.approvals
        /\ s.flags = classic.flags \cup Strict(classic.strict)
        /\ s.linear = classic.linear
    BY DEF FromClassic, Neutral
  <2>4. \A check \in s.checks : Normalize(check) \in p.checks
    BY <2>2, <1>6
  <2>5. Demands(p, classic.checks)
    BY <2>1, <2>3, <2>4, <1>7
  <2>6. ASSUME NEW c \in classic.contexts PROVE \E r \in p.checks : r.context = c
    <3>1. CASE c \in named
      <4>1. PICK check \in classic.checks : check.context = c
        BY <3>1
      <4>. QED  BY <4>1, <2>5 DEF Demands
    <3>2. CASE c \notin named
      <4> DEFINE check == [context |-> c, app |-> None]
      <4>1. check \in s.checks
        BY <3>2, <2>3
      <4>2. Normalize(check) \in p.checks /\ Normalize(check).context = c
        BY <4>1, <2>4 DEF Normalize
      <4>. QED  BY <4>2
    <3>. QED  BY <3>1, <3>2
  <2>7. /\ classic.strict => "up to date" \in p.flags
        /\ classic.flags \subseteq p.flags
    BY <2>2, <2>3, <1>6 DEF Strict
  <2>8. p.approvals >= classic.approvals /\ (classic.linear => "merge" \notin p.methods)
    BY <2>2, <2>3, <1>6
  <2>. QED  BY <2>5, <2>6, <2>7, <2>8 DEF CoversClassic
<1>. QED  BY <1>3, <1>6, <1>8, <1>9 DEF p

-----------------------------------------------------------------------------
(* Types. *)

\* A page holds items of its list: all of them, or the first that fit.
LEMMA PageType ==
  ASSUME NEW S, NEW s \in Seq(S), NEW size \in Nat
  PROVE  /\ Page(s, 0, size) \in Seq(S)
         /\ Len(s) <= size => Page(s, 0, size) = s
         /\ Len(s) >= size => Page(s, 0, size) = SubSeq(s, 1, size)
<1>1. Len(s) \in Nat
  OBVIOUS
<1>2. CASE Len(s) < size
  <2>1. Page(s, 0, size) = SubSeq(s, 1, Len(s))
    BY <1>1, <1>2 DEF Page
  <2>2. SubSeq(s, 1, Len(s)) = s
    BY SubSeqFull
  <2>. QED  BY <1>1, <1>2, <2>1, <2>2
<1>3. CASE ~(Len(s) < size)
  <2>1. Page(s, 0, size) = SubSeq(s, 1, size)
    BY <1>1, <1>3 DEF Page
  <2>2. \A i \in 1..size : s[i] \in S
    BY <1>1, <1>3
  <2>3. SubSeq(s, 1, size) \in Seq(S)
    BY <2>2, SubSeqProperties
  <2>4. Len(s) = size => SubSeq(s, 1, size) = s
    BY SubSeqFull
  <2>. QED  BY <1>1, <1>3, <2>1, <2>3, <2>4
<1>. QED  BY <1>2, <1>3

\* A page has room for an item.
LEMMA PageSizeType == PageSize \in Nat \ {0}
BY RequirementsAssumption DEF PageSize

\* Part of a sequence's places, and what is there, can be counted.
LEMMA PlacesFinite ==
  ASSUME NEW S, NEW s \in Seq(S), NEW among \in SUBSET DOMAIN s
  PROVE  IsFiniteSet(among) /\ Cardinality(among) \in Nat
<1>1. Len(s) \in Nat /\ DOMAIN s = 1..Len(s) /\ Len(s) \in Int /\ 1 \in Int
  OBVIOUS
<1>2. IsFiniteSet(1..Len(s))
  BY <1>1, FS_Interval
<1>3. IsFiniteSet(among)
  BY <1>1, <1>2, FS_Subset
<1>. QED  BY <1>3, FS_CardinalityType

\* Finitely many reviewers approve.
LEMMA ReviewersFinite ==
  ASSUME NEW reviews \in Seq(Review), NEW among \in SUBSET DOMAIN reviews
  PROVE  Cardinality(Approving(reviews, among)) \in Nat
<1> DEFINE places == {j \in Latest(reviews, among) : reviews[j].state = "APPROVED"}
           who == {reviews[i].reviewer : i \in places}
           f == [i \in places |-> reviews[i].reviewer]
<1>1. places \in SUBSET DOMAIN reviews
  BY DEF Latest
<1>2. IsFiniteSet(places)
  BY <1>1, PlacesFinite
<1>3. f \in Surjection(places, who)
  BY DEF Surjection
<1>4. IsFiniteSet(who)
  <2> HIDE DEF places, who, f
  <2>. QED  BY <1>2, <1>3, FS_Surjection
<1>5. Cardinality(who) \in Nat
  <2> HIDE DEF who
  <2>. QED  BY <1>4, FS_CardinalityType
<1>. QED  BY <1>5 DEF Approving

\* A reply that is read keeps the types if the new locals have theirs.
LEMMA ReadsKeepsTypes ==
  ASSUME TypeOK, NEW step, NEW next \in Steps, NEW locals \in Locals,
         Reads(step, next, locals)
  PROVE  TypeOK'
BY DEF TypeOK, Reads

\* So does an answer.
LEMMA ReturnsKeepsTypes ==
  ASSUME TypeOK, NEW step, NEW value \in Answer \cup {None}, Returns(step, value)
  PROVE  TypeOK'
<1>1. Nothing \in Locals
  BY DEF Nothing, Locals
<1>. QED  BY <1>1 DEF TypeOK, Returns, Steps

\* So does a change at GitHub.
LEMMA ChangesKeepsTypes ==
  ASSUME TypeOK, NEW next \in PullRequest, Changes(next), shifted' \in BOOLEAN
  PROVE  TypeOK'
BY RequirementsAssumption DEF TypeOK, Changes

\* The answer without evidence has the type of the result model.
LEMMA NoEvidenceType == NoEvidence \in Answer
BY DEF NoEvidence, Answer

\* What a list of checks leaves.
LEMMA ListedType ==
  ASSUME NEW g \in Locals, NEW runs \in SUBSET Run, NEW b \in BOOLEAN
  PROVE  [g EXCEPT !.rows = runs, !.readable = b] \in Locals
<1>1. CASE b = TRUE
  BY <1>1 DEF Locals
<1>2. CASE b = FALSE
  BY <1>2 DEF Locals
<1>. QED  BY <1>1, <1>2

\* What the second look at the identity of a list of checks leaves.
LEMMA ConsistentType ==
  ASSUME NEW g \in Locals, NEW b \in BOOLEAN
  PROVE  [g EXCEPT !.consistent = b] \in Locals
<1>1. CASE b = TRUE
  BY <1>1 DEF Locals
<1>2. CASE b = FALSE
  BY <1>2 DEF Locals
<1>. QED  BY <1>1, <1>2

\* The same with the rest of what that look sets.
LEMMA VerifiedType ==
  ASSUME NEW g \in Locals, NEW m \in BOOLEAN, NEW b \in BOOLEAN
  PROVE  [g EXCEPT !.nested = None, !.matches = m, !.consistent = b] \in Locals
<1> DEFINE h == [g EXCEPT !.nested = None, !.matches = m]
<1>1. h \in Locals
  <2>1. CASE m = TRUE
    BY <2>1 DEF Locals
  <2>2. CASE m = FALSE
    BY <2>2 DEF Locals
  <2>. QED  BY <2>1, <2>2
<1>2. [g EXCEPT !.nested = None, !.matches = m, !.consistent = b] = [h EXCEPT !.consistent = b]
  OBVIOUS
<1> HIDE DEF h
<1>. QED  BY <1>1, <1>2, ConsistentType

\* What the policy reading makes of the locals.
LEMMA ComposedType ==
  ASSUME got \in Locals, NEW classic \in Classic \cup {None}
  PROVE  /\ Composed(classic) \in Locals
         /\ Unknown \in Locals
<1>1. got.rules = None \/ got.rules \in Seq(Rule)
  BY DEF Locals
<1>2. (IF got.rules = None THEN None ELSE Effective(got.rules, classic)) \in {None} \cup Policy
  BY <1>1, EffectiveCovers
<1> DEFINE policy == IF got.rules = None THEN None ELSE Effective(got.rules, classic)
<1>3. Composed(classic) = [got EXCEPT !.policy = policy, !.rules = None]
  BY DEF Composed
<1>4. policy \in {None} \cup Policy
  BY <1>2
<1> HIDE DEF policy
<1>5. ASSUME NEW p \in {None} \cup Policy
      PROVE  [got EXCEPT !.policy = p, !.rules = None] \in Locals
  BY DEF Locals
<1>. QED  BY <1>3, <1>4, <1>5 DEF Unknown

\* Valid approvals can be counted.
LEMMA ValidApprovalsCount ==
  ASSUME got \in Locals, NEW dismiss
  PROVE  Cardinality(ValidApprovals(dismiss)) \in Nat
<1>1. got.reviews \in Seq(Review)
  BY DEF Locals
<1>2. Counting(got.reviews, dismiss) \in SUBSET DOMAIN got.reviews
  BY DEF Counting, Decisive
<1>. QED  BY <1>1, <1>2, ReviewersFinite DEF ValidApprovals

\* The rows of an answer have their type.
LEMMA RowsType ==
  ASSUME got \in Locals, got.policy # None, NEW complete \in BOOLEAN
  PROVE  Rows(complete) \in SUBSET Row
<1>1. got.policy.checks \in SUBSET Requirement
  BY DEF Locals, Policy
<1>2. got.rows \in SUBSET Run /\ got.kept \in SUBSET Run
  BY DEF Locals
<1> SUFFICES ASSUME NEW row \in Rows(complete) PROVE row \in Row
  OBVIOUS
<1>3. PICK check \in got.policy.checks :
        \/ \E run \in got.rows \cup got.kept :
             row = [check |-> check, workflow |-> run.workflow, state |-> run.state]
        \/ row = [check |-> check, workflow |-> None, state |-> "UNKNOWN"]
  BY DEF Rows
<1>4. \A run \in got.rows \cup got.kept : run.workflow \in Workflows /\ run.state \in States
  BY <1>2 DEF Run
<1>. QED  BY <1>1, <1>3, <1>4 DEF Row

\* The assembled answer has its type.
LEMMA AssembledType ==
  ASSUME got \in Locals
  PROVE  Assembled \in Answer
<1> DEFINE known == got.policy # None
           complete == known /\ got.readable /\ got.matches /\ got.consistent
           counted == known /\ got.reviewed = "read" /\ ~got.truncated
           count == Cardinality(ValidApprovals("dismiss stale" \in got.policy.flags))
<1>1. complete \in BOOLEAN
  BY DEF Locals
<1>2. (IF known THEN Rows(complete) ELSE {}) \in SUBSET Row
  <2> HIDE DEF complete
  <2>. QED  BY <1>1, RowsType
<1>3. count \in Nat
  BY ValidApprovalsCount
<1>4. (IF counted THEN count ELSE None) \in Nat \cup {None}
  BY <1>3
<1>5. Satisfied(count) \in {"yes", "no", None}
  <2>1. ReviewVerdict \in {"yes", "no", None}
    BY DEF ReviewVerdict
  <2>. QED  BY <2>1 DEF Satisfied
<1>6. (IF counted THEN Satisfied(count) ELSE None) \in {"yes", "no", None}
  BY <1>5
<1>7. (IF known /\ got.methods # None THEN got.methods \cap got.policy.methods ELSE None)
        \in (SUBSET Methods) \cup {None}
  BY DEF Locals
<1>8. got.policy \in Policy \cup {None} /\ got.upToDate \in {"yes", "no", None}
  BY DEF Locals
<1>9. Assembled =
        [policy |-> got.policy, checksComplete |-> complete,
         rows |-> IF known THEN Rows(complete) ELSE {},
         approvals |-> IF counted THEN count ELSE None,
         satisfied |-> IF counted THEN Satisfied(count) ELSE None,
         methods |-> IF known /\ got.methods # None
                     THEN got.methods \cap got.policy.methods ELSE None,
         upToDate |-> got.upToDate]
  BY DEF Assembled
<1> HIDE DEF known, complete, counted, count
<1>. QED  BY <1>1, <1>2, <1>4, <1>6, <1>7, <1>8, <1>9 DEF Answer

\* A step of the call keeps the types: each reply puts a value of its type into
\* the locals, and an answer is of the result model's.
LEMMA CallKeepsTypes ==
  ASSUME TypeOK, Next, ~GitHub
  PROVE  TypeOK'
<1>0. got \in Locals
  BY DEF TypeOK
<1>a. /\ pr \in PullRequest
      /\ pr.head \in Heads /\ pr.base \in Bases /\ pr.rules \in Seq(Rule)
      /\ pr.classic \in Classic \cup {None} /\ pr.runs \in Seq(Run)
      /\ pr.reviews \in Seq(Review) /\ pr.threads \in Seq({"open", "resolved"})
      /\ pr.requested \in BOOLEAN
  BY DEF TypeOK, PullRequest
<1>1. CASE ReadIdentity
  <2>1. [got EXCEPT !.base = pr.base] \in Locals
    BY <1>0, <1>a DEF Locals
  <2>. QED  BY <2>1, <1>1, NoEvidenceType, ReadsKeepsTypes, ReturnsKeepsTypes DEF ReadIdentity, Steps
<1>2. CASE ReadRules
  <2>1. Page(pr.rules, 0, PageSize) \in Seq(Rule)
    BY <1>a, PageSizeType, PageType
  <2>2. [got EXCEPT !.rules = Page(pr.rules, 0, PageSize)] \in Locals
    BY <2>1, <1>0 DEF Locals
  <2>. QED  BY <2>2, <1>2, ReadsKeepsTypes DEF ReadRules, Steps
<1>3. CASE ProbeRules
  <2>1. [got EXCEPT !.rules = None] \in Locals
    BY <1>0 DEF Locals
  <2>. QED  BY <2>1, <1>0, <1>3, ReadsKeepsTypes DEF ProbeRules, Steps
<1>4. CASE ReadBranch
  <2>1. Composed(None) \in Locals
    BY <1>0, ComposedType
  <2>. QED  BY <2>1, <1>0, <1>4, ReadsKeepsTypes DEF ReadBranch, Steps
<1>5. CASE ReadProtection
  <2>1. Composed(pr.classic) \in Locals
    BY <1>0, <1>a, ComposedType
  <2>. QED  BY <2>1, <1>0, <1>5, ReadsKeepsTypes DEF ReadProtection, Steps
<1>6. CASE ProbeAdmin
  <2>1. Composed(None) \in Locals /\ Unknown \in Locals
    BY <1>0, ComposedType
  <2>. QED  BY <2>1, <1>6, ReadsKeepsTypes DEF ProbeAdmin, Steps
<1>7. CASE ReadMethods
  <2>1. RepositoryMethods \in {None} \cup SUBSET Methods
    BY RequirementsAssumption
  <2>2. /\ [got EXCEPT !.methods = RepositoryMethods, !.readable = TRUE] \in Locals
        /\ [got EXCEPT !.methods = RepositoryMethods] \in Locals
    BY <2>1, <1>0 DEF Locals
  <2>. QED  BY <2>2, <1>7, ReadsKeepsTypes DEF ReadMethods, Steps
<1>8. CASE ReadChecksIdentity
  <2>1. [got EXCEPT !.nested = <<pr.base, pr.head>>] \in Locals
    BY <1>0, <1>a DEF Locals
  <2>. QED  BY <2>1, <1>8, ReadsKeepsTypes DEF ReadChecksIdentity, Steps
<1>9. CASE ListChecks
  <2>1. Listing(pr) \in SUBSET Run
    BY <1>a DEF Listing, RunsAtHead, RangeOf
  <2>2. PICK rows : /\ rows \in IF Cardinality(Listing(pr)) > HardMax
                                THEN kSubset(HardMax, Listing(pr)) ELSE {Listing(pr)}
                    /\ got' = [got EXCEPT !.rows = rows, !.readable = (rows = Listing(pr))]
    BY <1>9 DEF ListChecks
  <2>3. rows \in SUBSET Run
    BY <2>1, <2>2 DEF kSubset
  <2>4. got' \in Locals
    BY <2>2, <2>3, <1>0, ListedType
  <2>5. pc' \in Steps
    BY <1>9 DEF ListChecks, Steps
  <2>6. /\ listedAt' = pr.head
        /\ UNCHANGED <<pr, answer, moves, faults, seen, shifted>>
    BY <1>9 DEF ListChecks
  <2>. QED  BY <2>4, <2>5, <2>6, <1>a DEF TypeOK
<1>10. CASE VerifyChecks
  <2> DEFINE matches == got.nested = <<got.base, Expected>>
             known == got.policy # None
             consistent == known => ContextsOf(got.rows) \subseteq ContextsOf(got.policy.checks)
  <2>1. matches \in BOOLEAN /\ consistent \in BOOLEAN
    OBVIOUS
  <2>2. \/ \E next \in {"pinned", "freshness"} :
             Reads("checks verify", next,
                   [got EXCEPT !.nested = None, !.matches = matches, !.consistent = consistent])
        \/ Returns("checks verify", None)
    BY <1>10 DEF VerifyChecks
  <2> HIDE DEF matches, consistent
  <2>3. [got EXCEPT !.nested = None, !.matches = matches, !.consistent = consistent] \in Locals
    BY <2>1, <1>0, VerifiedType
  <2>. QED  BY <2>2, <2>3, ReadsKeepsTypes, ReturnsKeepsTypes DEF Steps
<1>11. CASE ReadPinned
  <2> DEFINE first == IF HardMax - got.nodes < PageMax THEN HardMax - got.nodes ELSE PageMax
             page == PageAtHead(pr, got.nodes, first)
             required == {run \in {pr.runs[i] : i \in page} : Required(pr, run)}
             wanted == PinnedIn(got.policy)
             pinned == {run \in required : [context |-> run.context, app |-> run.app] \in wanted}
             anyApp == ContextsOf(got.policy.checks \ wanted)
             foreign == {run \in required \ pinned :
                           run.context \in ContextsOf(wanted) \ anyApp}
             more == Cardinality(AtHead(pr)) > got.nodes + first
             full == more /\ got.nodes + first >= HardMax
             matches == StillMatches(<<pr.base, pr.head>> = <<got.base, Expected>>)
             suspect == got.suspect \/ foreign # {}
             kept == Newest(got.kept \cup pinned)
             nodes == got.nodes + Cardinality(page)
             read == [got EXCEPT !.kept = kept, !.nodes = nodes, !.suspect = suspect,
                                 !.matches = matches]
             readable == got.readable /\ ~full /\ read.matches /\ ~read.suspect
             last == [read EXCEPT !.readable = readable]
  <2>1. \E next \in {"pinned", "freshness"} :
           Reads("pinned", next, read) \/ Reads("pinned", next, last)
    BY <1>11 DEF ReadPinned
  <2>2. page \in SUBSET DOMAIN pr.runs
    BY DEF PageAtHead, AtHead
  <2>3. kept \in SUBSET Run
    <3>1. pinned \in SUBSET Run
      BY <2>2, <1>a
    <3>2. got.kept \in SUBSET Run
      BY <1>0 DEF Locals
    <3> HIDE DEF pinned
    <3>. QED  BY <3>1, <3>2 DEF Newest
  <2>4. nodes \in Nat
    <3>1. Cardinality(page) \in Nat
      <4> HIDE DEF page
      <4>. QED  BY <2>2, <1>a, PlacesFinite
    <3> HIDE DEF page
    <3>. QED  BY <3>1, <1>0 DEF Locals
  <2>5. matches \in BOOLEAN /\ suspect \in BOOLEAN /\ readable \in BOOLEAN
    BY DEF StillMatches
  <2> HIDE DEF matches, suspect, kept, nodes, readable
  <2>6. read \in Locals
    <3> DEFINE g == [got EXCEPT !.kept = kept, !.nodes = nodes]
    <3>1. g \in Locals
      BY <2>3, <2>4, <1>0 DEF Locals
    <3>2. read = [g EXCEPT !.suspect = suspect, !.matches = matches]
      OBVIOUS
    <3> HIDE DEF g, read
    <3>. QED  BY <2>5, <3>1, <3>2 DEF Locals
  <2> HIDE DEF read
  <2>7. last \in Locals
    BY <2>5, <2>6 DEF Locals
  <2>. QED  BY <2>1, <2>6, <2>7, ReadsKeepsTypes DEF Steps
<1>12. CASE ReadFreshness
  <2>1. [got EXCEPT !.upToDate = IF <<got.base, Expected>> \in Fresh THEN "yes" ELSE "no"]
          \in Locals
    BY <1>0 DEF Locals
  <2>. QED  BY <2>1, <1>12, ReadsKeepsTypes DEF ReadFreshness, Steps
<1>13. CASE ReadReviewIdentity
  <2>1. [got EXCEPT !.nested = pr.base] \in Locals /\ [got EXCEPT !.reviewed = "moved"] \in Locals
    BY <1>0, <1>a DEF Locals
  <2>. QED  BY <2>1, <1>13, ReadsKeepsTypes DEF ReadReviewIdentity, Steps
<1>14. CASE ReadReviews
  <2>1. Page(pr.reviews, 0, PageSize) \in Seq(Review)
    BY <1>a, PageSizeType, PageType
  <2>2. [got EXCEPT !.reviews = Page(pr.reviews, 0, PageSize)] \in Locals
    BY <2>1, <1>0 DEF Locals
  <2>. QED  BY <2>2, <1>14, ReadsKeepsTypes DEF ReadReviews, Steps
<1>15. CASE ProbeReviews
  <2>1. (Len(pr.reviews) > PageSize) \in BOOLEAN
    OBVIOUS
  <2>2. \A b \in BOOLEAN : [got EXCEPT !.truncated = b] \in Locals
    BY <1>0 DEF Locals
  <2>3. [got EXCEPT !.truncated = Len(pr.reviews) > PageSize] \in Locals
    BY <2>1, <2>2
  <2>. QED  BY <2>3, <1>15, ReadsKeepsTypes DEF ProbeReviews, Steps
<1>16. CASE ReadRequested
  <2>1. [got EXCEPT !.requested = pr.requested] \in Locals
    BY <1>0, <1>a DEF Locals
  <2>. QED  BY <2>1, <1>16, ReadsKeepsTypes DEF ReadRequested, Steps
<1>17. CASE ReadThreads
  <2> DEFINE open == {i \in DOMAIN pr.threads : i <= PageSize /\ pr.threads[i] = "open"}
             truncated == got.truncated \/ Len(pr.threads) > PageSize
             decision == ReviewDecision(pr)
  <2>1. Cardinality(open) \in Nat
    <3>1. open \in SUBSET DOMAIN pr.threads
      OBVIOUS
    <3> HIDE DEF open
    <3>. QED  BY <3>1, <1>a, PlacesFinite
  <2>2. decision \in {"APPROVED", "CHANGES_REQUESTED", "REVIEW_REQUIRED", None}
    BY DEF ReviewDecision
  <2>3. Reads("threads", "review verify",
              [got EXCEPT !.truncated = truncated, !.open = Cardinality(open),
                          !.decision = decision])
    BY <1>17 DEF ReadThreads
  <2>4. truncated \in BOOLEAN
    BY <1>0 DEF Locals
  <2> HIDE DEF open, truncated, decision
  <2>5. [got EXCEPT !.truncated = truncated, !.open = Cardinality(open), !.decision = decision]
          \in Locals
    <3>1. [got EXCEPT !.truncated = truncated, !.open = Cardinality(open)] \in Locals
      BY <2>1, <2>4, <1>0 DEF Locals
    <3>2. \A g \in Locals : [g EXCEPT !.decision = decision] \in Locals
      BY <2>2 DEF Locals
    <3>. QED  BY <3>1, <3>2
  <2>. QED  BY <2>3, <2>5, ReadsKeepsTypes DEF Steps
<1>18. CASE VerifyReviews
  <2> DEFINE reviewed == CASE pr.head # Expected -> "moved"
                           [] pr.base = got.nested /\ pr.head = Expected -> "read"
                           [] OTHER -> "unread"
  <2>1. Reads("review verify", "final", [got EXCEPT !.nested = None, !.reviewed = reviewed])
    BY <1>18 DEF VerifyReviews
  <2>2. reviewed \in {"unread", "read", "moved"}
    OBVIOUS
  <2> HIDE DEF reviewed
  <2>3. [got EXCEPT !.nested = None, !.reviewed = reviewed] \in Locals
    BY <2>2, <1>0 DEF Locals
  <2>. QED  BY <2>1, <2>3, ReadsKeepsTypes DEF Steps
<1>19. CASE ReadFinal
  BY <1>0, <1>19, AssembledType, NoEvidenceType, ReturnsKeepsTypes DEF ReadFinal, Steps
<1>20. CASE RequestFails
  <2>1. pc' \in Steps
    BY <1>20 DEF RequestFails, Steps
  <2>2. got' \in Locals
    <3>1. [got EXCEPT !.rules = None] \in Locals
      BY <1>0 DEF Locals
    <3>2. Unknown \in Locals
      BY <1>0, ComposedType
    <3>3. [got EXCEPT !.readable = NothingToCheck] \in Locals
      <4>1. NothingToCheck \in BOOLEAN
        BY DEF NothingToCheck
      <4>. QED  BY <4>1, <1>0 DEF Locals
    <3>4. [got EXCEPT !.nested = None, !.rows = {}, !.readable = FALSE] \in Locals
      BY <1>0 DEF Locals
    <3>5. [got EXCEPT !.kept = {}, !.readable = FALSE, !.matches = TRUE] \in Locals
      BY <1>0 DEF Locals
    <3>6. [got EXCEPT !.nested = None, !.reviews = <<>>, !.truncated = FALSE] \in Locals
      <4>1. <<>> \in Seq(Review)
        OBVIOUS
      <4>2. \A none \in Seq(Review) :
               [got EXCEPT !.nested = None, !.reviews = none, !.truncated = FALSE] \in Locals
        BY <1>0 DEF Locals
      <4>. QED  BY <4>1, <4>2
    <3>7. \/ got' = [got EXCEPT !.rules = None]
          \/ got' = Unknown
          \/ got' = [got EXCEPT !.readable = NothingToCheck]
          \/ got' = [got EXCEPT !.nested = None, !.rows = {}, !.readable = FALSE]
          \/ got' = [got EXCEPT !.kept = {}, !.readable = FALSE, !.matches = TRUE]
          \/ got' = [got EXCEPT !.nested = None, !.reviews = <<>>, !.truncated = FALSE]
          \/ got' = got
      BY <1>20, Zenon DEF RequestFails
    <3>. QED  BY <3>1, <3>2, <3>3, <3>4, <3>5, <3>6, <3>7, <1>0, Zenon
  <2>3. faults' \in 0..MaxFaults
    <3>1. faults < MaxFaults /\ faults' = faults + 1
      BY <1>20, Zenon DEF RequestFails
    <3>. QED  BY <3>1, RequirementsAssumption DEF TypeOK
  <2>4. UNCHANGED <<pr, answer, moves, seen, listedAt, shifted>>
    BY <1>20 DEF RequestFails
  <2>. QED  BY <2>1, <2>2, <2>3, <2>4 DEF TypeOK
<1>21. CASE Raise
  BY <1>21, ReturnsKeepsTypes DEF Raise, Steps
<1>. QED
  BY <1>1, <1>2, <1>3, <1>4, <1>5, <1>6, <1>7, <1>8, <1>9, <1>10, <1>11, <1>12, <1>13,
     <1>14, <1>15, <1>16, <1>17, <1>18, <1>19, <1>20, <1>21 DEF Next

\* What GitHub does around the call leaves a well-formed pull request.
LEMMA GitHubKeepsTypes ==
  ASSUME TypeOK, GitHub
  PROVE  TypeOK'
<1>1. /\ pr \in PullRequest
      /\ pr.rules \in Seq(Rule) /\ pr.runs \in Seq(Run) /\ pr.reviews \in Seq(Review)
      /\ pr.threads \in Seq({"open", "resolved"}) /\ pr.head \in Heads
      /\ shifted \in BOOLEAN
  BY DEF TypeOK, PullRequest
<1>2. CASE AddRule
  <2>1. PICK rule \in RulePool :
          Changes([pr EXCEPT !.rules = Append(@, rule)]) /\ UNCHANGED shifted
    BY <1>2 DEF AddRule
  <2>2. Append(pr.rules, rule) \in Seq(Rule)
    BY <1>1, RequirementsAssumption
  <2>3. [pr EXCEPT !.rules = Append(@, rule)] \in PullRequest
    BY <1>1, <2>2 DEF PullRequest
  <2>. QED  BY <1>1, <2>1, <2>3, ChangesKeepsTypes
<1>3. CASE RemoveRule
  <2>1. PICK i \in DOMAIN pr.rules :
          /\ Changes([pr EXCEPT !.rules = SubSeq(@, 1, i - 1) \o SubSeq(@, i + 1, Len(@))])
          /\ shifted' = (shifted \/ pc = "rules probe")
    BY <1>3 DEF RemoveRule
  <2>2. SubSeq(pr.rules, 1, i - 1) \o SubSeq(pr.rules, i + 1, Len(pr.rules)) \in Seq(Rule)
    <3>1. i \in 1..Len(pr.rules) /\ Len(pr.rules) \in Nat
      BY <1>1
    <3>2. \A j \in 1..(i - 1) : pr.rules[j] \in Rule
      BY <1>1, <3>1
    <3>3. \A j \in (i + 1)..Len(pr.rules) : pr.rules[j] \in Rule
      BY <1>1, <3>1
    <3>4. SubSeq(pr.rules, 1, i - 1) \in Seq(Rule)
      BY <3>1, <3>2, SubSeqProperties
    <3>5. SubSeq(pr.rules, i + 1, Len(pr.rules)) \in Seq(Rule)
      BY <3>1, <3>3, SubSeqProperties
    <3>. QED  BY <3>4, <3>5, ConcatProperties
  <2>3. [pr EXCEPT !.rules = SubSeq(@, 1, i - 1) \o SubSeq(@, i + 1, Len(@))] \in PullRequest
    BY <1>1, <2>2 DEF PullRequest
  <2>. QED  BY <1>1, <2>1, <2>3, ChangesKeepsTypes
<1>4. CASE SetClassic
  <2>1. PICK classic \in ClassicPool \cup {None} :
          Changes([pr EXCEPT !.classic = classic]) /\ UNCHANGED shifted
    BY <1>4 DEF SetClassic
  <2>2. classic \in Classic \cup {None}
    BY RequirementsAssumption
  <2>3. [pr EXCEPT !.classic = classic] \in PullRequest
    BY <1>1, <2>2 DEF PullRequest
  <2>. QED  BY <1>1, <2>1, <2>3, ChangesKeepsTypes
<1>5. CASE Push
  <2>1. PICK head \in Heads : Changes([pr EXCEPT !.head = head]) /\ UNCHANGED shifted
    BY <1>5 DEF Push
  <2>2. [pr EXCEPT !.head = head] \in PullRequest
    BY <1>1 DEF PullRequest
  <2>. QED  BY <1>1, <2>1, <2>2, ChangesKeepsTypes
<1>6. CASE MoveBase
  <2>1. PICK base \in Bases : Changes([pr EXCEPT !.base = base]) /\ UNCHANGED shifted
    BY <1>6 DEF MoveBase
  <2>2. [pr EXCEPT !.base = base] \in PullRequest
    BY <1>1 DEF PullRequest
  <2>. QED  BY <1>1, <2>1, <2>2, ChangesKeepsTypes
<1>7. CASE Rerun
  <2> DEFINE again(i) == [pr.runs[i] EXCEPT !.start = Len(pr.runs) + 1, !.state = "IN_PROGRESS"]
  <2>1. PICK i \in DOMAIN pr.runs :
          Changes([pr EXCEPT !.runs = Append(@, again(i))]) /\ UNCHANGED shifted
    BY <1>7 DEF Rerun
  <2>2. again(i) \in Run
    <3>1. pr.runs[i] \in Run /\ Len(pr.runs) + 1 \in Nat
      BY <1>1
    <3>. QED  BY <3>1 DEF Run, States
  <2>3. Append(pr.runs, again(i)) \in Seq(Run)
    <3> HIDE DEF again
    <3>. QED  BY <1>1, <2>2
  <2> HIDE DEF again
  <2>4. [pr EXCEPT !.runs = Append(@, again(i))] \in PullRequest
    BY <1>1, <2>3 DEF PullRequest
  <2>. QED  BY <1>1, <2>1, <2>4, ChangesKeepsTypes
<1>8. CASE Conclude
  <2>1. PICK i \in DOMAIN pr.runs, state \in {"SUCCESS", "FAILURE"} :
          Changes([pr EXCEPT !.runs[i].state = state]) /\ UNCHANGED shifted
    BY <1>8 DEF Conclude
  <2>2. [pr.runs[i] EXCEPT !.state = state] \in Run
    <3>1. pr.runs[i] \in Run
      BY <1>1
    <3>. QED  BY <3>1 DEF Run, States
  <2>3. [pr.runs EXCEPT ![i] = [pr.runs[i] EXCEPT !.state = state]] \in Seq(Run)
    BY <1>1, <2>2, ExceptSeq
  <2>4. [pr EXCEPT !.runs[i].state = state] \in PullRequest
    BY <1>1, <2>3 DEF PullRequest
  <2>. QED  BY <1>1, <2>1, <2>4, ChangesKeepsTypes
<1>9. CASE SubmitReview
  <2> DEFINE review(who, state) == [reviewer |-> who, state |-> state, commit |-> pr.head]
  <2>1. PICK who \in Reviewers, state \in {"APPROVED", "CHANGES_REQUESTED"} :
          Changes([pr EXCEPT !.reviews = Append(@, review(who, state))]) /\ UNCHANGED shifted
    BY <1>9 DEF SubmitReview
  <2>2. review(who, state) \in Review
    BY <1>1 DEF Review
  <2> HIDE DEF review
  <2>3. Append(pr.reviews, review(who, state)) \in Seq(Review)
    BY <1>1, <2>2
  <2>4. [pr EXCEPT !.reviews = Append(@, review(who, state))] \in PullRequest
    BY <1>1, <2>3 DEF PullRequest
  <2>. QED  BY <1>1, <2>1, <2>4, ChangesKeepsTypes
<1>10. CASE OpenThread
  <2>1. Changes([pr EXCEPT !.threads = Append(@, "open")]) /\ UNCHANGED shifted
    BY <1>10 DEF OpenThread
  <2>2. Append(pr.threads, "open") \in Seq({"open", "resolved"})
    BY <1>1
  <2>3. [pr EXCEPT !.threads = Append(@, "open")] \in PullRequest
    BY <1>1, <2>2 DEF PullRequest
  <2>. QED  BY <1>1, <2>1, <2>3, ChangesKeepsTypes
<1>11. CASE RequestReview
  <2>1. Changes([pr EXCEPT !.requested = TRUE]) /\ UNCHANGED shifted
    BY <1>11 DEF RequestReview
  <2>2. [pr EXCEPT !.requested = TRUE] \in PullRequest
    BY <1>1 DEF PullRequest
  <2>. QED  BY <1>1, <2>1, <2>2, ChangesKeepsTypes
<1>. QED
  BY <1>2, <1>3, <1>4, <1>5, <1>6, <1>7, <1>8, <1>9, <1>10, <1>11 DEF GitHub

\* The first state of a call has its types.
LEMMA TypeInitially ==
  ASSUME Init
  PROVE  TypeOK
<1>1. Nothing \in Locals
  <2>1. <<>> \in Seq(Review)
    OBVIOUS
  <2>. QED  BY <2>1 DEF Nothing, Locals
<1>2. pr \in PullRequest
  BY RequirementsAssumption DEF Init
<1>3. /\ pc = "identity" /\ got = Nothing /\ answer = None /\ moves = 0 /\ faults = 0
      /\ seen = {pr} /\ listedAt = None /\ shifted = FALSE
  BY DEF Init
<1>4. moves \in 0..MaxMoves /\ faults \in 0..MaxFaults
  BY <1>3, RequirementsAssumption
<1>. QED  BY <1>1, <1>2, <1>3, <1>4 DEF TypeOK, Steps

\* Every variable of a call keeps its type, whatever GitHub does meanwhile.
THEOREM TypeCorrect == Spec => []TypeOK
<1>1. Init => TypeOK
  BY TypeInitially
<1>2. TypeOK /\ [Next]_vars => TypeOK'
  <2>1. TypeOK /\ UNCHANGED vars => TypeOK'
    BY DEF TypeOK, vars
  <2>. QED  BY <2>1, CallKeepsTypes, GitHubKeepsTypes
<1>. QED  BY <1>1, <1>2, PTL DEF Spec

-----------------------------------------------------------------------------
(* The policy. *)

HeldRule(rule) == \A s \in seen : rule \in RangeOf(s.rules)
HeldClassic(classic) == \A s \in seen : s.classic = classic

\* The policy covers what has held since the call began.
Covered(policy) ==
  /\ \A rule \in Rule : HeldRule(rule) => CoversRule(policy, rule)
  /\ \A classic \in Classic \ {None} : HeldClassic(classic) => CoversClassic(policy, classic)

\* The history holds the present, and nobody's permissions change in it.
SeenInv == pr \in seen /\ \A s \in seen : s.admin = pr.admin

\* Behind a full page the rules it showed still lead the list, unless one went.
ProbeInv ==
  pc = "rules probe" /\ ~shifted =>
    Len(pr.rules) >= PageSize /\ got.rules = SubSeq(pr.rules, 1, PageSize)

\* The rules that have held are among those read.
RulesInv ==
  pc \in {"branch", "protection", "admin probe"} /\ got.rules # None /\ ~shifted =>
    \A rule \in Rule : HeldRule(rule) => rule \in RangeOf(got.rules)

\* A 404 meant that there was no protection or that the caller may not see it.
AdminInv == pc = "admin probe" => \E s \in seen : s.classic = None \/ ~s.admin

PolicyInv == got.policy # None /\ ~shifted => Covered(got.policy)
AnswerInv == answer # None /\ answer.policy # None /\ ~shifted => Covered(answer.policy)

IInv == TypeOK /\ SeenInv /\ ProbeInv /\ RulesInv /\ AdminInv /\ PolicyInv /\ AnswerInv

\* A policy composed of the rules and the protection that were read covers those
\* that have held.
LEMMA ComposedCovers ==
  ASSUME TypeOK,
         got.rules # None => \A rule \in Rule : HeldRule(rule) => rule \in RangeOf(got.rules),
         NEW classic \in Classic \cup {None},
         \A c \in Classic \ {None} : HeldClassic(c) => classic = c,
         Composed(classic).policy # None
  PROVE  Covered(Composed(classic).policy)
<1>1. got \in Locals
  BY DEF TypeOK
<1>2. Composed(classic).policy = IF got.rules = None THEN None ELSE Effective(got.rules, classic)
  BY <1>1 DEF Composed, Locals
<1>3. got.rules # None /\ got.rules \in Seq(Rule)
  BY <1>1, <1>2 DEF Locals
<1>4. Composed(classic).policy = Effective(got.rules, classic) /\ Effective(got.rules, classic) # None
  BY <1>2, <1>3
<1>5. /\ \A i \in DOMAIN got.rules : CoversRule(Effective(got.rules, classic), got.rules[i])
      /\ classic # None => CoversClassic(Effective(got.rules, classic), classic)
  BY <1>3, <1>4, EffectiveCovers
<1>6. ASSUME NEW rule \in Rule, HeldRule(rule)
      PROVE  CoversRule(Effective(got.rules, classic), rule)
  BY <1>3, <1>5, <1>6 DEF RangeOf
<1>7. ASSUME NEW c \in Classic \ {None}, HeldClassic(c)
      PROVE  CoversClassic(Effective(got.rules, classic), c)
  BY <1>5, <1>7
<1>. QED  BY <1>4, <1>6, <1>7 DEF Covered

\* A step of the call past its rules keeps the invariant if its policy covers
\* what has held.
LEMMA ComposingKeepsInv ==
  ASSUME IInv, TypeOK',
         pc' \notin {"rules probe", "branch", "protection", "admin probe"},
         got'.policy # None /\ ~shifted => Covered(got'.policy),
         UNCHANGED <<pr, seen, shifted, answer>>
  PROVE  IInv'
<1>1. SeenInv'
  BY DEF IInv, SeenInv
<1>2. ProbeInv' /\ RulesInv' /\ AdminInv'
  BY DEF ProbeInv, RulesInv, AdminInv
<1>3. \A policy : Covered(policy) => Covered(policy)'
  BY DEF Covered, HeldRule, HeldClassic
<1>4. PolicyInv' /\ AnswerInv'
  BY <1>3 DEF IInv, PolicyInv, AnswerInv
<1>. QED  BY <1>1, <1>2, <1>4 DEF IInv

\* So does one that leaves the policy alone.
LEMMA QuietKeepsInv ==
  ASSUME IInv, TypeOK',
         pc' \notin {"rules probe", "branch", "protection", "admin probe"},
         got'.policy = got.policy, UNCHANGED <<pr, seen, shifted, answer>>
  PROVE  IInv'
<1>1. got'.policy # None /\ ~shifted => Covered(got'.policy)
  BY DEF IInv, PolicyInv
<1>. QED  BY <1>1, ComposingKeepsInv

\* The call ends without a policy, or with the one it has.
LEMMA ReturnsKeepsInv ==
  ASSUME IInv, TypeOK', NEW step, NEW value, Returns(step, value),
         value # None => value.policy = None \/ value.policy = got.policy
  PROVE  IInv'
<1>1. SeenInv'
  BY DEF IInv, SeenInv, Returns
<1>2. ProbeInv' /\ RulesInv' /\ AdminInv'
  BY DEF ProbeInv, RulesInv, AdminInv, Returns
<1>3. \A policy : Covered(policy) => Covered(policy)'
  BY DEF Covered, HeldRule, HeldClassic, Returns
<1>4. got'.policy = None
  BY DEF Returns, Nothing
<1>5. PolicyInv' /\ AnswerInv'
  BY <1>3, <1>4 DEF IInv, PolicyInv, AnswerInv, Returns
<1>. QED  BY <1>1, <1>2, <1>5 DEF IInv

\* A step that goes on reading rules and protection keeps the invariant if its
\* part about them holds.
LEMMA ReadingKeepsInv ==
  ASSUME IInv, TypeOK', got'.policy = got.policy, UNCHANGED <<pr, seen, shifted, answer>>,
         ProbeInv', RulesInv', AdminInv'
  PROVE  IInv'
<1>1. SeenInv'
  BY DEF IInv, SeenInv
<1>2. \A policy : Covered(policy) => Covered(policy)'
  BY DEF Covered, HeldRule, HeldClassic
<1>3. PolicyInv' /\ AnswerInv'
  BY <1>2 DEF IInv, PolicyInv, AnswerInv
<1>. QED  BY <1>1, <1>3 DEF IInv

\* The steps that read the rules, the branch and its protection.
LEMMA PolicyReadsKeepInv ==
  ASSUME IInv, TypeOK', ReadRules \/ ProbeRules \/ ReadBranch \/ ReadProtection \/ ProbeAdmin
  PROVE  IInv'
<1>0. /\ TypeOK /\ got \in Locals /\ pr \in PullRequest /\ pr.rules \in Seq(Rule)
      /\ pr.classic \in Classic \cup {None} /\ pr \in seen
      /\ Len(pr.rules) \in Nat /\ PageSize \in Nat
  BY PageSizeType DEF IInv, TypeOK, PullRequest, SeenInv
<1>1. \A rule : HeldRule(rule) => rule \in RangeOf(pr.rules)
  BY <1>0 DEF HeldRule
<1>2. CASE ReadRules
  <2> DEFINE page == Page(pr.rules, 0, PageSize)
  <2>1. /\ pc' = IF Len(pr.rules) < PageSize THEN "branch" ELSE "rules probe"
        /\ got' = [got EXCEPT !.rules = page]
        /\ UNCHANGED <<pr, answer, seen, shifted>>
    BY <1>2 DEF ReadRules, Reads
  <2>2. /\ Len(pr.rules) <= PageSize => page = pr.rules
        /\ Len(pr.rules) >= PageSize => page = SubSeq(pr.rules, 1, PageSize)
    BY <1>0, PageType
  <2> HIDE DEF page
  <2>3. got'.rules = page /\ got'.policy = got.policy
    BY <2>1, <1>0 DEF Locals
  <2>4. CASE Len(pr.rules) < PageSize
    <3>0. Len(pr.rules) <= PageSize
      BY <2>4, <1>0
    <3>1. got'.rules = pr.rules /\ pc' = "branch"
      BY <3>0, <2>1, <2>2, <2>3, <2>4, Zenon
    <3>2. RulesInv'
      <4>1. \A rule : HeldRule(rule)' => HeldRule(rule)
        BY <2>1 DEF HeldRule
      <4>2. RangeOf(got.rules)' = RangeOf(pr.rules)
        BY <3>1 DEF RangeOf
      <4>. QED  BY <4>1, <4>2, <1>1 DEF RulesInv
    <3>3. ProbeInv' /\ AdminInv'
      BY <3>1 DEF ProbeInv, AdminInv
    <3>. QED  BY <2>1, <2>3, <3>2, <3>3, ReadingKeepsInv
  <2>5. CASE ~(Len(pr.rules) < PageSize)
    <3>0. Len(pr.rules) >= PageSize
      BY <2>5, <1>0
    <3>1. got'.rules = SubSeq(pr.rules, 1, PageSize) /\ pc' = "rules probe"
      BY <3>0, <2>1, <2>2, <2>3, <2>5, Zenon
    <3>2. PageSize' = PageSize
      BY DEF PageSize
    <3>3. ProbeInv'
      BY <3>0, <3>1, <3>2, <2>1 DEF ProbeInv
    <3>4. RulesInv' /\ AdminInv'
      BY <3>1 DEF RulesInv, AdminInv
    <3>. QED  BY <2>1, <2>3, <3>3, <3>4, ReadingKeepsInv
  <2>. QED  BY <2>4, <2>5
<1>3. CASE ProbeRules
  <2>1. /\ pc = "rules probe" /\ pc' = "branch"
        /\ got' = IF Len(pr.rules) > PageSize THEN [got EXCEPT !.rules = None] ELSE got
        /\ UNCHANGED <<pr, answer, seen, shifted>>
    BY <1>3 DEF ProbeRules, Reads
  <2>2. got'.policy = got.policy
    BY <2>1, <1>0 DEF Locals
  <2>3. ASSUME got'.rules # None, ~shifted
        PROVE  got'.rules = pr.rules
    <3>0. [got EXCEPT !.rules = None].rules = None
      BY <1>0 DEF Locals
    <3>1. got' = got /\ ~(Len(pr.rules) > PageSize)
      BY <2>1, <2>3, <3>0, Zenon
    <3>2. Len(pr.rules) >= PageSize /\ got.rules = SubSeq(pr.rules, 1, PageSize)
      BY <2>1, <2>3 DEF IInv, ProbeInv
    <3>3. Len(pr.rules) = PageSize
      BY <3>1, <3>2, <1>0
    <3>4. SubSeq(pr.rules, 1, Len(pr.rules)) = pr.rules
      BY <1>0, SubSeqFull
    <3>. QED  BY <3>1, <3>2, <3>3, <3>4
  <2>4. RulesInv'
    <3>1. \A rule : HeldRule(rule)' => HeldRule(rule)
      BY <2>1 DEF HeldRule
    <3>2. shifted' = shifted
      BY <2>1
    <3>3. ASSUME got'.rules # None, ~shifted
          PROVE  RangeOf(got.rules)' = RangeOf(pr.rules)
      BY <2>3, <3>3 DEF RangeOf
    <3>. QED  BY <3>1, <3>2, <3>3, <1>1 DEF RulesInv
  <2>5. ProbeInv' /\ AdminInv'
    BY <2>1 DEF ProbeInv, AdminInv
  <2>. QED  BY <2>1, <2>2, <2>4, <2>5, ReadingKeepsInv
<1>4. ASSUME NEW classic \in Classic \cup {None},
             \A c \in Classic \ {None} : HeldClassic(c) => classic = c,
             pc \in {"branch", "protection", "admin probe"}, pc' = "methods",
             got' = Composed(classic), UNCHANGED <<pr, answer, seen, shifted>>
      PROVE  IInv'
  <2>1. ASSUME ~shifted, got'.policy # None PROVE Covered(got'.policy)
    <3>1. got.rules # None => \A rule \in Rule : HeldRule(rule) => rule \in RangeOf(got.rules)
      BY <1>4, <2>1 DEF IInv, RulesInv
    <3>. QED  BY <1>0, <1>4, <2>1, <3>1, ComposedCovers
  <2>. QED  BY <1>4, <2>1, ComposingKeepsInv
<1>5. CASE ReadBranch
  <2>1. CASE pr.classic = None /\ Reads("branch", "methods", Composed(None))
    <3>1. \A c \in Classic \ {None} : HeldClassic(c) => None = c
      BY <1>0, <2>1 DEF HeldClassic
    <3>. QED  BY <2>1, <3>1, <1>4 DEF Reads
  <2>2. CASE Reads("branch", "protection", got)
    <3>1. /\ pc = "branch" /\ pc' = "protection" /\ got' = got
          /\ UNCHANGED <<pr, answer, seen, shifted>>
      BY <2>2 DEF Reads
    <3>2. RulesInv'
      BY <3>1 DEF IInv, RulesInv, HeldRule
    <3>3. ProbeInv' /\ AdminInv'
      BY <3>1 DEF ProbeInv, AdminInv
    <3>. QED  BY <3>1, <3>2, <3>3, ReadingKeepsInv
  <2>. QED  BY <1>5, <2>1, <2>2 DEF ReadBranch
<1>6. CASE ReadProtection
  <2>1. CASE pr.classic # None /\ pr.admin
    <3>1. \A c \in Classic \ {None} : HeldClassic(c) => pr.classic = c
      BY <1>0 DEF HeldClassic
    <3>. QED  BY <1>0, <1>6, <2>1, <3>1, <1>4 DEF ReadProtection, Reads
  <2>2. CASE ~(pr.classic # None /\ pr.admin)
    <3>1. /\ pc = "protection" /\ pc' = "admin probe" /\ got' = got
          /\ UNCHANGED <<pr, answer, seen, shifted>>
      BY <1>6, <2>2 DEF ReadProtection, Reads
    <3>2. RulesInv'
      BY <3>1 DEF IInv, RulesInv, HeldRule
    <3>3. ProbeInv'
      BY <3>1 DEF ProbeInv
    <3>4. AdminInv'
      BY <1>0, <2>2, <3>1 DEF AdminInv
    <3>. QED  BY <3>1, <3>2, <3>3, <3>4, ReadingKeepsInv
  <2>. QED  BY <2>1, <2>2
<1>7. CASE ProbeAdmin
  <2>1. CASE pr.admin
    <3>1. PICK s \in seen : s.classic = None
      BY <1>7, <2>1 DEF ProbeAdmin, Reads, IInv, AdminInv, SeenInv
    <3>2. \A c \in Classic \ {None} : HeldClassic(c) => None = c
      BY <3>1 DEF HeldClassic
    <3>. QED  BY <1>7, <2>1, <3>2, <1>4 DEF ProbeAdmin, Reads
  <2>2. CASE ~pr.admin
    <3>1. /\ pc' = "methods" /\ got' = Unknown /\ UNCHANGED <<pr, answer, seen, shifted>>
      BY <1>7, <2>2 DEF ProbeAdmin, Reads
    <3>2. got'.policy = None
      BY <3>1, <1>0 DEF Unknown, Locals
    <3>. QED  BY <3>1, <3>2, ComposingKeepsInv
  <2>. QED  BY <2>1, <2>2
<1>. QED  BY <1>2, <1>3, <1>5, <1>6, <1>7

\* The other requests of the call and its end.
LEMMA OtherReadsKeepInv ==
  ASSUME IInv, TypeOK',
         \/ ReadIdentity \/ ReadMethods
         \/ ReadChecksIdentity \/ ListChecks \/ VerifyChecks \/ ReadPinned
         \/ ReadFreshness
         \/ ReadReviewIdentity \/ ReadReviews \/ ProbeReviews \/ ReadRequested \/ ReadThreads
         \/ VerifyReviews
         \/ ReadFinal \/ Raise
  PROVE  IInv'
<1>0. got \in Locals
  BY DEF IInv, TypeOK
<1>1. CASE ReadIdentity
  <2>1. CASE Reads("identity", "rules", [got EXCEPT !.base = pr.base])
    <3>1. [got EXCEPT !.base = pr.base].policy = got.policy
      BY <1>0 DEF Locals
    <3>2. /\ pc' \in {"rules"}
          /\ got'.policy = got.policy /\ UNCHANGED <<pr, seen, shifted, answer>>
      BY <2>1, <3>1 DEF Reads
    <3>. QED  BY <3>2, QuietKeepsInv
  <2>2. CASE Returns("identity", NoEvidence)
    <3>1. NoEvidence.policy = None
      BY DEF NoEvidence
    <3>. QED  BY <2>2, <3>1, ReturnsKeepsInv
  <2>. QED  BY <1>1, <2>1, <2>2 DEF ReadIdentity
<1>2. CASE ReadMethods
  <2>1. [got EXCEPT !.methods = RepositoryMethods, !.readable = TRUE].policy = got.policy
    BY <1>0 DEF Locals
  <2>2. [got EXCEPT !.methods = RepositoryMethods].policy = got.policy
    BY <1>0 DEF Locals
  <2>3. CASE NothingToCheck
    <3>1. /\ pc' \in {"freshness"}
          /\ got'.policy = got.policy /\ UNCHANGED <<pr, seen, shifted, answer>>
      BY <1>2, <2>1, <2>3 DEF ReadMethods, Reads
    <3>. QED  BY <3>1, QuietKeepsInv
  <2>4. CASE ~NothingToCheck
    <3>1. /\ pc' \in {"checks identity"}
          /\ got'.policy = got.policy /\ UNCHANGED <<pr, seen, shifted, answer>>
      BY <1>2, <2>2, <2>4 DEF ReadMethods, Reads
    <3>. QED  BY <3>1, QuietKeepsInv
  <2>. QED  BY <2>3, <2>4
<1>3. CASE ReadChecksIdentity
  <2>1. [got EXCEPT !.nested = <<pr.base, pr.head>>].policy = got.policy
    BY <1>0 DEF Locals
  <2>2. /\ pc' \in {"checks list"}
        /\ got'.policy = got.policy /\ UNCHANGED <<pr, seen, shifted, answer>>
    BY <1>3, <2>1 DEF ReadChecksIdentity, Reads
  <2>. QED  BY <2>2, QuietKeepsInv
<1>4. CASE ListChecks
  <2>1. PICK rows \in IF Cardinality(Listing(pr)) > HardMax THEN kSubset(HardMax, Listing(pr))
                                                           ELSE {Listing(pr)} :
          got' = [got EXCEPT !.rows = rows, !.readable = (rows = Listing(pr))]
    BY <1>4 DEF ListChecks
  <2>2. got'.policy = got.policy
    BY <1>0, <2>1 DEF Locals
  <2>. QED  BY <1>4, <2>2, QuietKeepsInv DEF ListChecks
<1>5. CASE VerifyChecks
  <2> DEFINE matches == got.nested = <<got.base, Expected>>
             consistent == got.policy # None =>
                             ContextsOf(got.rows) \subseteq ContextsOf(got.policy.checks)
  <2>1. \/ \E next \in {"pinned", "freshness"} :
             Reads("checks verify", next,
                   [got EXCEPT !.nested = None, !.matches = matches, !.consistent = consistent])
        \/ Returns("checks verify", None)
    BY <1>5 DEF VerifyChecks
  <2> HIDE DEF matches, consistent
  <2>2. CASE Returns("checks verify", None)
    BY <2>2, ReturnsKeepsInv
  <2>3. CASE \E next \in {"pinned", "freshness"} :
               Reads("checks verify", next,
                     [got EXCEPT !.nested = None, !.matches = matches, !.consistent = consistent])
    <3>1. [got EXCEPT !.nested = None, !.matches = matches,
                      !.consistent = consistent].policy = got.policy
      BY <1>0 DEF Locals
    <3>2. /\ pc' \in {"pinned", "freshness"}
          /\ got'.policy = got.policy /\ UNCHANGED <<pr, seen, shifted, answer>>
      BY <2>3, <3>1 DEF Reads
    <3>. QED  BY <3>2, QuietKeepsInv
  <2>. QED  BY <2>1, <2>2, <2>3
<1>6. CASE ReadPinned
  <2>1. pc' \in {"pinned", "freshness"} /\ UNCHANGED <<pr, seen, shifted, answer>>
    BY <1>6 DEF ReadPinned, Reads
  <2>2. got'.policy = got.policy
    BY <1>0, <1>6 DEF ReadPinned, Reads, Locals
  <2>. QED  BY <2>1, <2>2, QuietKeepsInv
<1>7. CASE ReadFreshness
  <2>1. \A v : [got EXCEPT !.upToDate = v].policy = got.policy
    BY <1>0 DEF Locals
  <2>2. /\ pc' \in {"review identity"}
        /\ got'.policy = got.policy /\ UNCHANGED <<pr, seen, shifted, answer>>
    BY <1>7, <2>1 DEF ReadFreshness, Reads
  <2>. QED  BY <2>2, QuietKeepsInv
<1>8. CASE ReadReviewIdentity
  <2>1. [got EXCEPT !.nested = pr.base].policy = got.policy
    BY <1>0 DEF Locals
  <2>2. [got EXCEPT !.reviewed = "moved"].policy = got.policy
    BY <1>0 DEF Locals
  <2>3. /\ pc' \in {"reviews", "final"}
        /\ got'.policy = got.policy /\ UNCHANGED <<pr, seen, shifted, answer>>
    BY <1>8, <2>1, <2>2 DEF ReadReviewIdentity, Reads
  <2>. QED  BY <2>3, QuietKeepsInv
<1>9. CASE ReadReviews
  <2>1. \A v : [got EXCEPT !.reviews = v].policy = got.policy
    BY <1>0 DEF Locals
  <2>2. /\ pc' \in {"requested", "reviews probe"}
        /\ got'.policy = got.policy /\ UNCHANGED <<pr, seen, shifted, answer>>
    BY <1>9, <2>1 DEF ReadReviews, Reads
  <2>. QED  BY <2>2, QuietKeepsInv
<1>10. CASE ProbeReviews
  <2>1. \A v : [got EXCEPT !.truncated = v].policy = got.policy
    BY <1>0 DEF Locals
  <2>2. /\ pc' \in {"requested"}
        /\ got'.policy = got.policy /\ UNCHANGED <<pr, seen, shifted, answer>>
    BY <1>10, <2>1 DEF ProbeReviews, Reads
  <2>. QED  BY <2>2, QuietKeepsInv
<1>11. CASE ReadRequested
  <2>1. \A v : [got EXCEPT !.requested = v].policy = got.policy
    BY <1>0 DEF Locals
  <2>2. /\ pc' \in {"threads"}
        /\ got'.policy = got.policy /\ UNCHANGED <<pr, seen, shifted, answer>>
    BY <1>11, <2>1 DEF ReadRequested, Reads
  <2>. QED  BY <2>2, QuietKeepsInv
<1>12. CASE ReadThreads
  <2> DEFINE truncated == got.truncated \/ Len(pr.threads) > PageSize
             open == Cardinality({i \in DOMAIN pr.threads :
                                    i <= PageSize /\ pr.threads[i] = "open"})
             decision == ReviewDecision(pr)
  <2>1. /\ pc' = "review verify"
        /\ got' = [got EXCEPT !.truncated = truncated, !.open = open, !.decision = decision]
        /\ UNCHANGED <<pr, seen, shifted, answer>>
    BY <1>12 DEF ReadThreads, Reads
  <2> HIDE DEF truncated, open, decision
  <2>2. got'.policy = got.policy
    BY <1>0, <2>1 DEF Locals
  <2>. QED  BY <2>1, <2>2, QuietKeepsInv
<1>13. CASE VerifyReviews
  <2>1. \A v : [got EXCEPT !.nested = None, !.reviewed = v].policy = got.policy
    BY <1>0 DEF Locals
  <2>2. /\ pc' \in {"final"}
        /\ got'.policy = got.policy /\ UNCHANGED <<pr, seen, shifted, answer>>
    BY <1>13, <2>1 DEF VerifyReviews, Reads
  <2>. QED  BY <2>2, QuietKeepsInv
<1>14. CASE ReadFinal
  <2>1. NoEvidence.policy = None
    BY DEF NoEvidence
  <2>2. Assembled.policy = got.policy
    BY DEF Assembled
  <2>3. Returns("final", Assembled) \/ Returns("final", NoEvidence)
    BY <1>14 DEF ReadFinal
  <2>. QED  BY <2>1, <2>2, <2>3, ReturnsKeepsInv
<1>15. CASE Raise
  BY <1>15, ReturnsKeepsInv DEF Raise
<1>. QED  BY <1>1, <1>2, <1>3, <1>4, <1>5, <1>6, <1>7, <1>8, <1>9, <1>10, <1>11, <1>12,
             <1>13, <1>14, <1>15

\* A request that fails leaves no rules, or no policy, or the policy that it was.
LEMMA FailureKeepsInv ==
  ASSUME IInv, TypeOK', RequestFails
  PROVE  IInv'
<1>0. got \in Locals /\ UNCHANGED <<pr, seen, shifted, answer>>
  BY DEF IInv, TypeOK, RequestFails
<1>1. CASE pc' = "branch" /\ got' = [got EXCEPT !.rules = None]
  <2>1. got'.rules = None /\ got'.policy = got.policy
    BY <1>0, <1>1 DEF Locals
  <2>2. ProbeInv' /\ RulesInv' /\ AdminInv'
    BY <1>1, <2>1 DEF ProbeInv, RulesInv, AdminInv
  <2>. QED  BY <1>0, <2>1, <2>2, ReadingKeepsInv
<1>2. CASE pc' = "methods" /\ got' = Unknown
  <2>1. got'.policy = None
    BY <1>0, <1>2 DEF Unknown, Locals
  <2>. QED  BY <1>0, <1>2, <2>1, ComposingKeepsInv
<1>3. CASE /\ pc' \in {"freshness", "checks identity", "review identity", "final"}
           /\ got'.policy = got.policy
  BY <1>0, <1>3, QuietKeepsInv
<1>4. \A v : [got EXCEPT !.readable = v].policy = got.policy
  BY <1>0 DEF Locals
<1>5. [got EXCEPT !.nested = None, !.rows = {}, !.readable = FALSE].policy = got.policy
  BY <1>0 DEF Locals
<1>6. [got EXCEPT !.kept = {}, !.readable = FALSE, !.matches = TRUE].policy = got.policy
  BY <1>0 DEF Locals
<1>7. [got EXCEPT !.nested = None, !.reviews = <<>>, !.truncated = FALSE].policy = got.policy
  BY <1>0 DEF Locals
<1>. QED  BY <1>1, <1>2, <1>3, <1>4, <1>5, <1>6, <1>7 DEF RequestFails

\* What is appended to a full page does not show on it.
LEMMA AppendKeepsPage ==
  ASSUME NEW S, NEW s \in Seq(S), NEW e \in S, NEW size \in Nat \ {0}, Len(s) >= size
  PROVE  /\ Len(Append(s, e)) >= size
         /\ SubSeq(Append(s, e), 1, size) = SubSeq(s, 1, size)
<1>1. Len(s) \in Nat /\ <<e>> \in Seq(S)
  OBVIOUS
<1>2. 1 \in 1..Len(s) /\ size \in 1..Len(s)
  BY <1>1
<1>3. SubSeq(s \o <<e>>, 1, size) = SubSeq(s, 1, size)
  BY <1>1, <1>2, SubSeqOfConcat1
<1>4. Append(s, e) = s \o <<e>>
  BY AppendIsConcat
<1>5. Len(Append(s, e)) = Len(s) + 1
  OBVIOUS
<1>6. Len(Append(s, e)) >= size
  BY <1>1, <1>5
<1>. QED  BY <1>3, <1>4, <1>6

\* What changes at GitHub only adds to the history, and rules that are added come
\* behind those a full page has shown.
LEMMA ChangesKeepInv ==
  ASSUME IInv, TypeOK', NEW next, Changes(next), next.admin = pr.admin,
         ~shifted' => ~shifted,
         pc = "rules probe" /\ ~shifted' =>
           next.rules = pr.rules \/ \E rule \in Rule : next.rules = Append(pr.rules, rule)
  PROVE  IInv'
<1>1. /\ pr' = next /\ seen' = seen \cup {next}
      /\ pc' = pc /\ got' = got /\ answer' = answer
  BY DEF Changes
<1>2. /\ \A rule : HeldRule(rule)' => HeldRule(rule)
      /\ \A classic : HeldClassic(classic)' => HeldClassic(classic)
  BY <1>1 DEF HeldRule, HeldClassic
<1>3. \A policy : Covered(policy) => Covered(policy)'
  BY <1>2 DEF Covered
<1>4. SeenInv'
  BY <1>1 DEF IInv, SeenInv
<1>5. ProbeInv'
  <2> SUFFICES ASSUME pc = "rules probe", ~shifted'
               PROVE  Len(next.rules) >= PageSize /\ got.rules = SubSeq(next.rules, 1, PageSize)
    <3>1. PageSize' = PageSize
      BY DEF PageSize
    <3>. QED  BY <1>1, <3>1 DEF ProbeInv
  <2>1. Len(pr.rules) >= PageSize /\ got.rules = SubSeq(pr.rules, 1, PageSize)
    BY DEF IInv, ProbeInv
  <2>2. ASSUME NEW rule \in Rule, next.rules = Append(pr.rules, rule)
        PROVE  Len(next.rules) >= PageSize /\ got.rules = SubSeq(next.rules, 1, PageSize)
    <3>1. pr.rules \in Seq(Rule)
      BY DEF IInv, TypeOK, PullRequest
    <3>2. /\ Len(Append(pr.rules, rule)) >= PageSize
          /\ SubSeq(Append(pr.rules, rule), 1, PageSize) = SubSeq(pr.rules, 1, PageSize)
      BY <2>1, <3>1, PageSizeType, AppendKeepsPage
    <3>. QED  BY <2>1, <2>2, <3>2
  <2>. QED  BY <2>1, <2>2
<1>6. RulesInv'
  <2>1. RangeOf(got.rules)' = RangeOf(got.rules)
    BY <1>1 DEF RangeOf
  <2>. QED  BY <1>1, <1>2, <2>1 DEF IInv, RulesInv
<1>7. AdminInv'
  BY <1>1 DEF IInv, AdminInv
<1>8. PolicyInv' /\ AnswerInv'
  BY <1>1, <1>3 DEF IInv, PolicyInv, AnswerInv
<1>. QED  BY <1>4, <1>5, <1>6, <1>7, <1>8 DEF IInv

\* GitHub's side of the invariant.
LEMMA GitHubKeepsInv ==
  ASSUME IInv, TypeOK', GitHub
  PROVE  IInv'
<1>0. pr \in PullRequest
  BY DEF IInv, TypeOK
<1>1. CASE AddRule
  <2>1. PICK rule \in RulePool :
          Changes([pr EXCEPT !.rules = Append(@, rule)]) /\ UNCHANGED shifted
    BY <1>1 DEF AddRule
  <2> DEFINE next == [pr EXCEPT !.rules = Append(@, rule)]
  <2>2. rule \in Rule
    BY RequirementsAssumption
  <2>3. next.admin = pr.admin /\ next.rules = Append(pr.rules, rule)
    BY <1>0 DEF PullRequest
  <2>4. Changes(next) /\ shifted' = shifted
    BY <2>1
  <2> HIDE DEF next
  <2>. QED  BY <2>2, <2>3, <2>4, ChangesKeepInv
<1>2. CASE RemoveRule
  <2>1. PICK i \in DOMAIN pr.rules :
          /\ Changes([pr EXCEPT !.rules = SubSeq(@, 1, i - 1) \o SubSeq(@, i + 1, Len(@))])
          /\ shifted' = (shifted \/ pc = "rules probe")
    BY <1>2 DEF RemoveRule
  <2> DEFINE next == [pr EXCEPT !.rules = SubSeq(@, 1, i - 1) \o SubSeq(@, i + 1, Len(@))]
  <2>2. next.admin = pr.admin
    BY <1>0 DEF PullRequest
  <2>3. Changes(next)
    BY <2>1
  <2> HIDE DEF next
  <2>. QED  BY <2>1, <2>2, <2>3, ChangesKeepInv
<1>3. ASSUME NEW next, Changes(next), UNCHANGED shifted,
             next.admin = pr.admin, next.rules = pr.rules
      PROVE  IInv'
  BY <1>3, ChangesKeepInv
<1>4. CASE SetClassic
  <2>1. \A v : [pr EXCEPT !.classic = v].admin = pr.admin
               /\ [pr EXCEPT !.classic = v].rules = pr.rules
    BY <1>0 DEF PullRequest
  <2>. QED  BY <1>4, <2>1, <1>3 DEF SetClassic
<1>5. CASE Push
  <2>1. \A v : [pr EXCEPT !.head = v].admin = pr.admin /\ [pr EXCEPT !.head = v].rules = pr.rules
    BY <1>0 DEF PullRequest
  <2>. QED  BY <1>5, <2>1, <1>3 DEF Push
<1>6. CASE MoveBase
  <2>1. \A v : [pr EXCEPT !.base = v].admin = pr.admin /\ [pr EXCEPT !.base = v].rules = pr.rules
    BY <1>0 DEF PullRequest
  <2>. QED  BY <1>6, <2>1, <1>3 DEF MoveBase
<1>7. \A v : [pr EXCEPT !.runs = v].admin = pr.admin /\ [pr EXCEPT !.runs = v].rules = pr.rules
  BY <1>0 DEF PullRequest
<1>8. CASE Rerun
  <2>1. \E v : Changes([pr EXCEPT !.runs = v]) /\ UNCHANGED shifted
    BY <1>8 DEF Rerun
  <2>. QED  BY <2>1, <1>7, <1>3
<1>9. CASE Conclude
  <2>1. \E v : Changes([pr EXCEPT !.runs = v]) /\ UNCHANGED shifted
    BY <1>9 DEF Conclude
  <2>. QED  BY <2>1, <1>7, <1>3
<1>10. CASE SubmitReview
  <2>1. \A v : [pr EXCEPT !.reviews = v].admin = pr.admin
               /\ [pr EXCEPT !.reviews = v].rules = pr.rules
    BY <1>0 DEF PullRequest
  <2>2. \E v : Changes([pr EXCEPT !.reviews = v]) /\ UNCHANGED shifted
    BY <1>10 DEF SubmitReview
  <2>. QED  BY <2>1, <2>2, <1>3
<1>11. CASE OpenThread
  <2>1. \A v : [pr EXCEPT !.threads = v].admin = pr.admin
               /\ [pr EXCEPT !.threads = v].rules = pr.rules
    BY <1>0 DEF PullRequest
  <2>2. \E v : Changes([pr EXCEPT !.threads = v]) /\ UNCHANGED shifted
    BY <1>11 DEF OpenThread
  <2>. QED  BY <2>1, <2>2, <1>3
<1>12. CASE RequestReview
  <2>1. \A v : [pr EXCEPT !.requested = v].admin = pr.admin
               /\ [pr EXCEPT !.requested = v].rules = pr.rules
    BY <1>0 DEF PullRequest
  <2>. QED  BY <1>12, <2>1, <1>3 DEF RequestReview
<1>. QED
  BY <1>1, <1>2, <1>4, <1>5, <1>6, <1>8, <1>9, <1>10, <1>11, <1>12 DEF GitHub

\* At every point of a call the policy it has read covers what has held since the
\* call began, and so do the rules it is still composing it from.
THEOREM Invariance == Spec => []IInv
<1>1. Init => IInv
  <2> SUFFICES ASSUME Init, TypeOK PROVE IInv
    BY TypeInitially
  <2>1. /\ pc = "identity" /\ answer = None /\ seen = {pr} /\ got.policy = None
    BY DEF Init, Nothing
  <2>. QED
    BY <2>1 DEF IInv, SeenInv, ProbeInv, RulesInv, AdminInv, PolicyInv, AnswerInv
<1>2. IInv /\ TypeOK' /\ [Next]_vars => IInv'
  <2> SUFFICES ASSUME IInv, TypeOK', [Next]_vars PROVE IInv'
    OBVIOUS
  <2>1. CASE UNCHANGED vars
    BY <2>1 DEF vars, IInv, TypeOK, SeenInv, ProbeInv, RulesInv, AdminInv, PolicyInv,
                AnswerInv, Covered, HeldRule, HeldClassic, PageSize
  <2>2. CASE Next
    BY <2>2, PolicyReadsKeepInv, OtherReadsKeepInv, FailureKeepsInv, GitHubKeepsInv DEF Next
  <2>. QED  BY <2>1, <2>2
<1>. QED  BY <1>1, <1>2, TypeCorrect, PTL DEF Spec

\* The reported policy covers every rule and every protection that was in force
\* throughout the call.
THEOREM PolicyCovers == Spec => []PolicyCoversWhatHeld
<1>1. IInv => PolicyCoversWhatHeld
  <2> SUFFICES ASSUME IInv, answer # None, answer.policy # None, ~shifted
               PROVE  PolicyCoversWhatHeld
    BY DEF PolicyCoversWhatHeld
  <2>1. Covered(answer.policy)
    BY DEF IInv, AnswerInv
  <2>2. seen \subseteq PullRequest
    BY DEF IInv, TypeOK
  <2>3. ASSUME NEW rule \in UNION {RangeOf(s.rules) : s \in seen},
               \A s \in seen : rule \in RangeOf(s.rules)
        PROVE  CoversRule(answer.policy, rule)
    <3>1. PICK s \in seen : rule \in RangeOf(s.rules)
      BY <2>3
    <3>2. s.rules \in Seq(Rule)
      BY <2>2 DEF PullRequest
    <3>3. rule \in Rule
      BY <3>1, <3>2 DEF RangeOf
    <3>. QED  BY <2>1, <2>3, <3>3 DEF Covered, HeldRule
  <2>4. ASSUME NEW classic \in {s.classic : s \in seen} \ {None},
               \A s \in seen : s.classic = classic
        PROVE  CoversClassic(answer.policy, classic)
    <3>1. classic \in Classic \ {None}
      BY <2>2 DEF PullRequest
    <3>. QED  BY <2>1, <2>4, <3>1 DEF Covered, HeldClassic
  <2>. QED  BY <2>3, <2>4 DEF PolicyCoversWhatHeld, Throughout
<1>. QED  BY <1>1, Invariance, PTL

-----------------------------------------------------------------------------
(* The reviews. *)

\* The state of the reviews is not answered before the second look.
UnreadInv == pc \notin {"final", "done"} => got.reviewed = "unread"

\* A full page of reviews shows what once was submitted; reviews only come.
ReviewsPageInv ==
  pc = "reviews probe" =>
    \E s \in seen : /\ got.reviews = Page(s.reviews, 0, PageSize)
                    /\ Len(s.reviews) <= Len(pr.reviews)

\* Reviews that are not truncated are all there were at one time of the call.
ReviewsReadInv ==
  pc \in {"requested", "threads", "review verify"} \/ (pc = "final" /\ got.reviewed = "read") =>
    got.truncated \/ \E s \in seen : s.reviews = got.reviews

\* No open thread on a page that shows them all: there was none.
ThreadsReadInv ==
  pc = "review verify" \/ (pc = "final" /\ got.reviewed = "read") =>
    got.truncated \/ got.open # 0 \/ \E s \in seen : "open" \notin RangeOf(s.threads)

ReviewInv == UnreadInv /\ ReviewsPageInv /\ ReviewsReadInv /\ ThreadsReadInv

\* A step of the call that is not about reviews leaves them unread.
LEMMA OtherStepsKeepReviews ==
  ASSUME ReviewInv, pc \notin {"final", "done"}, got'.reviewed \in {got.reviewed, "moved"},
         pc' \notin {"reviews probe", "requested", "threads", "review verify", "done"},
         pc' = "final" \/ got'.reviewed = got.reviewed
  PROVE  ReviewInv'
<1>1. got.reviewed = "unread"
  BY DEF ReviewInv, UnreadInv
<1>. QED
  BY <1>1 DEF ReviewInv, UnreadInv, ReviewsPageInv, ReviewsReadInv, ThreadsReadInv

\* So does the end of the call.
LEMMA ReturnsKeepsReviews ==
  ASSUME NEW step, NEW value, Returns(step, value)
  PROVE  ReviewInv'
BY DEF Returns, Nothing, ReviewInv, UnreadInv, ReviewsPageInv, ReviewsReadInv, ThreadsReadInv

\* The first page shows all reviews, or as many as it has room for.
LEMMA ReadReviewsKeepsReviews ==
  ASSUME TypeOK, SeenInv, ReviewInv, ReadReviews
  PROVE  ReviewInv'
<1>0. /\ got \in Locals /\ pr.reviews \in Seq(Review) /\ pr \in seen
      /\ Len(pr.reviews) \in Nat /\ PageSize \in Nat
  BY PageSizeType DEF TypeOK, PullRequest, SeenInv
<1> DEFINE page == Page(pr.reviews, 0, PageSize)
<1>1. /\ pc = "reviews"
      /\ pc' = IF Len(pr.reviews) < PageSize THEN "requested" ELSE "reviews probe"
      /\ got' = [got EXCEPT !.reviews = page]
      /\ UNCHANGED <<pr, seen>>
  BY DEF ReadReviews, Reads
<1>2. Len(pr.reviews) <= PageSize => page = pr.reviews
  BY <1>0, PageType
<1>3. page' = page
  BY <1>1 DEF Page, PageSize
<1>4. got'.reviews = page /\ got'.reviewed = got.reviewed
  <2> HIDE DEF page
  <2>. QED  BY <1>0, <1>1 DEF Locals
<1>5. UnreadInv'
  BY <1>1, <1>4 DEF ReviewInv, UnreadInv
<1>6. ReviewsPageInv'
  <2>1. PageSize' = PageSize /\ seen' = seen /\ pr' = pr
    BY <1>1 DEF PageSize
  <2>2. pr \in seen /\ got'.reviews = Page(pr.reviews, 0, PageSize)
        /\ Len(pr.reviews) <= Len(pr.reviews)
    BY <1>0, <1>4
  <2>3. \E s \in seen : /\ got'.reviews = Page(s.reviews, 0, PageSize)
                        /\ Len(s.reviews) <= Len(pr.reviews)
    BY <2>2
  <2>. QED  BY <2>1, <2>3 DEF ReviewsPageInv, Page
<1>7. ReviewsReadInv'
  <2>1. pc' \in {"requested", "threads", "review verify"} => Len(pr.reviews) <= PageSize
    <3> HIDE DEF page
    <3>1. CASE Len(pr.reviews) < PageSize
      <4>1. Len(pr.reviews) <= PageSize
        BY <1>0, <3>1
      <4>. QED  BY <4>1
    <3>2. CASE ~(Len(pr.reviews) < PageSize)
      <4>1. pc' = "reviews probe"
        BY <1>1, <3>2
      <4>. QED  BY <4>1
    <3>. QED  BY <3>1, <3>2
  <2> HIDE DEF page
  <2>2. pc' # "final"
    BY <1>1
  <2>. QED  BY <1>0, <1>1, <1>2, <1>4, <2>1, <2>2 DEF ReviewsReadInv
<1>8. ThreadsReadInv'
  BY <1>1 DEF ThreadsReadInv
<1>. QED  BY <1>5, <1>6, <1>7, <1>8 DEF ReviewInv

\* Nothing behind the page: what it showed was all.
LEMMA ProbeReviewsKeepsReviews ==
  ASSUME TypeOK, SeenInv, ReviewInv, ProbeReviews
  PROVE  ReviewInv'
<1>0. /\ got \in Locals /\ pr.reviews \in Seq(Review) /\ Len(pr.reviews) \in Nat
      /\ seen \subseteq PullRequest /\ PageSize \in Nat
  BY PageSizeType DEF TypeOK, PullRequest
<1> DEFINE truncated == Len(pr.reviews) > PageSize
<1>1. /\ pc = "reviews probe" /\ pc' = "requested"
      /\ got' = [got EXCEPT !.truncated = truncated]
      /\ UNCHANGED <<pr, seen>>
  BY DEF ProbeReviews, Reads
<1>2. got'.reviews = got.reviews /\ got'.reviewed = got.reviewed /\ got'.truncated = truncated
  <2> HIDE DEF truncated
  <2>. QED  BY <1>0, <1>1 DEF Locals
<1>3. ASSUME ~truncated
      PROVE  \E s \in seen : s.reviews = got.reviews
  <2>1. PICK s \in seen : /\ got.reviews = Page(s.reviews, 0, PageSize)
                          /\ Len(s.reviews) <= Len(pr.reviews)
    BY <1>1 DEF ReviewInv, ReviewsPageInv
  <2>2. s.reviews \in Seq(Review) /\ Len(s.reviews) \in Nat
    BY <1>0 DEF PullRequest
  <2>3. Len(s.reviews) <= PageSize
    BY <1>0, <1>3, <2>1, <2>2
  <2>4. got.reviews = s.reviews
    BY <1>0, <2>1, <2>2, <2>3, PageType
  <2>. QED  BY <2>4
<1> HIDE DEF truncated
<1>4. ReviewsReadInv'
  BY <1>1, <1>2, <1>3 DEF ReviewsReadInv
<1>. QED  BY <1>1, <1>2, <1>4 DEF ReviewInv, UnreadInv, ReviewsPageInv, ThreadsReadInv

\* The requested reviewers say nothing of the reviews.
LEMMA ReadRequestedKeepsReviews ==
  ASSUME TypeOK, ReviewInv, ReadRequested
  PROVE  ReviewInv'
<1>1. /\ pc = "requested" /\ pc' = "threads" /\ UNCHANGED <<pr, seen>>
      /\ got' = [got EXCEPT !.requested = pr.requested]
  BY DEF ReadRequested, Reads
<1>2. /\ got'.reviews = got.reviews /\ got'.reviewed = got.reviewed
      /\ got'.truncated = got.truncated
  BY <1>1 DEF TypeOK, Locals
<1>. QED
  BY <1>1, <1>2 DEF ReviewInv, UnreadInv, ReviewsPageInv, ReviewsReadInv, ThreadsReadInv

\* A page of threads that shows them all and counts no open one.
LEMMA ReadThreadsKeepsReviews ==
  ASSUME TypeOK, SeenInv, ReviewInv, ReadThreads
  PROVE  ReviewInv'
<1>0. /\ got \in Locals /\ pr \in seen /\ PageSize \in Nat
      /\ pr.threads \in Seq({"open", "resolved"}) /\ Len(pr.threads) \in Nat
  BY PageSizeType DEF TypeOK, PullRequest, SeenInv
<1> DEFINE truncated == got.truncated \/ Len(pr.threads) > PageSize
           open == {i \in DOMAIN pr.threads : i <= PageSize /\ pr.threads[i] = "open"}
           count == Cardinality(open)
           decision == ReviewDecision(pr)
<1>1. /\ pc = "threads" /\ pc' = "review verify" /\ UNCHANGED <<pr, seen>>
      /\ got' = [got EXCEPT !.truncated = truncated, !.open = count, !.decision = decision]
  BY DEF ReadThreads, Reads
<1>2. /\ got'.reviews = got.reviews /\ got'.reviewed = got.reviewed
      /\ got'.truncated = truncated /\ got'.open = count
  <2> HIDE DEF truncated, count, decision
  <2>. QED  BY <1>0, <1>1 DEF Locals
<1>3. ReviewsReadInv'
  BY <1>1, <1>2 DEF ReviewInv, ReviewsReadInv
<1>4. ASSUME ~truncated, count = 0
      PROVE  "open" \notin RangeOf(pr.threads)
  <2>1. IsFiniteSet(open)
    BY <1>0, PlacesFinite
  <2>2. open = {}
    <3> HIDE DEF open
    <3>. QED  BY <1>4, <2>1, FS_EmptySet
  <2>3. \A i \in DOMAIN pr.threads : i <= PageSize
    BY <1>0, <1>4
  <2>. QED  BY <2>2, <2>3 DEF RangeOf
<1>5. ThreadsReadInv'
  <2> HIDE DEF truncated, count
  <2>. QED  BY <1>0, <1>1, <1>2, <1>4 DEF ThreadsReadInv, RangeOf
<1>. QED  BY <1>1, <1>2, <1>3, <1>5 DEF ReviewInv, UnreadInv, ReviewsPageInv

\* The second look decides whether what was read counts.
LEMMA VerifyReviewsKeepsReviews ==
  ASSUME TypeOK, ReviewInv, VerifyReviews
  PROVE  ReviewInv'
<1>1. PICK reviewed \in {"unread", "read", "moved"} :
        /\ pc = "review verify" /\ pc' = "final" /\ UNCHANGED <<pr, seen>>
        /\ got' = [got EXCEPT !.nested = None, !.reviewed = reviewed]
  BY DEF VerifyReviews, Reads
<1>2. /\ got'.reviews = got.reviews /\ got'.truncated = got.truncated
      /\ got'.open = got.open
  BY <1>1 DEF TypeOK, Locals
<1>. QED
  BY <1>1, <1>2 DEF ReviewInv, UnreadInv, ReviewsPageInv, ReviewsReadInv, ThreadsReadInv

\* Between counts.
LEMMA AtMost ==
  ASSUME NEW a \in Nat, NEW b \in Nat, NEW c \in Nat, a <= b, c >= b
  PROVE  a <= c
OBVIOUS

\* Nothing that changes at GitHub takes a review away.
LEMMA ChangesKeepReviews ==
  ASSUME TypeOK, ReviewInv, NEW next \in PullRequest, Changes(next),
         Len(next.reviews) >= Len(pr.reviews)
  PROVE  ReviewInv'
<1>1. /\ pr' = next /\ seen \subseteq seen' /\ pc' = pc /\ got' = got /\ PageSize' = PageSize
  BY DEF Changes, PageSize
<1>2. /\ Len(pr.reviews) \in Nat /\ Len(next.reviews) \in Nat
      /\ \A s \in seen : Len(s.reviews) \in Nat
  BY DEF TypeOK, PullRequest
<1>3. UnreadInv'
  BY <1>1 DEF ReviewInv, UnreadInv
<1>4. ReviewsPageInv'
  <2> SUFFICES ASSUME pc = "reviews probe"
               PROVE  \E s \in seen' : /\ got.reviews = Page(s.reviews, 0, PageSize)
                                       /\ Len(s.reviews) <= Len(next.reviews)
    BY <1>1 DEF ReviewsPageInv, Page
  <2>1. PICK s \in seen : /\ got.reviews = Page(s.reviews, 0, PageSize)
                          /\ Len(s.reviews) <= Len(pr.reviews)
    BY DEF ReviewInv, ReviewsPageInv
  <2>2. Len(s.reviews) <= Len(next.reviews)
    <3>1. Len(s.reviews) \in Nat /\ Len(pr.reviews) \in Nat /\ Len(next.reviews) \in Nat
      BY <1>2
    <3>2. Len(s.reviews) <= Len(pr.reviews) /\ Len(next.reviews) >= Len(pr.reviews)
      BY <2>1
    <3>. QED  BY <3>1, <3>2, AtMost
  <2>. QED  BY <1>1, <2>1, <2>2
<1>5. ReviewsReadInv'
  <2>1. (\E s \in seen : s.reviews = got.reviews) => \E s \in seen' : s.reviews = got.reviews
    BY <1>1
  <2>. QED  BY <1>1, <2>1 DEF ReviewInv, ReviewsReadInv
<1>6. ThreadsReadInv'
  <2>1. (\E s \in seen : "open" \notin RangeOf(s.threads))
          => \E s \in seen' : "open" \notin RangeOf(s.threads)
    BY <1>1
  <2>. QED  BY <1>1, <2>1 DEF ReviewInv, ThreadsReadInv, RangeOf
<1>. QED  BY <1>3, <1>4, <1>5, <1>6 DEF ReviewInv

\* What is changed at GitHub is a pull request, with all its reviews.
LEMMA GitHubKeepsReviewed ==
  ASSUME TypeOK, TypeOK', GitHub
  PROVE  \E next \in PullRequest : Changes(next) /\ Len(next.reviews) >= Len(pr.reviews)
<1>0. pr \in PullRequest /\ Len(pr.reviews) \in Nat /\ pr.reviews \in Seq(Review)
  BY DEF TypeOK, PullRequest
<1>1. SUFFICES \E next : Changes(next) /\ Len(next.reviews) >= Len(pr.reviews)
  BY DEF Changes, TypeOK
<1>2. /\ \A v : [pr EXCEPT !.rules = v].reviews = pr.reviews
      /\ \A v : [pr EXCEPT !.classic = v].reviews = pr.reviews
      /\ \A v : [pr EXCEPT !.head = v].reviews = pr.reviews
      /\ \A v : [pr EXCEPT !.base = v].reviews = pr.reviews
      /\ \A v : [pr EXCEPT !.runs = v].reviews = pr.reviews
      /\ \A v : [pr EXCEPT !.threads = v].reviews = pr.reviews
      /\ \A v : [pr EXCEPT !.requested = v].reviews = pr.reviews
      /\ \A v : [pr EXCEPT !.reviews = v].reviews = v
  BY <1>0 DEF PullRequest
<1>3. ASSUME NEW next, Changes(next), next.reviews = pr.reviews
      PROVE  \E n : Changes(n) /\ Len(n.reviews) >= Len(pr.reviews)
  BY <1>0, <1>3
<1>4. CASE AddRule \/ RemoveRule
  <2>1. \E v : Changes([pr EXCEPT !.rules = v])
    BY <1>4 DEF AddRule, RemoveRule
  <2>. QED  BY <2>1, <1>2, <1>3
<1>5. CASE SetClassic
  BY <1>5, <1>2, <1>3 DEF SetClassic
<1>6. CASE Push
  BY <1>6, <1>2, <1>3 DEF Push
<1>7. CASE MoveBase
  BY <1>7, <1>2, <1>3 DEF MoveBase
<1>8. CASE Rerun \/ Conclude
  <2>1. \E v : Changes([pr EXCEPT !.runs = v])
    BY <1>8 DEF Rerun, Conclude
  <2>. QED  BY <2>1, <1>2, <1>3
<1>9. CASE OpenThread
  <2>1. \E v : Changes([pr EXCEPT !.threads = v])
    BY <1>9 DEF OpenThread
  <2>. QED  BY <2>1, <1>2, <1>3
<1>10. CASE RequestReview
  <2>1. \E v : Changes([pr EXCEPT !.requested = v])
    BY <1>10 DEF RequestReview
  <2>. QED  BY <2>1, <1>2, <1>3
<1>11. CASE SubmitReview
  <2>1. PICK who \in Reviewers, state \in {"APPROVED", "CHANGES_REQUESTED"} :
          Changes([pr EXCEPT !.reviews =
                     Append(@, [reviewer |-> who, state |-> state, commit |-> pr.head])])
    BY <1>11 DEF SubmitReview
  <2> DEFINE review == [reviewer |-> who, state |-> state, commit |-> pr.head]
             next == [pr EXCEPT !.reviews = Append(pr.reviews, review)]
  <2>2. next.reviews = Append(pr.reviews, review)
    <3> HIDE DEF review
    <3>. QED  BY <1>2
  <2>3. Len(Append(pr.reviews, review)) = Len(pr.reviews) + 1
    <3>1. review \in Review
      BY <1>0 DEF Review, PullRequest
    <3> HIDE DEF review
    <3>. QED  BY <1>0, <3>1
  <2>4. Len(next.reviews) >= Len(pr.reviews)
    <3> HIDE DEF next, review
    <3>. QED  BY <1>0, <2>2, <2>3
  <2>5. Changes(next)
    BY <2>1
  <2> HIDE DEF next
  <2>. QED  BY <2>4, <2>5
<1>. QED
  BY <1>4, <1>5, <1>6, <1>7, <1>8, <1>9, <1>10, <1>11 DEF GitHub

-----------------------------------------------------------------------------
(* Pages: how many places of a list lead up to one of them, and how many   *)
(* there are that have at most so many.                                    *)

Rank(places, i) == Cardinality({j \in places : j <= i})
Leading(places, k) == {i \in places : Rank(places, i) <= k}

\* Ranks are counts from 1, and grow along the list.
LEMMA RankFacts ==
  ASSUME NEW n \in Nat, NEW places \in SUBSET (1..n)
  PROVE  /\ IsFiniteSet(places) /\ Cardinality(places) \in Nat
         /\ \A i \in places : /\ Rank(places, i) \in 1..Cardinality(places)
         /\ \A i, m \in places : i < m => Rank(places, i) < Rank(places, m)
<1>1. IsFiniteSet(places)
  <2>1. n \in Int /\ 1 \in Int
    OBVIOUS
  <2>2. IsFiniteSet(1..n)
    BY <2>1, FS_Interval
  <2>. QED  BY <2>2, FS_Subset
<1>2. \A part \in SUBSET places :
        /\ IsFiniteSet(part) /\ Cardinality(part) \in Nat
        /\ Cardinality(part) <= Cardinality(places)
  BY <1>1, FS_Subset, FS_CardinalityType
<1>3. ASSUME NEW i \in places
      PROVE  Rank(places, i) \in 1..Cardinality(places)
  <2> DEFINE part == {j \in places : j <= i}
  <2>1. part \in SUBSET places /\ i \in part
    OBVIOUS
  <2> HIDE DEF part
  <2>2. Cardinality(part) # 0
    BY <1>2, <2>1, FS_EmptySet
  <2>3. Cardinality(part) \in Nat /\ Cardinality(places) \in Nat
        /\ Cardinality(part) <= Cardinality(places)
    BY <1>1, <1>2, <2>1, FS_CardinalityType
  <2>4. Cardinality(part) \in 1..Cardinality(places)
    BY <2>2, <2>3
  <2>. QED  BY <2>4 DEF Rank, part
<1>4. ASSUME NEW i \in places, NEW m \in places, i < m
      PROVE  Rank(places, i) < Rank(places, m)
  <2> DEFINE low == {j \in places : j <= i}
             high == {j \in places : j <= m}
  <2>1. low \subseteq high /\ m \in high /\ m \notin low /\ high \in SUBSET places
    <3>1. i \in Nat /\ m \in Nat /\ \A j \in places : j \in Nat
      OBVIOUS
    <3>2. \A j \in places : j <= i => j <= m
      BY <3>1, <1>4
    <3>3. ~(m <= i) /\ m <= m
      BY <3>1, <1>4
    <3>. QED  BY <3>2, <3>3
  <2> HIDE DEF low, high
  <2>2. IsFiniteSet(high) /\ low # high
    BY <1>2, <2>1
  <2>3. Cardinality(low) <= Cardinality(high) /\ Cardinality(low) # Cardinality(high)
    BY <2>1, <2>2, FS_Subset
  <2>4. Cardinality(low) \in Nat /\ Cardinality(high) \in Nat
    BY <1>2, <2>1
  <2>5. Cardinality(low) < Cardinality(high)
    BY <2>3, <2>4
  <2>. QED  BY <2>5 DEF Rank, low, high
<1>5. Cardinality(places) \in Nat
  BY <1>1, FS_CardinalityType
<1>. QED  BY <1>1, <1>3, <1>4, <1>5

\* Of places of a list, k have rank at most k: counting up to the first k for
\* which they did not, its place would be the one behind the others.
LEMMA LeadingCount ==
  ASSUME NEW n \in Nat, NEW places \in SUBSET (1..n), NEW k \in 0..Cardinality(places)
  PROVE  Cardinality(Leading(places, k)) = k
<1> DEFINE all == Cardinality(places)
           wrong == {c \in 0..all : Cardinality(Leading(places, c)) # c}
<1>0. /\ IsFiniteSet(places) /\ all \in Nat
      /\ \A i \in places : Rank(places, i) \in 1..all
      /\ \A i, m \in places : i < m => Rank(places, i) < Rank(places, m)
  BY RankFacts
<1> SUFFICES ASSUME wrong # {} PROVE FALSE
  OBVIOUS
<1> HIDE DEF all
<1>1. PICK c \in wrong : \A d \in wrong : c <= d
  <2>1. wrong \in SUBSET Nat
    BY <1>0
  <2> HIDE DEF wrong
  <2>. QED  BY <2>1, Least
<1>2. c \in Nat /\ c <= all /\ Cardinality(Leading(places, c)) # c
  BY <1>0, <1>1
<1>3. c # 0
  <2>1. \A i \in places : ~(Rank(places, i) <= 0)
    BY <1>0
  <2>2. Leading(places, 0) = {}
    BY <2>1 DEF Leading
  <2>. QED  BY <1>2, <2>2, FS_EmptySet
<1> DEFINE before == Leading(places, c - 1)
<1>4. Cardinality(before) = c - 1
  <2>1. c - 1 \in 0..all /\ c - 1 < c
    BY <1>0, <1>2, <1>3
  <2>2. c - 1 \notin wrong
    <3> HIDE DEF wrong
    <3>1. ~(c <= c - 1)
      BY <1>2
    <3>. QED  BY <1>1, <3>1
  <2>. QED  BY <2>1, <2>2
<1>5. before \subseteq places /\ IsFiniteSet(before)
  BY <1>0, FS_Subset DEF Leading
<1>6. PICK m \in places \ before : \A i \in places \ before : m <= i
  <2> DEFINE rest == places \ before
  <2>1. before # places
    BY <1>0, <1>2, <1>4 DEF all
  <2>2. rest # {} /\ rest \in SUBSET Nat
    <3>1. places \in SUBSET Nat
      OBVIOUS
    <3> HIDE DEF before
    <3>. QED  BY <1>5, <2>1, <3>1
  <2> HIDE DEF rest
  <2>3. PICK m \in rest : \A i \in rest : m <= i
    BY <2>2, Least
  <2>. QED  BY <2>3 DEF rest
<1>7. {j \in places : j <= m} = before \cup {m}
  <2>1. ASSUME NEW j \in places, j <= m, j # m PROVE j \in before
    <3>1. j \in Nat /\ m \in Nat
      OBVIOUS
    <3>2. ~(m <= j)
      BY <3>1, <2>1
    <3> HIDE DEF before
    <3>. QED  BY <1>6, <3>2
  <2>2. ASSUME NEW j \in before PROVE j \in places /\ j <= m
    <3>1. j \in places /\ Rank(places, j) <= c - 1
      BY DEF Leading
    <3>2. ~(Rank(places, m) <= c - 1)
      BY <1>6 DEF Leading
    <3>3. Rank(places, j) \in Nat /\ Rank(places, m) \in Nat
      BY <1>0, <3>1
    <3>4. ~(Rank(places, m) < Rank(places, j))
      BY <1>2, <3>1, <3>2, <3>3
    <3>5. ~(m < j)
      BY <1>0, <3>1, <3>4
    <3>6. j \in Nat /\ m \in Nat
      BY <3>1
    <3>. QED  BY <3>1, <3>5, <3>6
  <2>3. m \in places /\ m <= m
    OBVIOUS
  <2> HIDE DEF before
  <2>. QED  BY <2>1, <2>2, <2>3
<1>8. Cardinality(before \cup {m}) = c
  <2> HIDE DEF before
  <2>1. m \notin before
    BY <1>6
  <2>2. Cardinality(before \cup {m}) = Cardinality(before) + 1
    BY <1>5, <2>1, FS_AddElement
  <2>. QED  BY <1>2, <1>4, <2>2
<1>9. Rank(places, m) = c
  BY <1>7, <1>8 DEF Rank
<1>10. Leading(places, c) = before \cup {m}
  <2>1. ASSUME NEW i \in Leading(places, c), i \notin before PROVE i = m
    <3>1. i \in places /\ Rank(places, i) <= c
      BY DEF Leading
    <3>2. m <= i
      BY <1>6, <2>1, <3>1
    <3>3. Rank(places, i) \in Nat
      BY <1>0, <3>1
    <3>4. ~(m < i)
      BY <1>0, <1>2, <1>9, <3>1, <3>3
    <3>5. i \in Nat /\ m \in Nat
      BY <3>1
    <3>. QED  BY <3>2, <3>4, <3>5
  <2>2. ASSUME NEW i \in before PROVE i \in Leading(places, c)
    <3>1. i \in places /\ Rank(places, i) <= c - 1 /\ Rank(places, i) \in Nat
      BY <1>0 DEF Leading
    <3>. QED  BY <1>2, <3>1 DEF Leading
  <2>3. m \in Leading(places, c)
    BY <1>2, <1>9 DEF Leading
  <2> HIDE DEF before
  <2>. QED  BY <2>1, <2>2, <2>3
<1>. QED  BY <1>2, <1>8, <1>10

PageOf(places, read, size) == {i \in places : Rank(places, i) \in read + 1 .. read + size}

\* Behind the places that were read a page has the next ones: as many as it has
\* room for, or all that are left.
LEMMA PageFacts ==
  ASSUME NEW n \in Nat, NEW places \in SUBSET (1..n),
         NEW read \in 0..Cardinality(places), NEW size \in Int
  PROVE  LET count == Cardinality(PageOf(places, read, size))
         IN /\ count \in Nat
            /\ read + count \in 0..Cardinality(places)
            /\ Leading(places, read + count) = Leading(places, read) \cup PageOf(places, read, size)
            /\ Cardinality(places) <= read + size => Leading(places, read + count) = places
<1> DEFINE all == Cardinality(places)
           page == PageOf(places, read, size)
           top == IF size <= 0 THEN read ELSE IF read + size <= all THEN read + size ELSE all
<1>0. /\ IsFiniteSet(places) /\ all \in Nat
      /\ \A i \in places : Rank(places, i) \in 1..all
  BY RankFacts
<1>1. read \in Nat /\ read <= all
  BY <1>0
<1>2. top \in 0..all /\ read <= top
  BY <1>0, <1>1
<1>3. \A i \in places : i \in page <=> Rank(places, i) > read /\ Rank(places, i) <= top
  <2> SUFFICES ASSUME NEW i \in places
               PROVE  Rank(places, i) \in read + 1 .. read + size
                        <=> Rank(places, i) > read /\ Rank(places, i) <= top
    BY DEF PageOf
  <2>1. Rank(places, i) \in Nat /\ Rank(places, i) <= all
    BY <1>0
  <2> HIDE DEF all
  <2>. QED  BY <1>0, <1>1, <2>1
<1> HIDE DEF top
<1>4. page \subseteq places
  BY DEF PageOf
<1>5. Leading(places, top) = Leading(places, read) \cup page
  <2>1. \A i \in places : Rank(places, i) \in Nat
    BY <1>0
  <2>2. \A i \in places : Rank(places, i) <= top
                            <=> Rank(places, i) <= read \/ i \in page
    <3> SUFFICES ASSUME NEW i \in places
                 PROVE  Rank(places, i) <= top <=> Rank(places, i) <= read \/ i \in page
      OBVIOUS
    <3> HIDE DEF page
    <3>1. top \in Nat
      BY <1>0, <1>2
    <3>. QED  BY <3>1, <1>1, <1>2, <1>3, <2>1
  <2> HIDE DEF page
  <2>. QED  BY <1>4, <2>2 DEF Leading
<1>6. Cardinality(page) = top - read
  <2> DEFINE low == Leading(places, read)
             high == Leading(places, top)
  <2>1. /\ Cardinality(low) = read /\ Cardinality(high) = top
    BY <1>2, LeadingCount
  <2>2. low \cap page = {}
    <3>1. \A i \in places : Rank(places, i) \in Nat
      BY <1>0
    <3>2. \A i \in places : ~(Rank(places, i) <= read /\ Rank(places, i) > read)
      BY <3>1, <1>1
    <3>3. low \subseteq places /\ \A i \in low : Rank(places, i) <= read
      BY DEF Leading
    <3> HIDE DEF low, page
    <3>. QED  BY <1>3, <3>2, <3>3
  <2>3. IsFiniteSet(low) /\ IsFiniteSet(page)
    <3>1. low \in SUBSET places
      BY DEF Leading
    <3> HIDE DEF low, page
    <3>. QED  BY <1>0, <1>4, <3>1, FS_Subset
  <2>4. high = low \cup page
    BY <1>5
  <2> HIDE DEF low, high, page
  <2>5. Cardinality(high) = Cardinality(low) + Cardinality(page) - Cardinality(low \cap page)
    BY <2>3, <2>4, FS_Union
  <2>6. Cardinality(page) \in Nat
    BY <2>3, FS_CardinalityType
  <2>7. Cardinality(low \cap page) = 0
    BY <2>2, FS_EmptySet
  <2>8. top \in Int
    BY <1>2
  <2>. QED  BY <1>1, <2>1, <2>5, <2>6, <2>7, <2>8
<1>7. ASSUME all <= read + size
      PROVE  Leading(places, top) = places
  <2>1. top = all
    BY <1>0, <1>1, <1>7 DEF top
  <2>2. \A i \in places : Rank(places, i) <= all
    BY <1>0
  <2>. QED  BY <2>1, <2>2 DEF Leading
<1> HIDE DEF page, all
<1>8. read + Cardinality(page) = top /\ Cardinality(page) \in Nat
  BY <1>0, <1>1, <1>2, <1>6
<1>. QED  BY <1>2, <1>5, <1>7, <1>8 DEF page, all

-----------------------------------------------------------------------------
(* The checks. *)

\* Where the runs of the expected head are listed, and those of them that the
\* pages up to the n-th node have shown.
AtExpected(s) == {i \in DOMAIN s.runs : s.runs[i].head = Expected}
ReadSoFar(s, n) == Leading(AtExpected(s), n)

Fits(check, run) == run.context = check.context /\ run.app = check.app

\* At some time of the call the expected head did not need the check.
Excused(check) == \E s \in seen : s.head = Expected /\ ~Required(s, check)

\* Of the row of a run there is a newer one, or one as new and no better.
Kept(run, kept) ==
  \E r \in kept :
    /\ SameRow(r, run)
    /\ \/ r.start > run.start
       \/ r.start = run.start /\ (run.state # "SUCCESS" => r.state # "SUCCESS")

\* The runs kept of the first pages say what the places on them do, as far as
\* the pinned checks were needed, and nothing else.
PagesRead(wanted, kept, n) ==
  /\ n \in 0..Cardinality(AtExpected(pr))
  /\ \A check \in wanted :
       Excused(check) \/ \A i \in ReadSoFar(pr, n) :
                           Fits(check, pr.runs[i]) => Kept(pr.runs[i], kept)
  /\ \A r \in kept : \E i \in ReadSoFar(pr, n) :
       SameRow(r, pr.runs[i]) /\ r.start = pr.runs[i].start

FailsThroughout(check, workflow) ==
  \A s \in seen : s.head = Expected /\ NewestFails(s, check, workflow)

\* What is kept of a pinned check when all pages are read: a run, unless it had
\* none that was needed, and a failure where there was one all the time.
Established(check, kept) ==
  /\ \/ \E r \in kept : Fits(check, r)
     \/ \E s \in seen : /\ s.head = Expected
                        /\ \A run \in RunsAtHead(s) : Fits(check, run) => ~Required(s, run)
  /\ \A workflow \in Workflows :
       FailsThroughout(check, workflow)
         => \E r \in kept : Fits(check, r) /\ r.workflow = workflow /\ r.state # "SUCCESS"

\* The same of a check of any app, by the rows of gh pr checks.
Listed(check, rows) ==
  \A workflow \in Workflows :
    FailsThroughout(check, workflow)
      => \E r \in rows : /\ r.context = check.context /\ r.workflow = workflow
                         /\ r.state # "SUCCESS"

Earlier ==
  {"identity", "rules", "rules probe", "branch", "protection", "admin probe", "methods",
   "checks identity", "checks list", "checks verify"}
Later ==
  {"freshness", "review identity", "reviews", "reviews probe", "requested", "threads",
   "review verify", "final"}

NothingKeptInv == pc \in Earlier => got.nodes = 0 /\ got.kept = {}
PagesInv ==
  pc = "pinned" /\ got.matches =>
    got.policy # None /\ PagesRead(PinnedIn(got.policy), got.kept, got.nodes)
KeptInv ==
  pc \in Later /\ got.policy # None /\ got.readable /\ got.matches =>
    \A check \in PinnedIn(got.policy) : Established(check, got.kept)
ListedInv ==
  pc \in {"checks verify", "pinned"} \cup Later /\ got.policy # None /\ got.readable =>
    \A check \in got.policy.checks \ PinnedIn(got.policy) : Listed(check, got.rows)

ChecksInv == NothingKeptInv /\ PagesInv /\ KeptInv /\ ListedInv

\* A run demands what its check does.
LEMMA FittingRequired ==
  ASSUME NEW s, NEW check, NEW run, Fits(check, run)
  PROVE  Required(s, run) <=> Required(s, check)
BY DEF Fits, Required

\* The places of the expected head can be counted.
LEMMA ExpectedPlaces ==
  ASSUME NEW s \in PullRequest
  PROVE  /\ Len(s.runs) \in Nat /\ DOMAIN s.runs = 1..Len(s.runs)
         /\ AtExpected(s) \in SUBSET (1..Len(s.runs))
         /\ IsFiniteSet(AtExpected(s)) /\ Cardinality(AtExpected(s)) \in Nat
         /\ \A i \in AtExpected(s) : s.runs[i] \in Run /\ s.runs[i].start \in Nat
<1>1. s.runs \in Seq(Run)
  BY DEF PullRequest
<1>2. Len(s.runs) \in Nat /\ DOMAIN s.runs = 1..Len(s.runs)
  BY <1>1
<1>3. AtExpected(s) \in SUBSET DOMAIN s.runs
  BY DEF AtExpected
<1>4. IsFiniteSet(AtExpected(s)) /\ Cardinality(AtExpected(s)) \in Nat
  BY <1>1, <1>3, PlacesFinite
<1>5. \A i \in DOMAIN s.runs : s.runs[i] \in Run
  BY <1>1
<1>6. \A run \in Run : run.start \in Nat
  BY DEF Run
<1>. QED  BY <1>2, <1>3, <1>4, <1>5, <1>6

\* What has been seen can only grow, and then what it establishes stays.
LEMMA HistoryGrows ==
  ASSUME seen \subseteq seen'
  PROVE  /\ \A check : Excused(check) => Excused(check)'
         /\ \A check, kept : Established(check, kept) => Established(check, kept)'
         /\ \A check, rows : Listed(check, rows) => Listed(check, rows)'
<1>1. \A check, workflow : FailsThroughout(check, workflow)' => FailsThroughout(check, workflow)
  BY DEF FailsThroughout
<1>2. \A check : Excused(check) => Excused(check)'
  BY DEF Excused
<1>3. ASSUME NEW check, NEW kept, Established(check, kept)
      PROVE  Established(check, kept)'
  <2>1. \/ \E r \in kept : Fits(check, r)
        \/ \E s \in seen' : /\ s.head = Expected
                            /\ \A run \in RunsAtHead(s) : Fits(check, run) => ~Required(s, run)
    BY <1>3 DEF Established
  <2>2. \A workflow \in Workflows :
          FailsThroughout(check, workflow)'
            => \E r \in kept : Fits(check, r) /\ r.workflow = workflow /\ r.state # "SUCCESS"
    BY <1>1, <1>3 DEF Established
  <2>. QED  BY <2>1, <2>2 DEF Established
<1>4. ASSUME NEW check, NEW rows, Listed(check, rows)
      PROVE  Listed(check, rows)'
  BY <1>1, <1>4 DEF Listed
<1>. QED  BY <1>2, <1>3, <1>4

\* Of runs of which there is a newest, those that are thrown away are older.
LEMMA NewestKeeps ==
  ASSUME NEW runs \in SUBSET Run, NEW b \in Nat, \A r \in runs : r.start <= b,
         NEW run \in Run, Kept(run, runs)
  PROVE  Kept(run, Newest(runs))
<1>0. \A r \in Run : r.start \in Nat
  BY DEF Run
<1>1. PICK r \in runs :
        /\ SameRow(r, run)
        /\ \/ r.start > run.start
           \/ r.start = run.start /\ (run.state # "SUCCESS" => r.state # "SUCCESS")
  BY DEF Kept
<1>2. CASE \A other \in runs : SameRow(r, other) => other.start <= r.start
  <2>1. r \in Newest(runs)
    BY <1>2 DEF Newest
  <2>. QED  BY <1>1, <2>1 DEF Kept
<1>3. ASSUME NEW other \in runs, SameRow(r, other), ~(other.start <= r.start)
      PROVE  Kept(run, Newest(runs))
  <2> DEFINE row == {x \in runs : SameRow(r, x)}
             starts == {x.start : x \in row}
             last == Max(starts)
  <2>1. starts \in SUBSET Nat /\ starts # {} /\ \A y \in starts : y <= b
    BY <1>0, <1>3
  <2>2. last \in starts /\ \A y \in starts : last >= y
    <3> HIDE DEF starts
    <3>. QED  BY <2>1, MaxOfBounded
  <2>3. PICK x \in row : x.start = last
    BY <2>2
  <2>4. x \in runs /\ SameRow(r, x) /\ \A y \in row : x.start >= y.start
    <3> HIDE DEF last
    <3>. QED  BY <2>2, <2>3
  <2>5. x \in Newest(runs)
    <3>1. ASSUME NEW y \in runs, SameRow(x, y) PROVE y.start <= x.start
      <4>1. SameRow(r, y)
        BY <2>4, <3>1 DEF SameRow
      <4>2. y \in row
        BY <4>1
      <4>3. x.start >= y.start /\ x.start \in Nat /\ y.start \in Nat
        <5> HIDE DEF row
        <5>. QED  BY <1>0, <2>4, <4>2
      <4>. QED  BY <4>3
    <3>. QED  BY <2>4, <3>1 DEF Newest
  <2>6. x.start > run.start
    <3>1. x.start >= other.start
      BY <1>3, <2>4
    <3>2. /\ x.start \in Nat /\ other.start \in Nat /\ r.start \in Nat /\ run.start \in Nat
      BY <1>0, <2>4
    <3>3. r.start >= run.start
      BY <1>1, <3>2
    <3> HIDE DEF row, last
    <3>. QED  BY <1>3, <3>1, <3>2, <3>3
  <2>7. SameRow(x, run)
    BY <1>1, <2>4 DEF SameRow
  <2>. QED  BY <2>5, <2>6, <2>7 DEF Kept
<1>. QED  BY <1>2, <1>3

\* A page of the expected head adds what it shows to what was kept.
LEMMA PageIsKept ==
  ASSUME pr \in PullRequest, pr \in seen, pr.head = Expected,
         NEW checks \in SUBSET Requirement, NEW kept \in SUBSET Run, NEW n,
         PagesRead(checks, kept, n), NEW size \in Int,
         NEW page, page = PageOf(AtExpected(pr), n, size),
         NEW pinned, pinned = {run \in {pr.runs[i] : i \in page} :
                                 /\ Required(pr, run)
                                 /\ [context |-> run.context, app |-> run.app] \in checks}
  PROVE  /\ PagesRead(checks, Newest(kept \cup pinned), n + Cardinality(page))
         /\ Cardinality(AtExpected(pr)) <= n + size
              => ReadSoFar(pr, n + Cardinality(page)) = AtExpected(pr)
<1> DEFINE runs == kept \cup pinned
           m == n + Cardinality(page)
<1>0. /\ AtExpected(pr) \in SUBSET (1..Len(pr.runs)) /\ Len(pr.runs) \in Nat
      /\ \A i \in AtExpected(pr) : pr.runs[i] \in Run /\ pr.runs[i].start \in Nat
      /\ n \in 0..Cardinality(AtExpected(pr))
  BY ExpectedPlaces DEF PagesRead
<1>1. /\ m \in 0..Cardinality(AtExpected(pr))
      /\ ReadSoFar(pr, m) = ReadSoFar(pr, n) \cup page
      /\ Cardinality(AtExpected(pr)) <= n + size => ReadSoFar(pr, m) = AtExpected(pr)
  BY <1>0, PageFacts DEF ReadSoFar
<1>2. /\ ReadSoFar(pr, n) \subseteq AtExpected(pr) /\ page \subseteq AtExpected(pr)
      /\ ReadSoFar(pr, m) \subseteq AtExpected(pr)
  BY DEF ReadSoFar, Leading, PageOf
<1>3. \A r \in pinned : \E i \in page : r = pr.runs[i]
  OBVIOUS
<1> HIDE DEF m
<1>4. \A r \in runs : \E i \in ReadSoFar(pr, m) :
        SameRow(r, pr.runs[i]) /\ r.start = pr.runs[i].start
  <2>1. ASSUME NEW r \in kept
        PROVE  \E i \in ReadSoFar(pr, m) : SameRow(r, pr.runs[i]) /\ r.start = pr.runs[i].start
    BY <1>1 DEF PagesRead
  <2>2. ASSUME NEW r \in pinned
        PROVE  \E i \in ReadSoFar(pr, m) : SameRow(r, pr.runs[i]) /\ r.start = pr.runs[i].start
    BY <1>1, <1>3 DEF SameRow
  <2>. QED  BY <2>1, <2>2
<1>5. runs \in SUBSET Run
  BY <1>0, <1>2, <1>3
<1>6. PICK b \in Nat : \A r \in runs : r.start <= b
  <2> DEFINE start(i) == IF i \in AtExpected(pr) THEN pr.runs[i].start ELSE 0
             f == [i \in 1..Len(pr.runs) |-> start(i)]
  <2>1. \A i \in 1..Len(pr.runs) : f[i] \in Nat
    BY <1>0
  <2>2. \A i \in AtExpected(pr) : f[i] = pr.runs[i].start
    BY <1>0
  <2> HIDE DEF f
  <2>3. PICK b \in Nat : \A i \in 1..Len(pr.runs) : f[i] <= b
    BY <1>0, <2>1, CountsBounded
  <2>4. \A i \in AtExpected(pr) : pr.runs[i].start <= b
    BY <1>0, <2>2, <2>3
  <2> HIDE DEF runs
  <2>. QED  BY <1>2, <1>4, <2>4
<1>7. \A run \in Run : Kept(run, runs) => Kept(run, Newest(runs))
  <2> HIDE DEF runs
  <2>. QED  BY <1>5, <1>6, NewestKeeps
<1>8. ASSUME NEW check \in checks, ~Excused(check), NEW i \in ReadSoFar(pr, m),
             Fits(check, pr.runs[i])
      PROVE  Kept(pr.runs[i], Newest(runs))
  <2>1. SUFFICES Kept(pr.runs[i], runs)
    BY <1>0, <1>2, <1>7
  <2>2. CASE i \in ReadSoFar(pr, n)
    <3>1. Kept(pr.runs[i], kept)
      BY <1>8, <2>2 DEF PagesRead
    <3>. QED  BY <3>1 DEF Kept
  <2>3. CASE i \in page
    <3>1. Required(pr, check)
      BY <1>8 DEF Excused
    <3>2. Required(pr, pr.runs[i])
      BY <1>8, <3>1, FittingRequired
    <3>3. [context |-> pr.runs[i].context, app |-> pr.runs[i].app] = check
      BY <1>8 DEF Fits, Requirement
    <3>4. pr.runs[i] \in pinned
      BY <2>3, <3>2, <3>3
    <3>. QED  BY <3>4 DEF Kept, SameRow
  <2>. QED  BY <1>1, <1>8, <2>2, <2>3
<1>9. \A r \in Newest(runs) : r \in runs
  BY DEF Newest
<1> HIDE DEF runs
<1>10. PagesRead(checks, Newest(runs), m)
  BY <1>1, <1>4, <1>8, <1>9 DEF PagesRead
<1>. QED  BY <1>1, <1>10 DEF m, runs

\* When all places of the expected head have been shown, what is kept of a pinned
\* check is established.
LEMMA AllReadEstablishes ==
  ASSUME pr \in PullRequest, pr \in seen, pr.head = Expected,
         NEW checks, NEW kept \in SUBSET Run, NEW n, PagesRead(checks, kept, n),
         ReadSoFar(pr, n) = AtExpected(pr),
         NEW check \in checks, check.app # None
  PROVE  Established(check, kept)
<1>0. /\ \A i \in AtExpected(pr) : pr.runs[i] \in Run
      /\ \A run \in Run : run.start \in Nat
  BY ExpectedPlaces DEF Run
<1>1. \A run \in RunsAtHead(pr) : \E i \in AtExpected(pr) : run = pr.runs[i]
  BY DEF RunsAtHead, RangeOf, AtExpected
<1>2. \A i \in AtExpected(pr) : pr.runs[i] \in RunsAtHead(pr)
  BY DEF RunsAtHead, RangeOf, AtExpected
<1>3. Excused(check) \/ \A i \in AtExpected(pr) :
                          Fits(check, pr.runs[i]) => Kept(pr.runs[i], kept)
  BY DEF PagesRead
<1>4. \/ \E r \in kept : Fits(check, r)
      \/ \E s \in seen : /\ s.head = Expected
                         /\ \A run \in RunsAtHead(s) : Fits(check, run) => ~Required(s, run)
  <2>1. CASE Excused(check)
    <3>1. PICK s \in seen : s.head = Expected /\ ~Required(s, check)
      BY <2>1 DEF Excused
    <3>2. \A run \in RunsAtHead(s) : Fits(check, run) => ~Required(s, run)
      BY <3>1, FittingRequired
    <3>. QED  BY <3>1, <3>2
  <2>2. CASE \E i \in AtExpected(pr) : Fits(check, pr.runs[i]) /\ ~Excused(check)
    <3>1. PICK i \in AtExpected(pr) : Fits(check, pr.runs[i]) /\ Kept(pr.runs[i], kept)
      BY <1>3, <2>2
    <3>2. PICK r \in kept : SameRow(r, pr.runs[i])
      BY <3>1 DEF Kept
    <3>3. Fits(check, r)
      BY <3>1, <3>2 DEF Fits, SameRow
    <3>. QED  BY <3>3
  <2>3. CASE \A i \in AtExpected(pr) : ~Fits(check, pr.runs[i])
    <3>1. \A run \in RunsAtHead(pr) : Fits(check, run) => ~Required(pr, run)
      BY <1>1, <2>3
    <3>. QED  BY <3>1
  <2>. QED  BY <2>1, <2>2, <2>3
<1>5. ASSUME NEW workflow \in Workflows, FailsThroughout(check, workflow)
      PROVE  \E r \in kept : Fits(check, r) /\ r.workflow = workflow /\ r.state # "SUCCESS"
  <2>1. \A s \in seen : Required(s, check)
    <3> SUFFICES ASSUME NEW s \in seen PROVE Required(s, check)
      OBVIOUS
    <3>1. NewestFails(s, check, workflow)
      BY <1>5 DEF FailsThroughout
    <3>2. PICK run \in RunsAtHead(s) :
            /\ run.context = check.context /\ check.app \in {None, run.app} /\ Required(s, run)
      BY <3>1 DEF NewestFails
    <3>3. Fits(check, run)
      BY <3>2 DEF Fits
    <3>. QED  BY <3>2, <3>3, FittingRequired
  <2>2. ~Excused(check)
    BY <2>1 DEF Excused
  <2>3. NewestFails(pr, check, workflow)
    BY <1>5 DEF FailsThroughout
  <2>4. PICK f \in RunsAtHead(pr) :
          /\ f.context = check.context /\ f.workflow = workflow /\ check.app \in {None, f.app}
          /\ f.state # "SUCCESS"
          /\ \A other \in RunsAtHead(pr) :
               other.context = check.context /\ other.workflow = workflow
                 /\ check.app \in {None, other.app} => other.start <= f.start
    BY <2>3 DEF NewestFails
  <2>5. Fits(check, f)
    BY <2>4 DEF Fits
  <2>6. PICK i \in AtExpected(pr) : f = pr.runs[i]
    BY <1>1
  <2>7. Kept(f, kept)
    BY <1>3, <2>2, <2>5, <2>6
  <2>8. PICK r \in kept :
          /\ SameRow(r, f)
          /\ r.start > f.start \/ (r.start = f.start /\ (f.state # "SUCCESS" => r.state # "SUCCESS"))
    BY <2>7 DEF Kept
  <2>9. PICK j \in AtExpected(pr) : SameRow(r, pr.runs[j]) /\ r.start = pr.runs[j].start
    BY DEF PagesRead
  <2>10. pr.runs[j].start <= f.start
    <3>1. pr.runs[j].context = f.context /\ pr.runs[j].workflow = f.workflow
          /\ pr.runs[j].app = f.app
      BY <2>8, <2>9 DEF SameRow
    <3>. QED  BY <1>2, <2>4, <2>9, <3>1
  <2>11. r.start \in Nat /\ f.start \in Nat
    BY <1>0, <2>6
  <2>12. ~(r.start > f.start)
    BY <2>9, <2>10, <2>11
  <2>13. r.state # "SUCCESS"
    BY <2>4, <2>8, <2>12
  <2>14. Fits(check, r) /\ r.workflow = workflow
    BY <2>4, <2>5, <2>8 DEF Fits, SameRow
  <2>. QED  BY <2>13, <2>14
<1>. QED  BY <1>4, <1>5 DEF Established

\* What may become of the runs between two requests: one is added behind them,
\* or one concludes.
RunsMove(s, t) ==
  /\ DOMAIN t.runs = 1..Len(t.runs)
  /\ Len(t.runs) \in {Len(s.runs), Len(s.runs) + 1}
  /\ \A i \in DOMAIN s.runs :
       /\ t.runs[i].head = s.runs[i].head
       /\ SameRow(t.runs[i], s.runs[i])
       /\ t.runs[i].start = s.runs[i].start
       /\ t.runs[i].state # "SUCCESS" => s.runs[i].state # "SUCCESS"

\* Places behind a list leave the ranks on it as they are.
LEMMA LeadingStays ==
  ASSUME NEW n \in Nat, NEW places \in SUBSET (1..n), NEW more \in SUBSET (1..(n + 1)),
         places = more \cap (1..n), NEW k \in 0..Cardinality(places)
  PROVE  k \in 0..Cardinality(more) /\ Leading(more, k) = Leading(places, k)
<1>0. /\ n + 1 \in Nat /\ \A i \in more : i \in Nat /\ i <= n + 1
      /\ places \subseteq more
  OBVIOUS
<1>1. /\ IsFiniteSet(more) /\ Cardinality(more) \in Nat
      /\ \A i \in more : Rank(more, i) \in 1..Cardinality(more)
      /\ \A i, m \in more : i < m => Rank(more, i) < Rank(more, m)
  BY <1>0, RankFacts
<1>2. Cardinality(places) \in Nat /\ Cardinality(places) <= Cardinality(more)
  BY <1>0, <1>1, FS_Subset, FS_CardinalityType
<1>3. k \in 0..Cardinality(more)
  BY <1>1, <1>2
<1>4. ASSUME NEW i \in places PROVE Rank(more, i) = Rank(places, i)
  <2>1. \A j \in more : j <= i => j \in places
    <3> SUFFICES ASSUME NEW j \in more, j <= i PROVE j \in places
      OBVIOUS
    <3>1. i \in 1..n
      BY <1>4
    <3>2. j \in 1..n
      BY <1>0, <3>1
    <3>. QED  BY <3>2
  <2>2. {j \in more : j <= i} = {j \in places : j <= i}
    BY <1>0, <2>1
  <2>. QED  BY <2>2 DEF Rank
<1>5. ASSUME NEW i \in more \ places PROVE ~(Rank(more, i) <= k)
  <2>1. i = n + 1
    <3>1. i \in 1..(n + 1) /\ ~(i \in 1..n)
      BY <1>5
    <3>. QED  BY <3>1
  <2>2. \A j \in more : j <= i
    BY <1>0, <2>1
  <2>3. {j \in more : j <= i} = more
    BY <2>2
  <2>4. Rank(more, i) = Cardinality(more)
    BY <2>3 DEF Rank
  <2>5. Cardinality(places) # Cardinality(more)
    BY <1>0, <1>1, <1>5, FS_Subset
  <2>6. k \in Nat /\ k <= Cardinality(places)
    BY <1>2
  <2>. QED  BY <1>1, <1>2, <2>4, <2>5, <2>6
<1>6. \A i \in more : i \in Leading(more, k) <=> i \in Leading(places, k)
  BY <1>4, <1>5 DEF Leading
<1>7. Leading(more, k) \subseteq more /\ Leading(places, k) \subseteq more
  BY <1>0 DEF Leading
<1>. QED  BY <1>3, <1>6, <1>7

\* What the pages said of the runs stays true of them.
LEMMA MovesKeepPages ==
  ASSUME TypeOK, NEW next \in PullRequest, Changes(next), RunsMove(pr, next),
         NEW checks, NEW kept, NEW n, PagesRead(checks, kept, n)
  PROVE  PagesRead(checks, kept, n)'
<1>0. /\ pr \in PullRequest /\ pr' = next /\ seen \subseteq seen'
  BY DEF TypeOK, Changes
<1>1. /\ Len(pr.runs) \in Nat /\ DOMAIN pr.runs = 1..Len(pr.runs)
      /\ AtExpected(pr) \in SUBSET (1..Len(pr.runs))
      /\ \A i \in AtExpected(pr) : pr.runs[i].start \in Nat
  BY <1>0, ExpectedPlaces
<1>2. /\ AtExpected(next) \in SUBSET (1..(Len(pr.runs) + 1))
      /\ AtExpected(pr) = AtExpected(next) \cap (1..Len(pr.runs))
  <2>1. Len(next.runs) \in {Len(pr.runs), Len(pr.runs) + 1} /\ DOMAIN next.runs = 1..Len(next.runs)
    BY DEF RunsMove
  <2>2. 1..Len(pr.runs) \subseteq DOMAIN next.runs /\ DOMAIN next.runs \subseteq 1..(Len(pr.runs) + 1)
    BY <1>1, <2>1
  <2>3. \A i \in 1..Len(pr.runs) : next.runs[i].head = pr.runs[i].head
    BY <1>1 DEF RunsMove
  <2>. QED  BY <1>1, <2>2, <2>3 DEF AtExpected
<1>3. n \in 0..Cardinality(AtExpected(pr))
  BY DEF PagesRead
<1>4. n \in 0..Cardinality(AtExpected(next)) /\ ReadSoFar(next, n) = ReadSoFar(pr, n)
  BY <1>1, <1>2, <1>3, LeadingStays DEF ReadSoFar
<1>5. \A check : Excused(check) => Excused(check)'
  BY <1>0, HistoryGrows
<1>6. ReadSoFar(pr, n) \subseteq DOMAIN pr.runs
  BY DEF ReadSoFar, Leading, AtExpected
<1>7. ASSUME NEW check \in checks, ~(Excused(check)'), NEW i \in ReadSoFar(next, n),
             Fits(check, next.runs[i])
      PROVE  Kept(next.runs[i], kept)
  <2>1. SameRow(next.runs[i], pr.runs[i]) /\ next.runs[i].start = pr.runs[i].start
        /\ (next.runs[i].state # "SUCCESS" => pr.runs[i].state # "SUCCESS")
    BY <1>4, <1>6, <1>7 DEF RunsMove
  <2>2. Fits(check, pr.runs[i])
    BY <1>7, <2>1 DEF Fits, SameRow
  <2>3. Kept(pr.runs[i], kept)
    BY <1>4, <1>5, <1>7, <2>2 DEF PagesRead
  <2>. QED  BY <2>1, <2>3 DEF Kept, SameRow
<1>8. ASSUME NEW r \in kept
      PROVE  \E i \in ReadSoFar(next, n) :
               SameRow(r, next.runs[i]) /\ r.start = next.runs[i].start
  <2>1. PICK i \in ReadSoFar(pr, n) : SameRow(r, pr.runs[i]) /\ r.start = pr.runs[i].start
    BY DEF PagesRead
  <2>2. SameRow(next.runs[i], pr.runs[i]) /\ next.runs[i].start = pr.runs[i].start
    BY <1>6 DEF RunsMove
  <2>3. SameRow(r, next.runs[i]) /\ r.start = next.runs[i].start
    BY <2>1, <2>2 DEF SameRow
  <2>. QED  BY <1>4, <2>3
<1>. QED  BY <1>0, <1>4, <1>7, <1>8 DEF PagesRead

\* A change at GitHub leaves the checks as far as they were read.
LEMMA ChangesKeepChecks ==
  ASSUME TypeOK, ChecksInv, NEW next \in PullRequest, Changes(next), RunsMove(pr, next)
  PROVE  ChecksInv'
<1>1. pc' = pc /\ got' = got /\ seen \subseteq seen'
  BY DEF Changes
<1>2. NothingKeptInv'
  BY <1>1 DEF ChecksInv, NothingKeptInv
<1>3. PagesInv'
  <2> SUFFICES ASSUME pc = "pinned", got.matches
               PROVE  got.policy # None /\ PagesRead(PinnedIn(got.policy), got.kept, got.nodes)'
    BY <1>1 DEF PagesInv
  <2>1. got.policy # None /\ PagesRead(PinnedIn(got.policy), got.kept, got.nodes)
    BY DEF ChecksInv, PagesInv
  <2>2. PICK checks, kept, n :
          checks = PinnedIn(got.policy) /\ kept = got.kept /\ n = got.nodes
    OBVIOUS
  <2>3. PagesRead(checks, kept, n)
    BY <2>1, <2>2
  <2>4. PagesRead(checks, kept, n)'
    BY <2>3, MovesKeepPages
  <2>5. PinnedIn(got.policy)' = checks /\ got'.kept = kept /\ got'.nodes = n
    BY <1>1, <2>2 DEF PinnedIn
  <2>6. PagesRead(PinnedIn(got.policy), got.kept, got.nodes)'
    BY <2>4, <2>5 DEF PagesRead
  <2>. QED  BY <2>1, <2>6
<1>4. KeptInv'
  <2>1. PinnedIn(got.policy)' = PinnedIn(got.policy)
    BY <1>1 DEF PinnedIn
  <2>. QED  BY <1>1, <2>1, HistoryGrows DEF ChecksInv, KeptInv
<1>5. ListedInv'
  <2>1. PinnedIn(got.policy)' = PinnedIn(got.policy)
    BY <1>1 DEF PinnedIn
  <2>. QED  BY <1>1, <2>1, HistoryGrows DEF ChecksInv, ListedInv
<1>. QED  BY <1>2, <1>3, <1>4, <1>5 DEF ChecksInv

\* What is changed at GitHub is a pull request whose runs moved at most like that.
LEMMA GitHubMovesRuns ==
  ASSUME TypeOK, TypeOK', GitHub
  PROVE  \E next \in PullRequest : Changes(next) /\ RunsMove(pr, next)
<1>0. /\ pr \in PullRequest /\ pr.runs \in Seq(Run) /\ Len(pr.runs) \in Nat
      /\ DOMAIN pr.runs = 1..Len(pr.runs) /\ \A i \in DOMAIN pr.runs : pr.runs[i] \in Run
  BY DEF TypeOK, PullRequest
<1>1. SUFFICES \E next : Changes(next) /\ RunsMove(pr, next)
  BY DEF Changes, TypeOK
<1>2. /\ \A v : [pr EXCEPT !.rules = v].runs = pr.runs
      /\ \A v : [pr EXCEPT !.classic = v].runs = pr.runs
      /\ \A v : [pr EXCEPT !.head = v].runs = pr.runs
      /\ \A v : [pr EXCEPT !.base = v].runs = pr.runs
      /\ \A v : [pr EXCEPT !.reviews = v].runs = pr.runs
      /\ \A v : [pr EXCEPT !.threads = v].runs = pr.runs
      /\ \A v : [pr EXCEPT !.requested = v].runs = pr.runs
      /\ \A v : [pr EXCEPT !.runs = v].runs = v
  BY <1>0 DEF PullRequest
<1>3. ASSUME NEW next, Changes(next), next.runs = pr.runs
      PROVE  \E n : Changes(n) /\ RunsMove(pr, n)
  BY <1>0, <1>3 DEF RunsMove, SameRow
<1>4. CASE AddRule \/ RemoveRule
  <2>1. \E v : Changes([pr EXCEPT !.rules = v])
    BY <1>4 DEF AddRule, RemoveRule
  <2>. QED  BY <2>1, <1>2, <1>3
<1>5. CASE SetClassic
  BY <1>5, <1>2, <1>3 DEF SetClassic
<1>6. CASE Push
  BY <1>6, <1>2, <1>3 DEF Push
<1>7. CASE MoveBase
  BY <1>7, <1>2, <1>3 DEF MoveBase
<1>8. CASE OpenThread
  <2>1. \E v : Changes([pr EXCEPT !.threads = v])
    BY <1>8 DEF OpenThread
  <2>. QED  BY <2>1, <1>2, <1>3
<1>9. CASE RequestReview
  <2>1. \E v : Changes([pr EXCEPT !.requested = v])
    BY <1>9 DEF RequestReview
  <2>. QED  BY <2>1, <1>2, <1>3
<1>10. CASE SubmitReview
  <2>1. \E v : Changes([pr EXCEPT !.reviews = v])
    BY <1>10 DEF SubmitReview
  <2>. QED  BY <2>1, <1>2, <1>3
<1>11. CASE Rerun
  <2>1. PICK i \in DOMAIN pr.runs :
          Changes([pr EXCEPT !.runs = Append(@, [pr.runs[i] EXCEPT !.start = Len(pr.runs) + 1,
                                                                   !.state = "IN_PROGRESS"])])
    BY <1>11 DEF Rerun
  <2> DEFINE run == [pr.runs[i] EXCEPT !.start = Len(pr.runs) + 1, !.state = "IN_PROGRESS"]
             next == [pr EXCEPT !.runs = Append(pr.runs, run)]
  <2>2. Changes(next)
    BY <2>1
  <2>3. next.runs = Append(pr.runs, run)
    <3> HIDE DEF run
    <3>. QED  BY <1>2
  <2>4. /\ Len(next.runs) = Len(pr.runs) + 1 /\ DOMAIN next.runs = 1..(Len(pr.runs) + 1)
        /\ \A j \in 1..Len(pr.runs) : next.runs[j] = pr.runs[j]
    <3> HIDE DEF run, next
    <3>. QED  BY <1>0, <2>3
  <2> HIDE DEF run, next
  <2>5. RunsMove(pr, next)
    BY <1>0, <2>4 DEF RunsMove, SameRow
  <2>. QED  BY <2>2, <2>5
<1>12. CASE Conclude
  <2>1. PICK i \in DOMAIN pr.runs, state \in {"SUCCESS", "FAILURE"} :
          /\ pr.runs[i].state = "IN_PROGRESS"
          /\ Changes([pr EXCEPT !.runs[i].state = state])
    BY <1>12 DEF Conclude
  <2> DEFINE run == [pr.runs[i] EXCEPT !.state = state]
             all == [pr.runs EXCEPT ![i] = run]
             next == [pr EXCEPT !.runs = all]
  <2>2. Changes(next)
    BY <2>1
  <2>3. next.runs = all
    <3> HIDE DEF all
    <3>. QED  BY <1>2
  <2>4. /\ run.head = pr.runs[i].head /\ run.context = pr.runs[i].context
        /\ run.app = pr.runs[i].app /\ run.workflow = pr.runs[i].workflow
        /\ run.start = pr.runs[i].start
    BY <1>0 DEF Run
  <2>5. run \in Run
    BY <1>0 DEF Run, States
  <2>6. /\ Len(all) = Len(pr.runs) /\ DOMAIN all = 1..Len(pr.runs)
        /\ all[i] = run /\ \A j \in DOMAIN pr.runs : j # i => all[j] = pr.runs[j]
    <3> HIDE DEF run
    <3>. QED  BY <1>0, <2>5
  <2> HIDE DEF run, all, next
  <2>7. RunsMove(pr, next)
    <3>1. ASSUME NEW j \in DOMAIN pr.runs
          PROVE  /\ next.runs[j].head = pr.runs[j].head
                 /\ SameRow(next.runs[j], pr.runs[j])
                 /\ next.runs[j].start = pr.runs[j].start
                 /\ next.runs[j].state # "SUCCESS" => pr.runs[j].state # "SUCCESS"
      <4>1. CASE j = i
        BY <2>1, <2>3, <2>4, <2>6, <4>1 DEF SameRow
      <4>2. CASE j # i
        BY <2>3, <2>6, <4>2 DEF SameRow
      <4>. QED  BY <4>1, <4>2
    <3>. QED  BY <1>0, <2>3, <2>6, <3>1 DEF RunsMove
  <2>. QED  BY <2>2, <2>7
<1>. QED
  BY <1>4, <1>5, <1>6, <1>7, <1>8, <1>9, <1>10, <1>11, <1>12 DEF GitHub

\* Once the checks are read, the rest of the call leaves them alone.
LEMMA LaterKeepsChecks ==
  ASSUME ChecksInv, pc \in Later, pc' \in Later, UNCHANGED seen,
         got'.policy = got.policy, got'.rows = got.rows, got'.kept = got.kept,
         got'.readable = got.readable, got'.matches = got.matches
  PROVE  ChecksInv'
<1>1. pc' \notin Earlier /\ pc' # "pinned" /\ pc # "pinned"
  BY DEF Later, Earlier
<1>2. NothingKeptInv' /\ PagesInv'
  BY <1>1 DEF NothingKeptInv, PagesInv
<1>3. PinnedIn(got.policy)' = PinnedIn(got.policy)
  BY DEF PinnedIn
<1>4. KeptInv'
  BY <1>3, HistoryGrows DEF ChecksInv, KeptInv
<1>5. ListedInv'
  BY <1>3, HistoryGrows DEF ChecksInv, ListedInv
<1>. QED  BY <1>2, <1>4, <1>5 DEF ChecksInv

\* Before they are read nothing is kept.
LEMMA EarlierKeepsChecks ==
  ASSUME ChecksInv, pc \in Earlier, pc' \in Earlier, pc' # "checks verify",
         got'.nodes = got.nodes, got'.kept = got.kept
  PROVE  ChecksInv'
<1>1. pc' \notin Later \cup {"pinned", "checks verify"}
  BY DEF Later, Earlier
<1>. QED
  BY <1>1 DEF ChecksInv, NothingKeptInv, PagesInv, KeptInv, ListedInv

\* Nothing is claimed without evidence, or without a check.
LEMMA WithoutChecks ==
  ASSUME pc' \in Later,
         got'.policy = None \/ got'.policy.checks = {} \/ ~got'.readable
  PROVE  ChecksInv'
<1>1. pc' \notin Earlier /\ pc' # "pinned"
  BY DEF Later, Earlier
<1>. QED
  BY <1>1 DEF ChecksInv, NothingKeptInv, PagesInv, KeptInv, ListedInv, PinnedIn

\* The call ends with what it has.
LEMMA ReturnsKeepsChecks ==
  ASSUME NEW step, NEW value, Returns(step, value)
  PROVE  ChecksInv'
<1>1. pc' \notin Earlier \cup Later \cup {"pinned", "checks verify"}
  BY DEF Returns, Earlier, Later
<1>. QED
  BY <1>1 DEF ChecksInv, NothingKeptInv, PagesInv, KeptInv, ListedInv

\* gh pr checks lists the newest run of each name and workflow.
LEMMA ListingShowsFailures ==
  ASSUME pr \in seen, NEW check, check.app = None
  PROVE  Listed(check, Listing(pr))
<1> SUFFICES ASSUME NEW workflow \in Workflows, FailsThroughout(check, workflow)
             PROVE  \E r \in Listing(pr) : /\ r.context = check.context /\ r.workflow = workflow
                                           /\ r.state # "SUCCESS"
  BY DEF Listed
<1>1. NewestFails(pr, check, workflow)
  BY DEF FailsThroughout
<1>2. PICK f \in RunsAtHead(pr) :
        /\ f.context = check.context /\ f.workflow = workflow
        /\ f.state # "SUCCESS" /\ Required(pr, f)
        /\ \A other \in RunsAtHead(pr) :
             other.context = check.context /\ other.workflow = workflow => other.start <= f.start
  BY <1>1 DEF NewestFails
<1>3. f \in Listing(pr)
  BY <1>2 DEF Listing
<1>. QED  BY <1>2, <1>3

\* A list of checks that is not cut shows them.
LEMMA ListChecksKeepsChecks ==
  ASSUME TypeOK, SeenInv, ChecksInv, ListChecks
  PROVE  ChecksInv'
<1>1. PICK rows, readable :
        /\ readable => rows = Listing(pr)
        /\ pc = "checks list" /\ pc' = "checks verify" /\ UNCHANGED <<pr, seen>>
        /\ got' = [got EXCEPT !.rows = rows, !.readable = readable]
  BY DEF ListChecks
<1>2. /\ got'.rows = rows /\ got'.readable = readable /\ got'.policy = got.policy
      /\ got'.nodes = got.nodes /\ got'.kept = got.kept
  <2>1. got \in Locals
    BY DEF TypeOK
  <2>. QED  BY <1>1, <2>1 DEF Locals
<1>3. pc \in Earlier /\ pc' \notin Later /\ pc' # "pinned"
  BY <1>1 DEF Earlier, Later
<1>4. NothingKeptInv' /\ PagesInv' /\ KeptInv'
  BY <1>2, <1>3 DEF ChecksInv, NothingKeptInv, PagesInv, KeptInv
<1>5. ListedInv'
  <2> SUFFICES ASSUME readable, NEW check \in got'.policy.checks \ PinnedIn(got'.policy)
               PROVE  Listed(check, rows)'
    BY <1>2 DEF ListedInv, PinnedIn
  <2>1. check.app = None
    BY DEF PinnedIn
  <2>2. Listed(check, Listing(pr))
    BY <2>1, ListingShowsFailures DEF SeenInv
  <2>3. Listed(check, rows)
    BY <1>1, <2>2
  <2>. QED  BY <1>1, <2>3, HistoryGrows
<1>. QED  BY <1>4, <1>5 DEF ChecksInv

\* No page is read when the pages begin.
LEMMA NoPageRead ==
  ASSUME pr \in PullRequest, NEW checks
  PROVE  PagesRead(checks, {}, 0)
<1>1. /\ AtExpected(pr) \in SUBSET (1..Len(pr.runs)) /\ Len(pr.runs) \in Nat
      /\ Cardinality(AtExpected(pr)) \in Nat
  BY ExpectedPlaces
<1>2. \A i \in AtExpected(pr) : Rank(AtExpected(pr), i) \in 1..Cardinality(AtExpected(pr))
  BY <1>1, RankFacts
<1>3. \A i \in AtExpected(pr) : ~(Rank(AtExpected(pr), i) <= 0)
  BY <1>1, <1>2
<1>4. ReadSoFar(pr, 0) = {}
  BY <1>3 DEF ReadSoFar, Leading
<1>5. 0 \in 0..Cardinality(AtExpected(pr))
  BY <1>1
<1>. QED  BY <1>4, <1>5 DEF PagesRead

\* The second look at the identity of the list begins the pages, unless there is
\* no pinned check to read them for.
LEMMA VerifyChecksKeepsChecks ==
  ASSUME TypeOK, SeenInv, ChecksInv, VerifyChecks
  PROVE  ChecksInv'
<1> DEFINE matches == got.nested = <<got.base, Expected>>
           known == got.policy # None
           pinned == known /\ PinnedIn(got.policy) # {} /\ got.readable /\ matches
           consistent == known => ContextsOf(got.rows) \subseteq ContextsOf(got.policy.checks)
           locals == [got EXCEPT !.nested = None, !.matches = matches, !.consistent = consistent]
<1>1. CASE Returns("checks verify", None)
  BY <1>1, ReturnsKeepsChecks
<1>2. CASE Reads("checks verify", IF pinned THEN "pinned" ELSE "freshness", locals)
  <2>1. /\ pc = "checks verify" /\ pc' = IF pinned THEN "pinned" ELSE "freshness"
        /\ got' = locals /\ UNCHANGED <<pr, seen>>
    BY <1>2 DEF Reads
  <2>2. /\ got'.policy = got.policy /\ got'.rows = got.rows /\ got'.kept = got.kept
        /\ got'.nodes = got.nodes /\ got'.readable = got.readable /\ got'.matches = matches
    <3> HIDE DEF matches, consistent, pinned
    <3>. QED  BY <2>1 DEF TypeOK, Locals
  <2>3. got.nodes = 0 /\ got.kept = {}
    BY <2>1 DEF ChecksInv, NothingKeptInv, Earlier
  <2>4. pc' \notin Earlier
    BY <2>1 DEF Earlier
  <2>5. NothingKeptInv'
    BY <2>4 DEF NothingKeptInv
  <2>6. PinnedIn(got.policy)' = PinnedIn(got.policy)
    BY <2>2 DEF PinnedIn
  <2>7. PagesInv'
    <3> SUFFICES ASSUME pinned
                 PROVE  got.policy # None /\ PagesRead(PinnedIn(got.policy), got.kept, got.nodes)'
      <4> HIDE DEF pinned
      <4>. QED  BY <2>1, <2>2 DEF PagesInv
    <3>1. pr' \in PullRequest
      BY <2>1 DEF TypeOK
    <3>2. \A checks : PagesRead(checks, {}, 0)
      BY NoPageRead DEF TypeOK
    <3>3. PICK checks : checks = PinnedIn(got.policy)
      OBVIOUS
    <3>4. PagesRead(checks, {}, 0)'
      BY <2>1, <3>2 DEF PagesRead, Excused
    <3>5. PagesRead(PinnedIn(got.policy), got.kept, got.nodes)'
      BY <2>2, <2>3, <2>6, <3>3, <3>4 DEF PagesRead
    <3>. QED  BY <3>5
  <2>8. KeptInv'
    <3>1. ASSUME pc' \in Later, got.policy # None, got.readable, matches
          PROVE  PinnedIn(got.policy) = {}
      <4>1. ~pinned
        BY <2>1, <3>1 DEF Later
      <4>. QED  BY <3>1, <4>1
    <3>. QED  BY <2>2, <2>6, <3>1 DEF KeptInv
  <2>9. ListedInv'
    <3>1. \A check, rows : Listed(check, rows) => Listed(check, rows)'
      BY <2>1, HistoryGrows
    <3>2. \A check \in got.policy.checks \ PinnedIn(got.policy) :
            got.policy # None /\ got.readable => Listed(check, got.rows)
      BY <2>1 DEF ChecksInv, ListedInv
    <3>. QED  BY <2>2, <2>6, <3>1, <3>2 DEF ListedInv
  <2>. QED  BY <2>5, <2>7, <2>8, <2>9 DEF ChecksInv
<1>. QED  BY <1>1, <1>2 DEF VerifyChecks

\* A page of the checks' runs: once every place of the expected head has been on
\* one, all at the expected identity, what is kept is established.
LEMMA ReadPinnedKeepsChecks ==
  ASSUME TypeOK, TypeOK', SeenInv, ChecksInv, ReadPinned
  PROVE  ChecksInv'
<1> DEFINE size == IF HardMax - got.nodes < PageMax THEN HardMax - got.nodes ELSE PageMax
           page == PageAtHead(pr, got.nodes, size)
           required == {run \in {pr.runs[i] : i \in page} : Required(pr, run)}
           wanted == PinnedIn(got.policy)
           pinned == {run \in required : [context |-> run.context, app |-> run.app] \in wanted}
           anyApp == ContextsOf(got.policy.checks \ wanted)
           foreign == {run \in required \ pinned :
                         run.context \in ContextsOf(wanted) \ anyApp}
           more == Cardinality(AtHead(pr)) > got.nodes + size
           full == more /\ got.nodes + size >= HardMax
           kept == Newest(got.kept \cup pinned)
           nodes == got.nodes + Cardinality(page)
           suspect == got.suspect \/ foreign # {}
           matches == StillMatches(<<pr.base, pr.head>> = <<got.base, Expected>>)
           read == [got EXCEPT !.kept = kept, !.nodes = nodes, !.suspect = suspect,
                               !.matches = matches]
           readable == got.readable /\ ~full /\ read.matches /\ ~read.suspect
<1>0. /\ got \in Locals /\ pr \in PullRequest /\ pr \in seen
      /\ got.kept \in SUBSET Run /\ got.nodes \in Nat
      /\ got.policy # None => got.policy.checks \in SUBSET Requirement
  BY DEF TypeOK, SeenInv, Locals, Policy
<1>1. /\ pc = "pinned" /\ UNCHANGED <<pr, seen>>
      /\ \/ pc' = "pinned" /\ got' = read
         \/ /\ pc' = "freshness" /\ got' = [read EXCEPT !.readable = readable]
            /\ readable => ~more
  <2>1. CASE more /\ ~full
    <3>1. Reads("pinned", "pinned", read)
      BY <2>1, Zenon DEF ReadPinned
    <3> HIDE DEF read
    <3>. QED  BY <3>1 DEF Reads
  <2>2. CASE ~(more /\ ~full)
    <3>1. Reads("pinned", "freshness", [read EXCEPT !.readable = readable])
      BY <2>2, Zenon DEF ReadPinned
    <3>2. readable => ~more
      <4> HIDE DEF more, read
      <4>. QED  BY <2>2
    <3> HIDE DEF read, readable
    <3>. QED  BY <3>1, <3>2 DEF Reads
  <2>. QED  BY <2>1, <2>2
<1>2. /\ got'.kept = kept /\ got'.nodes = nodes /\ got'.matches = matches
      /\ got'.policy = got.policy /\ got'.rows = got.rows
      /\ got'.readable => got.readable
      /\ pc' = "freshness" /\ got'.readable => ~more
  <2>1. readable => got.readable
    OBVIOUS
  <2>2. readable \in BOOLEAN
    OBVIOUS
  <2> HIDE DEF kept, nodes, suspect, matches, more, readable
  <2>3. PICK g, k, n, s, m, r :
          /\ g = got /\ k = kept /\ n = nodes /\ s = suspect /\ m = matches /\ r = readable
    OBVIOUS
  <2>4. PICK h : h = [g EXCEPT !.kept = k, !.nodes = n, !.suspect = s, !.matches = m]
    OBVIOUS
  <2>5. h = read
    BY <2>3, <2>4 DEF read
  <2>6. /\ h.kept = k /\ h.nodes = n /\ h.matches = m
        /\ h.policy = g.policy /\ h.rows = g.rows /\ h.readable = g.readable
        /\ [h EXCEPT !.readable = r].kept = k /\ [h EXCEPT !.readable = r].nodes = n
        /\ [h EXCEPT !.readable = r].matches = m
        /\ [h EXCEPT !.readable = r].policy = g.policy
        /\ [h EXCEPT !.readable = r].rows = g.rows
        /\ [h EXCEPT !.readable = r].readable = r
    <3>1. g \in Locals
      BY <1>0, <2>3
    <3>. QED  BY <2>4, <3>1 DEF Locals
  <2> HIDE DEF read
  <2>7. CASE pc' = "pinned" /\ got' = h
    BY <2>3, <2>6, <2>7
  <2>8. CASE pc' = "freshness" /\ got' = [h EXCEPT !.readable = r] /\ (r => ~more)
    BY <2>1, <2>3, <2>6, <2>8
  <2>. QED  BY <1>1, <2>3, <2>5, <2>7, <2>8
<1>3. matches <=> got.matches /\ pr.base = got.base /\ pr.head = Expected
  BY DEF StillMatches
<1>4. pc' \notin Earlier
  BY <1>1 DEF Earlier
<1>5. PinnedIn(got.policy)' = wanted
  BY <1>2 DEF PinnedIn
<1> HIDE DEF matches, wanted, pinned, page, size, more, kept, nodes, read, readable
<1>6. ASSUME matches
      PROVE  /\ got.policy # None /\ pr.head = Expected
             /\ PagesRead(wanted, kept, nodes)
             /\ ~more => ReadSoFar(pr, nodes) = AtExpected(pr)
  <2>1. got.policy # None /\ PagesRead(wanted, got.kept, got.nodes)
    BY <1>1, <1>3, <1>6 DEF ChecksInv, PagesInv, wanted
  <2>2. wanted \in SUBSET Requirement
    BY <1>0, <2>1 DEF wanted, PinnedIn
  <2>3. size \in Int
    BY <1>0, RequirementsAssumption DEF size
  <2>4. AtHead(pr) = AtExpected(pr)
    BY <1>3, <1>6 DEF AtHead, AtExpected
  <2>5. page = PageOf(AtExpected(pr), got.nodes, size)
    BY <2>4 DEF page, PageAtHead, PageOf, Rank
  <2>6. pinned = {run \in {pr.runs[i] : i \in page} :
                    /\ Required(pr, run)
                    /\ [context |-> run.context, app |-> run.app] \in wanted}
    BY DEF pinned
  <2>7. /\ PagesRead(wanted, kept, nodes)
        /\ Cardinality(AtExpected(pr)) <= got.nodes + size
             => ReadSoFar(pr, nodes) = AtExpected(pr)
    BY <1>0, <1>3, <1>6, <2>1, <2>2, <2>3, <2>5, <2>6, PageIsKept DEF kept, nodes
  <2>8. ~more => Cardinality(AtExpected(pr)) <= got.nodes + size
    <3>1. Cardinality(AtExpected(pr)) \in Nat
      BY <1>0, ExpectedPlaces
    <3>. QED  BY <1>0, <2>3, <2>4, <3>1 DEF more
  <2>. QED  BY <1>3, <1>6, <2>1, <2>7, <2>8
<1>7. NothingKeptInv'
  BY <1>4 DEF NothingKeptInv
<1>8. PagesInv'
  <2> SUFFICES ASSUME matches
               PROVE  got.policy # None /\ PagesRead(PinnedIn(got.policy), got.kept, got.nodes)'
    BY <1>2 DEF PagesInv
  <2>1. PICK c, k, n : c = wanted /\ k = kept /\ n = nodes
    OBVIOUS
  <2>2. PagesRead(c, k, n)'
    <3>1. PagesRead(c, k, n)
      BY <1>6, <2>1
    <3>. QED  BY <1>1, <3>1 DEF PagesRead, Excused
  <2>3. PagesRead(PinnedIn(got.policy), got.kept, got.nodes)'
    BY <1>2, <1>5, <2>1, <2>2 DEF PagesRead
  <2>. QED  BY <1>6, <2>3
<1>9. KeptInv'
  <2>0. PICK k : k = kept
    OBVIOUS
  <2> SUFFICES ASSUME pc' \in Later, got'.readable, matches, NEW check \in wanted
               PROVE  Established(check, k)'
    BY <1>2, <1>5, <2>0 DEF KeptInv
  <2>1. ~more
    BY <1>1, <1>2 DEF Later
  <2>2. check.app # None
    BY DEF wanted, PinnedIn
  <2>3. kept \in SUBSET Run
    BY <1>2 DEF TypeOK, Locals
  <2>4. Established(check, kept)
    BY <1>0, <1>6, <2>1, <2>2, <2>3, AllReadEstablishes
  <2>5. Established(check, k)
    BY <2>0, <2>4
  <2>. QED  BY <1>1, <2>5, HistoryGrows
<1>10. ListedInv'
  <2>1. \A check, rows : Listed(check, rows) => Listed(check, rows)'
    BY <1>1, HistoryGrows
  <2>2. \A check \in got.policy.checks \ PinnedIn(got.policy) :
          got.policy # None /\ got.readable => Listed(check, got.rows)
    BY <1>1 DEF ChecksInv, ListedInv
  <2>. QED  BY <1>2, <1>5, <2>1, <2>2 DEF ListedInv, wanted
<1>. QED  BY <1>7, <1>8, <1>9, <1>10 DEF ChecksInv

-----------------------------------------------------------------------------
(* The answer. *)

AnswersInv == NoFailingCheckHidden /\ MissingCheckWasMissing /\ SatisfiedReviewsStood

\* What was answered stays true of a longer history.
LEMMA AnswerStays ==
  ASSUME AnswersInv, answer' = answer, seen \subseteq seen'
  PROVE  AnswersInv'
<1>1. NoFailingCheckHidden'
  BY DEF AnswersInv, NoFailingCheckHidden, Throughout
<1>2. MissingCheckWasMissing'
  BY DEF AnswersInv, MissingCheckWasMissing, AtSomeTime
<1>3. SatisfiedReviewsStood'
  BY DEF AnswersInv, SatisfiedReviewsStood, AtSomeTime
<1>. QED  BY <1>1, <1>2, <1>3 DEF AnswersInv

\* No answer, and one without evidence, claim nothing.
LEMMA NothingClaimed ==
  ASSUME answer' \in {None, NoEvidence}
  PROVE  AnswersInv'
<1>1. /\ NoEvidence.checksComplete = FALSE /\ NoEvidence.rows = {}
      /\ NoEvidence.satisfied = None /\ None # "yes"
  BY RequirementsAssumption DEF NoEvidence
<1>. QED
  BY <1>1 DEF AnswersInv, NoFailingCheckHidden, MissingCheckWasMissing, SatisfiedReviewsStood

\* A run that was read of a check has a row, and a row that is of no run is of a
\* check that had none.
LEMMA RowsAre ==
  ASSUME NEW complete \in BOOLEAN, NEW check \in got.policy.checks
  PROVE  /\ \A r \in got.rows :
              check.app = None /\ r.context = check.context =>
                [check |-> check, workflow |-> r.workflow, state |-> r.state] \in Rows(complete)
         /\ \A r \in got.kept :
              check.app # None /\ Fits(check, r) =>
                [check |-> check, workflow |-> r.workflow, state |-> r.state] \in Rows(complete)
BY DEF Rows, Fits

LEMMA MissingRowsAre ==
  ASSUME got \in Locals, got.policy # None,
         NEW complete \in BOOLEAN, NEW row \in Rows(complete),
         row.state = "UNKNOWN", row.check.app # None
  PROVE  /\ complete /\ row.check \in got.policy.checks
         /\ \A r \in got.kept : ~Fits(row.check, r)
<1> DEFINE observed(check) ==
             IF check.app = None THEN {run \in got.rows : run.context = check.context}
             ELSE {run \in got.kept : run.context = check.context /\ run.app = check.app}
           line(check, workflow, state) ==
             [check |-> check, workflow |-> workflow, state |-> state]
<1>1. \A run \in got.rows \cup got.kept : run.state # "UNKNOWN"
  <2>1. \A run \in got.rows \cup got.kept : run \in Run
    BY DEF Locals
  <2>2. \A run \in Run : run.state # "UNKNOWN"
    BY DEF Run, States
  <2>. QED  BY <2>1, <2>2
<1>2. PICK check \in got.policy.checks :
        row \in {line(check, run.workflow, run.state) : run \in observed(check)}
                  \cup (IF observed(check) = {} /\ complete
                        THEN {line(check, None, "UNKNOWN")} ELSE {})
  BY DEF Rows
<1>3. observed(check) \subseteq got.rows \cup got.kept
  OBVIOUS
<1>4. row \notin {line(check, run.workflow, run.state) : run \in observed(check)}
  <2> SUFFICES ASSUME NEW run \in observed(check),
                      row = line(check, run.workflow, run.state)
               PROVE  FALSE
    OBVIOUS
  <2>1. row.state = run.state
    OBVIOUS
  <2>2. run \in got.rows \cup got.kept
    BY <1>3
  <2>. QED  BY <1>1, <2>1, <2>2
<1>5. observed(check) = {} /\ complete /\ row = line(check, None, "UNKNOWN")
  <2> HIDE DEF observed, line
  <2>. QED  BY <1>2, <1>4
<1>6. row.check = check
  BY <1>5
<1>7. {run \in got.kept : run.context = check.context /\ run.app = check.app} = {}
  BY <1>5, <1>6
<1>. QED  BY <1>5, <1>6, <1>7 DEF Fits

\* The answer claims what was established.
LEMMA AssembledClaims ==
  ASSUME TypeOK, ChecksInv, ReviewInv, pc = "final", answer' = Assembled, UNCHANGED seen
  PROVE  AnswersInv'
<1> DEFINE known == got.policy # None
           complete == known /\ got.readable /\ got.matches /\ got.consistent
           counted == known /\ got.reviewed = "read" /\ ~got.truncated
           dismiss == "dismiss stale" \in got.policy.flags
           count == Cardinality(ValidApprovals(dismiss))
<1>0. got \in Locals /\ complete \in BOOLEAN /\ pc \in Later
  BY DEF TypeOK, Locals, Later
<1>1. /\ answer'.policy = got.policy /\ answer'.checksComplete = complete
      /\ answer'.rows = IF known THEN Rows(complete) ELSE {}
      /\ answer'.satisfied = IF counted THEN Satisfied(count) ELSE None
  BY DEF Assembled
<1>2. NoFailingCheckHidden'
  <2> SUFFICES ASSUME complete, NEW check \in got.policy.checks, NEW workflow \in Workflows,
                      FailsThroughout(check, workflow)
               PROVE  \E row \in Rows(TRUE) : row.check = check /\ row.state # "SUCCESS"
    <3> HIDE DEF counted, count
    <3>. QED  BY <1>1 DEF NoFailingCheckHidden, Throughout, FailsThroughout
  <2>1. CASE check \in PinnedIn(got.policy)
    <3>1. Established(check, got.kept)
      BY <1>0, <2>1 DEF ChecksInv, KeptInv
    <3>2. PICK r \in got.kept : Fits(check, r) /\ r.state # "SUCCESS"
      BY <3>1 DEF Established
    <3>3. check.app # None
      BY <2>1 DEF PinnedIn
    <3>4. [check |-> check, workflow |-> r.workflow, state |-> r.state] \in Rows(TRUE)
      BY <3>2, <3>3, RowsAre
    <3>. QED  BY <3>2, <3>4
  <2>2. CASE check \notin PinnedIn(got.policy)
    <3>1. Listed(check, got.rows)
      BY <1>0, <2>2 DEF ChecksInv, ListedInv
    <3>2. PICK r \in got.rows : r.context = check.context /\ r.state # "SUCCESS"
      BY <3>1 DEF Listed
    <3>3. check.app = None
      BY <2>2 DEF PinnedIn
    <3>4. [check |-> check, workflow |-> r.workflow, state |-> r.state] \in Rows(TRUE)
      BY <3>2, <3>3, RowsAre
    <3>. QED  BY <3>2, <3>4
  <2>. QED  BY <2>1, <2>2
<1>3. MissingCheckWasMissing'
  <2> SUFFICES ASSUME known, NEW row \in Rows(complete), row.state = "UNKNOWN",
                      row.check.app # None
               PROVE  \E s \in seen :
                        /\ s.head = Expected
                        /\ \A run \in RunsAtHead(s) :
                             run.context = row.check.context /\ run.app = row.check.app
                               => ~Required(s, run)
    <3> HIDE DEF counted, count, complete
    <3>. QED  BY <1>1 DEF MissingCheckWasMissing, AtSomeTime
  <2>1. /\ complete /\ row.check \in got.policy.checks
        /\ \A r \in got.kept : ~Fits(row.check, r)
    <3> HIDE DEF complete
    <3>. QED  BY <1>0, MissingRowsAre
  <2>2. row.check \in PinnedIn(got.policy)
    BY <2>1 DEF PinnedIn
  <2>3. Established(row.check, got.kept)
    BY <1>0, <2>1, <2>2 DEF ChecksInv, KeptInv
  <2>4. PICK s \in seen : /\ s.head = Expected
                          /\ \A run \in RunsAtHead(s) : Fits(row.check, run) => ~Required(s, run)
    BY <2>1, <2>3 DEF Established
  <2>. QED  BY <2>4 DEF Fits
<1>4. SatisfiedReviewsStood'
  <2> SUFFICES ASSUME counted, Satisfied(count) = "yes"
               PROVE  /\ \E s \in seen :
                           /\ Cardinality(Approving(s.reviews, Counting(s.reviews, dismiss)))
                                >= got.policy.approvals
                           /\ \E review \in RangeOf(s.reviews) :
                                review.commit = Expected /\ review.state = "APPROVED"
                      /\ \E s \in seen : "open" \notin RangeOf(s.threads)
    <3>1. None # "yes"
      BY RequirementsAssumption
    <3> HIDE DEF counted, count, complete
    <3>. QED  BY <1>1, <3>1 DEF SatisfiedReviewsStood, AtSomeTime
  <2>1. ~(count < got.policy.approvals) /\ ReviewVerdict = "yes"
    <3>1. None # "yes"
      BY RequirementsAssumption
    <3> HIDE DEF count
    <3>. QED  BY <3>1 DEF Satisfied
  <2>2. got.open = 0 /\ \E i \in DOMAIN got.reviews :
                          got.reviews[i].commit = Expected /\ got.reviews[i].state = "APPROVED"
    <3>1. None # "yes"
      BY RequirementsAssumption
    <3>. QED  BY <2>1, <3>1 DEF ReviewVerdict
  <2>3. PICK s \in seen : s.reviews = got.reviews
    BY DEF ReviewInv, ReviewsReadInv
  <2>4. \E t \in seen : "open" \notin RangeOf(t.threads)
    BY <2>2 DEF ReviewInv, ThreadsReadInv
  <2>5. count \in Nat /\ got.policy.approvals \in Nat
    BY <1>0, ValidApprovalsCount DEF Locals, Policy
  <2>6. count = Cardinality(Approving(s.reviews, Counting(s.reviews, dismiss)))
    BY <2>3 DEF ValidApprovals
  <2>7. \E review \in RangeOf(s.reviews) :
          review.commit = Expected /\ review.state = "APPROVED"
    BY <2>2, <2>3 DEF RangeOf
  <2>8. count >= got.policy.approvals
    <3> HIDE DEF count
    <3>. QED  BY <2>1, <2>5
  <2> HIDE DEF count
  <2>. QED  BY <2>4, <2>6, <2>7, <2>8
<1>. QED  BY <1>2, <1>3, <1>4 DEF AnswersInv

-----------------------------------------------------------------------------
(* The evidence, from the first request to the answer. *)

EvidenceInv == ChecksInv /\ ReviewInv /\ AnswersInv

\* Before the reviews are read a step of the call leaves them.
LEMMA EvidenceStays ==
  ASSUME EvidenceInv, ChecksInv', pc \in Earlier \cup {"pinned", "freshness"},
         pc' \in Earlier \cup {"pinned", "freshness", "review identity"},
         got'.reviewed = got.reviewed, UNCHANGED <<answer, seen>>
  PROVE  EvidenceInv'
<1>1. /\ pc \notin {"final", "done"}
      /\ pc' \notin {"reviews probe", "requested", "threads", "review verify", "done", "final"}
  BY DEF Earlier
<1>2. ReviewInv'
  BY <1>1, OtherStepsKeepReviews DEF EvidenceInv
<1>3. AnswersInv'
  BY AnswerStays DEF EvidenceInv
<1>. QED  BY <1>2, <1>3 DEF EvidenceInv

\* So does one before the checks.
LEMMA EarlierStays ==
  ASSUME EvidenceInv, pc \in Earlier, pc' \in Earlier, pc' # "checks verify",
         got'.nodes = got.nodes, got'.kept = got.kept,
         got'.reviewed = got.reviewed, UNCHANGED <<answer, seen>>
  PROVE  EvidenceInv'
BY EarlierKeepsChecks, EvidenceStays DEF EvidenceInv

\* The call ends without an answer, or with one that has no evidence.
LEMMA ReturnsNothing ==
  ASSUME EvidenceInv, NEW step, NEW value \in {None, NoEvidence}, Returns(step, value)
  PROVE  EvidenceInv'
<1>1. answer' \in {None, NoEvidence}
  BY DEF Returns
<1>. QED
  BY <1>1, ReturnsKeepsChecks, ReturnsKeepsReviews, NothingClaimed DEF EvidenceInv

\* The steps that read the policy and the methods.
LEMMA PolicyKeepsEvidence ==
  ASSUME TypeOK, EvidenceInv,
         \/ ReadIdentity \/ ReadRules \/ ProbeRules \/ ReadBranch \/ ReadProtection
         \/ ProbeAdmin \/ ReadMethods \/ ReadChecksIdentity
  PROVE  EvidenceInv'
<1>0. got \in Locals
  BY DEF TypeOK
<1>1. CASE ReadIdentity
  <2>1. CASE Returns("identity", NoEvidence)
    BY <2>1, ReturnsNothing
  <2>2. CASE Reads("identity", "rules", [got EXCEPT !.base = pr.base])
    <3>1. /\ pc \in Earlier /\ pc' \in Earlier /\ pc' # "checks verify"
          /\ got' = [got EXCEPT !.base = pr.base] /\ UNCHANGED <<answer, seen>>
      BY <2>2 DEF Reads, Earlier
    <3>2. got'.nodes = got.nodes /\ got'.kept = got.kept /\ got'.reviewed = got.reviewed
      BY <1>0, <3>1 DEF Locals
    <3>. QED  BY <3>1, <3>2, EarlierStays
  <2>. QED  BY <1>1, <2>1, <2>2 DEF ReadIdentity
<1>2. ASSUME NEW step \in {"rules", "rules probe", "branch", "protection", "admin probe"},
             NEW next \in {"rules probe", "branch", "protection", "admin probe", "methods"},
             NEW locals, Reads(step, next, locals),
             \/ locals = got
             \/ \E v : locals = [got EXCEPT !.rules = v]
             \/ \E v : locals = [got EXCEPT !.policy = v, !.rules = None]
      PROVE  EvidenceInv'
  <2>1. /\ pc \in Earlier /\ pc' \in Earlier /\ pc' # "checks verify"
        /\ got' = locals /\ UNCHANGED <<answer, seen>>
    BY <1>2 DEF Reads, Earlier
  <2>2. got'.nodes = got.nodes /\ got'.kept = got.kept /\ got'.reviewed = got.reviewed
    <3>1. CASE locals = got
      BY <2>1, <3>1
    <3>2. CASE \E v : locals = [got EXCEPT !.rules = v]
      BY <1>0, <2>1, <3>2 DEF Locals
    <3>3. CASE \E v : locals = [got EXCEPT !.policy = v, !.rules = None]
      BY <1>0, <2>1, <3>3 DEF Locals
    <3>. QED  BY <1>2, <3>1, <3>2, <3>3
  <2>. QED  BY <2>1, <2>2, EarlierStays
<1>3. CASE ReadRules
  <2>1. Reads("rules", IF Len(pr.rules) < PageSize THEN "branch" ELSE "rules probe",
              [got EXCEPT !.rules = Page(pr.rules, 0, PageSize)])
    BY <1>3 DEF ReadRules
  <2>2. (IF Len(pr.rules) < PageSize THEN "branch" ELSE "rules probe")
          \in {"rules probe", "branch", "protection", "admin probe", "methods"}
    OBVIOUS
  <2>3. \E v : [got EXCEPT !.rules = Page(pr.rules, 0, PageSize)] = [got EXCEPT !.rules = v]
    OBVIOUS
  <2>. QED  BY <2>1, <2>2, <2>3, <1>2
<1>4. CASE ProbeRules
  <2>1. Reads("rules probe", "branch",
              IF Len(pr.rules) > PageSize THEN [got EXCEPT !.rules = None] ELSE got)
    BY <1>4 DEF ProbeRules
  <2>2. CASE Len(pr.rules) > PageSize
    BY <2>1, <2>2, <1>2
  <2>3. CASE ~(Len(pr.rules) > PageSize)
    BY <2>1, <2>3, <1>2
  <2>. QED  BY <2>2, <2>3
<1>5. \A c : \E v : Composed(c) = [got EXCEPT !.policy = v, !.rules = None]
  BY DEF Composed
<1>6. \E v : Unknown = [got EXCEPT !.policy = v, !.rules = None]
  BY DEF Unknown
<1>7. CASE ReadBranch
  BY <1>7, <1>5, <1>2 DEF ReadBranch
<1>8. CASE ReadProtection
  <2>1. Reads("protection", "methods", Composed(pr.classic))
        \/ Reads("protection", "admin probe", got)
    BY <1>8 DEF ReadProtection
  <2>. QED  BY <2>1, <1>5, <1>2
<1>9. CASE ProbeAdmin
  <2>1. Reads("admin probe", "methods", Composed(None))
        \/ Reads("admin probe", "methods", Unknown)
    BY <1>9 DEF ProbeAdmin
  <2>. QED  BY <2>1, <1>5, <1>6, <1>2
<1>10. CASE ReadMethods
  <2>1. CASE NothingToCheck
    <3>1. /\ pc = "methods" /\ pc' = "freshness" /\ UNCHANGED <<answer, seen>>
          /\ got' = [got EXCEPT !.methods = RepositoryMethods, !.readable = TRUE]
      BY <1>10, <2>1 DEF ReadMethods, Reads
    <3>2. got'.policy = got.policy /\ got'.reviewed = got.reviewed
      BY <1>0, <3>1 DEF Locals
    <3>3. ChecksInv'
      BY <2>1, <3>1, <3>2, WithoutChecks DEF NothingToCheck, Later
    <3>. QED  BY <3>1, <3>2, <3>3, EvidenceStays DEF Earlier
  <2>2. CASE ~NothingToCheck
    <3>1. /\ pc \in Earlier /\ pc' \in Earlier /\ pc' # "checks verify"
          /\ UNCHANGED <<answer, seen>>
          /\ got' = [got EXCEPT !.methods = RepositoryMethods]
      BY <1>10, <2>2 DEF ReadMethods, Reads, Earlier
    <3>2. got'.nodes = got.nodes /\ got'.kept = got.kept /\ got'.reviewed = got.reviewed
      BY <1>0, <3>1 DEF Locals
    <3>. QED  BY <3>1, <3>2, EarlierStays
  <2>. QED  BY <2>1, <2>2
<1>11. CASE ReadChecksIdentity
  <2>1. /\ pc \in Earlier /\ pc' \in Earlier /\ pc' # "checks verify"
        /\ UNCHANGED <<answer, seen>>
        /\ got' = [got EXCEPT !.nested = <<pr.base, pr.head>>]
    BY <1>11 DEF ReadChecksIdentity, Reads, Earlier
  <2>2. got'.nodes = got.nodes /\ got'.kept = got.kept /\ got'.reviewed = got.reviewed
    BY <1>0, <2>1 DEF Locals
  <2>. QED  BY <2>1, <2>2, EarlierStays
<1>. QED  BY <1>1, <1>3, <1>4, <1>7, <1>8, <1>9, <1>10, <1>11

\* The steps that read the checks.
LEMMA ChecksKeepEvidence ==
  ASSUME TypeOK, TypeOK', SeenInv, EvidenceInv, ListChecks \/ VerifyChecks \/ ReadPinned
  PROVE  EvidenceInv'
<1>0. got \in Locals /\ ChecksInv
  BY DEF TypeOK, EvidenceInv
<1>1. CASE ListChecks
  <2>1. PICK rows, readable :
          /\ pc = "checks list" /\ pc' = "checks verify" /\ UNCHANGED <<answer, seen>>
          /\ got' = [got EXCEPT !.rows = rows, !.readable = readable]
    BY <1>1 DEF ListChecks
  <2>2. got'.reviewed = got.reviewed
    BY <1>0, <2>1 DEF Locals
  <2>3. ChecksInv'
    BY <1>0, <1>1, ListChecksKeepsChecks
  <2>. QED  BY <2>1, <2>2, <2>3, EvidenceStays DEF Earlier
<1>2. CASE VerifyChecks
  <2> DEFINE matches == got.nested = <<got.base, Expected>>
             known == got.policy # None
             pinned == known /\ PinnedIn(got.policy) # {} /\ got.readable /\ matches
             consistent == known => ContextsOf(got.rows) \subseteq ContextsOf(got.policy.checks)
             locals == [got EXCEPT !.nested = None, !.matches = matches,
                                   !.consistent = consistent]
  <2>1. CASE Returns("checks verify", None)
    BY <2>1, ReturnsNothing
  <2>2. CASE Reads("checks verify", IF pinned THEN "pinned" ELSE "freshness", locals)
    <3>1. /\ pc = "checks verify" /\ pc' \in {"pinned", "freshness"}
          /\ got' = locals /\ UNCHANGED <<answer, seen>>
      BY <2>2 DEF Reads
    <3>2. got'.reviewed = got.reviewed
      <4> HIDE DEF matches, consistent
      <4>. QED  BY <1>0, <3>1 DEF Locals
    <3>3. ChecksInv'
      BY <1>0, <1>2, VerifyChecksKeepsChecks
    <3>. QED  BY <3>1, <3>2, <3>3, EvidenceStays DEF Earlier
  <2>. QED  BY <1>2, <2>1, <2>2 DEF VerifyChecks
<1>3. CASE ReadPinned
  <2>1. pc = "pinned" /\ pc' \in {"pinned", "freshness"} /\ UNCHANGED <<answer, seen>>
    BY <1>3 DEF ReadPinned, Reads
  <2>2. got'.reviewed = got.reviewed
    BY <1>0, <1>3 DEF ReadPinned, Reads, Locals
  <2>3. ChecksInv'
    BY <1>0, <1>3, ReadPinnedKeepsChecks
  <2>. QED  BY <2>1, <2>2, <2>3, EvidenceStays
<1>. QED  BY <1>1, <1>2, <1>3

\* The steps behind the checks leave them; those about reviews have their own part
\* of the invariant.
LEMMA LaterStays ==
  ASSUME EvidenceInv, ReviewInv', pc \in Later, pc' \in Later, UNCHANGED <<answer, seen>>,
         got'.policy = got.policy, got'.rows = got.rows, got'.kept = got.kept,
         got'.readable = got.readable, got'.matches = got.matches
  PROVE  EvidenceInv'
BY LaterKeepsChecks, AnswerStays DEF EvidenceInv

LEMMA ReviewsKeepEvidence ==
  ASSUME TypeOK, SeenInv, EvidenceInv,
         \/ ReadFreshness \/ ReadReviewIdentity \/ ReadReviews \/ ProbeReviews
         \/ ReadRequested \/ ReadThreads \/ VerifyReviews
  PROVE  EvidenceInv'
<1>0. got \in Locals /\ ReviewInv
  BY DEF TypeOK, EvidenceInv
<1> DEFINE Same(g) == /\ g.policy = got.policy /\ g.rows = got.rows /\ g.kept = got.kept
                      /\ g.readable = got.readable /\ g.matches = got.matches
<1>1. CASE ReadFreshness
  <2>1. PICK v : /\ pc = "freshness" /\ pc' = "review identity" /\ UNCHANGED <<answer, seen>>
                 /\ got' = [got EXCEPT !.upToDate = v]
    BY <1>1 DEF ReadFreshness, Reads
  <2>2. Same(got') /\ got'.reviewed = got.reviewed
    BY <1>0, <2>1 DEF Locals
  <2>3. ReviewInv'
    BY <1>0, <2>1, <2>2, OtherStepsKeepReviews
  <2>. QED  BY <2>1, <2>2, <2>3, LaterStays DEF Later
<1>2. CASE ReadReviewIdentity
  <2>1. CASE Reads("review identity", "reviews", [got EXCEPT !.nested = pr.base])
    <3>1. /\ pc = "review identity" /\ pc' = "reviews" /\ UNCHANGED <<answer, seen>>
          /\ got' = [got EXCEPT !.nested = pr.base]
      BY <2>1 DEF Reads
    <3>2. Same(got') /\ got'.reviewed = got.reviewed
      BY <1>0, <3>1 DEF Locals
    <3>3. ReviewInv'
      BY <1>0, <3>1, <3>2, OtherStepsKeepReviews
    <3>. QED  BY <3>1, <3>2, <3>3, LaterStays DEF Later
  <2>2. CASE Reads("review identity", "final", [got EXCEPT !.reviewed = "moved"])
    <3>1. /\ pc = "review identity" /\ pc' = "final" /\ UNCHANGED <<answer, seen>>
          /\ got' = [got EXCEPT !.reviewed = "moved"]
      BY <2>2 DEF Reads
    <3>2. Same(got') /\ got'.reviewed = "moved"
      BY <1>0, <3>1 DEF Locals
    <3>3. ReviewInv'
      BY <1>0, <3>1, <3>2, OtherStepsKeepReviews
    <3>. QED  BY <3>1, <3>2, <3>3, LaterStays DEF Later
  <2>. QED  BY <1>2, <2>1, <2>2 DEF ReadReviewIdentity
<1>3. CASE ReadReviews
  <2>1. PICK v : /\ pc = "reviews" /\ pc' \in {"requested", "reviews probe"}
                 /\ UNCHANGED <<answer, seen>> /\ got' = [got EXCEPT !.reviews = v]
    BY <1>3 DEF ReadReviews, Reads
  <2>2. Same(got')
    BY <1>0, <2>1 DEF Locals
  <2>. QED  BY <1>0, <1>3, <2>1, <2>2, ReadReviewsKeepsReviews, LaterStays DEF Later
<1>4. CASE ProbeReviews
  <2>1. PICK v : /\ pc = "reviews probe" /\ pc' = "requested"
                 /\ UNCHANGED <<answer, seen>> /\ got' = [got EXCEPT !.truncated = v]
    BY <1>4 DEF ProbeReviews, Reads
  <2>2. Same(got')
    BY <1>0, <2>1 DEF Locals
  <2>. QED  BY <1>0, <1>4, <2>1, <2>2, ProbeReviewsKeepsReviews, LaterStays DEF Later
<1>5. CASE ReadRequested
  <2>1. PICK v : /\ pc = "requested" /\ pc' = "threads"
                 /\ UNCHANGED <<answer, seen>> /\ got' = [got EXCEPT !.requested = v]
    BY <1>5 DEF ReadRequested, Reads
  <2>2. Same(got')
    BY <1>0, <2>1 DEF Locals
  <2>. QED  BY <1>0, <1>5, <2>1, <2>2, ReadRequestedKeepsReviews, LaterStays DEF Later
<1>6. CASE ReadThreads
  <2>1. PICK t, o, d :
          /\ pc = "threads" /\ pc' = "review verify" /\ UNCHANGED <<answer, seen>>
          /\ got' = [got EXCEPT !.truncated = t, !.open = o, !.decision = d]
    BY <1>6 DEF ReadThreads, Reads
  <2>2. Same(got')
    BY <1>0, <2>1 DEF Locals
  <2>. QED  BY <1>0, <1>6, <2>1, <2>2, ReadThreadsKeepsReviews, LaterStays DEF Later
<1>7. CASE VerifyReviews
  <2>1. PICK v : /\ pc = "review verify" /\ pc' = "final" /\ UNCHANGED <<answer, seen>>
                 /\ got' = [got EXCEPT !.nested = None, !.reviewed = v]
    BY <1>7 DEF VerifyReviews, Reads
  <2>2. Same(got')
    BY <1>0, <2>1 DEF Locals
  <2>. QED  BY <1>0, <1>7, <2>1, <2>2, VerifyReviewsKeepsReviews, LaterStays DEF Later
<1>. QED  BY <1>1, <1>2, <1>3, <1>4, <1>5, <1>6, <1>7

\* A request that fails leaves no evidence, or that of the requests before it.
LEMMA FailureKeepsEvidence ==
  ASSUME TypeOK, EvidenceInv, RequestFails
  PROVE  EvidenceInv'
<1>0. got \in Locals /\ UNCHANGED <<answer, seen>> /\ ReviewInv
  BY DEF TypeOK, RequestFails, EvidenceInv
<1>1. CASE /\ pc \in {"rules", "rules probe"} /\ pc' = "branch"
           /\ got' = [got EXCEPT !.rules = None]
  <2>1. got'.nodes = got.nodes /\ got'.kept = got.kept /\ got'.reviewed = got.reviewed
    BY <1>0, <1>1 DEF Locals
  <2>. QED  BY <1>0, <1>1, <2>1, EarlierStays DEF Earlier
<1>2. CASE /\ pc \in {"branch", "protection", "admin probe"} /\ pc' = "methods"
           /\ got' = Unknown
  <2>1. got'.nodes = got.nodes /\ got'.kept = got.kept /\ got'.reviewed = got.reviewed
    BY <1>0, <1>2 DEF Unknown, Locals
  <2>. QED  BY <1>0, <1>2, <2>1, EarlierStays DEF Earlier
<1>3. CASE /\ pc = "methods"
           /\ pc' = IF NothingToCheck THEN "freshness" ELSE "checks identity"
           /\ got' = [got EXCEPT !.readable = NothingToCheck]
  <2>1. PICK v : got' = [got EXCEPT !.readable = v]
    BY <1>3
  <2>2. /\ got'.nodes = got.nodes /\ got'.kept = got.kept /\ got'.reviewed = got.reviewed
        /\ got'.policy = got.policy
    BY <1>0, <2>1 DEF Locals
  <2>3. CASE NothingToCheck
    <3>1. ChecksInv'
      BY <1>3, <2>2, <2>3, WithoutChecks DEF NothingToCheck, Later
    <3>. QED  BY <1>0, <1>3, <2>2, <2>3, <3>1, EvidenceStays DEF Earlier
  <2>4. CASE ~NothingToCheck
    BY <1>0, <1>3, <2>2, <2>4, EarlierStays DEF Earlier
  <2>. QED  BY <2>3, <2>4
<1>4. CASE /\ pc \in {"checks identity", "checks list", "checks verify"}
           /\ pc' = "freshness"
           /\ got' = [got EXCEPT !.nested = None, !.rows = {}, !.readable = FALSE]
  <2>1. got'.readable = FALSE /\ got'.reviewed = got.reviewed
    BY <1>0, <1>4 DEF Locals
  <2>2. ChecksInv'
    BY <1>4, <2>1, WithoutChecks DEF Later
  <2>. QED  BY <1>0, <1>4, <2>1, <2>2, EvidenceStays DEF Earlier
<1>5. CASE /\ pc = "pinned" /\ pc' = "freshness"
           /\ got' = [got EXCEPT !.kept = {}, !.readable = FALSE, !.matches = TRUE]
  <2>1. got'.readable = FALSE /\ got'.reviewed = got.reviewed
    BY <1>0, <1>5 DEF Locals
  <2>2. ChecksInv'
    BY <1>5, <2>1, WithoutChecks DEF Later
  <2>. QED  BY <1>0, <1>5, <2>1, <2>2, EvidenceStays
<1>6. CASE pc = "freshness" /\ pc' = "review identity" /\ UNCHANGED got
  <2>1. ReviewInv'
    BY <1>0, <1>6, OtherStepsKeepReviews
  <2>. QED  BY <1>0, <1>6, <2>1, LaterStays DEF Later
<1>7. CASE /\ pc \in {"review identity", "reviews", "reviews probe", "requested",
                      "threads", "review verify"}
           /\ pc' = "final"
           /\ got' = [got EXCEPT !.nested = None, !.reviews = <<>>, !.truncated = FALSE]
  <2>1. /\ got'.policy = got.policy /\ got'.rows = got.rows /\ got'.kept = got.kept
        /\ got'.readable = got.readable /\ got'.matches = got.matches
        /\ got'.reviewed = got.reviewed
    BY <1>0, <1>7 DEF Locals
  <2>2. ReviewInv'
    BY <1>0, <1>7, <2>1, OtherStepsKeepReviews
  <2>. QED  BY <1>0, <1>7, <2>1, <2>2, LaterStays DEF Later
<1>. QED  BY <1>1, <1>2, <1>3, <1>4, <1>5, <1>6, <1>7 DEF RequestFails

\* The last look at the pull request makes the answer.
LEMMA FinalKeepsEvidence ==
  ASSUME TypeOK, EvidenceInv, ReadFinal
  PROVE  EvidenceInv'
<1>1. CASE Returns("final", NoEvidence)
  BY <1>1, ReturnsNothing
<1>2. CASE Returns("final", Assembled)
  <2>1. pc = "final" /\ answer' = Assembled /\ UNCHANGED seen
    BY <1>2 DEF Returns
  <2>2. AnswersInv'
    BY <2>1, AssembledClaims DEF EvidenceInv
  <2>. QED  BY <1>2, <2>2, ReturnsKeepsChecks, ReturnsKeepsReviews DEF EvidenceInv
<1>. QED  BY <1>1, <1>2 DEF ReadFinal

\* GitHub's side.
LEMMA GitHubKeepsEvidence ==
  ASSUME TypeOK, TypeOK', EvidenceInv, GitHub
  PROVE  EvidenceInv'
<1>1. ChecksInv'
  BY GitHubMovesRuns, ChangesKeepChecks DEF EvidenceInv
<1>2. ReviewInv'
  BY GitHubKeepsReviewed, ChangesKeepReviews DEF EvidenceInv
<1>3. answer' = answer /\ seen \subseteq seen'
  <2>1. PICK next \in PullRequest : Changes(next)
    BY GitHubMovesRuns
  <2>. QED  BY <2>1 DEF Changes
<1>4. AnswersInv'
  BY <1>3, AnswerStays DEF EvidenceInv
<1>. QED  BY <1>1, <1>2, <1>4 DEF EvidenceInv

\* At every point of a call what it has read of the checks and the reviews was so
\* at a time of the call, and its answer claims no more.
THEOREM EvidenceInvariance == Spec => []EvidenceInv
<1>1. Init => EvidenceInv
  <2> SUFFICES ASSUME Init PROVE EvidenceInv
    OBVIOUS
  <2>1. /\ pc = "identity" /\ got = Nothing /\ answer = None
        /\ Nothing.nodes = 0 /\ Nothing.kept = {} /\ Nothing.reviewed = "unread"
    BY DEF Init, Nothing
  <2>2. ChecksInv
    BY <2>1 DEF ChecksInv, NothingKeptInv, PagesInv, KeptInv, ListedInv, Later
  <2>3. ReviewInv
    BY <2>1 DEF ReviewInv, UnreadInv, ReviewsPageInv, ReviewsReadInv, ThreadsReadInv
  <2>4. AnswersInv
    BY <2>1 DEF AnswersInv, NoFailingCheckHidden, MissingCheckWasMissing, SatisfiedReviewsStood
  <2>. QED  BY <2>2, <2>3, <2>4 DEF EvidenceInv
<1>2. IInv /\ TypeOK' /\ EvidenceInv /\ [Next]_vars => EvidenceInv'
  <2> SUFFICES ASSUME IInv, TypeOK', EvidenceInv, [Next]_vars PROVE EvidenceInv'
    OBVIOUS
  <2>0. TypeOK /\ SeenInv
    BY DEF IInv
  <2>1. CASE UNCHANGED vars
    <3>1. /\ UNCHANGED <<pc, pr, got, answer, seen>> /\ PageSize' = PageSize
      BY <2>1 DEF vars, PageSize
    <3>2. ChecksInv'
      BY <3>1 DEF EvidenceInv, ChecksInv, NothingKeptInv, PagesInv, KeptInv, ListedInv,
                  PagesRead, Excused, Established, Listed, FailsThroughout, PinnedIn
    <3>3. ReviewInv'
      BY <3>1 DEF EvidenceInv, ReviewInv, UnreadInv, ReviewsPageInv, ReviewsReadInv,
                  ThreadsReadInv, RangeOf, Page
    <3>4. AnswersInv'
      BY <3>1, AnswerStays DEF EvidenceInv
    <3>. QED  BY <3>2, <3>3, <3>4 DEF EvidenceInv
  <2>2. CASE Raise
    BY <2>2, ReturnsNothing DEF Raise
  <2>3. CASE Next
    BY <2>0, <2>2, <2>3, PolicyKeepsEvidence, ChecksKeepEvidence, ReviewsKeepEvidence,
       FinalKeepsEvidence, FailureKeepsEvidence, GitHubKeepsEvidence DEF Next
  <2>. QED  BY <2>1, <2>3
<1>. QED  BY <1>1, <1>2, TypeCorrect, Invariance, PTL DEF Spec

\* Complete check evidence hides no check whose newest run at the expected head
\* was required and had not succeeded all through the call.
THEOREM NoFailureHidden == Spec => []NoFailingCheckHidden
<1>1. EvidenceInv => NoFailingCheckHidden
  BY DEF EvidenceInv, AnswersInv
<1>. QED  BY <1>1, EvidenceInvariance, PTL

\* A pinned check is reported missing only if at a time of the call the expected
\* head had no run of it that was required.
THEOREM MissingWasMissing == Spec => []MissingCheckWasMissing
<1>1. EvidenceInv => MissingCheckWasMissing
  BY DEF EvidenceInv, AnswersInv
<1>. QED  BY <1>1, EvidenceInvariance, PTL

\* Reviews reported to satisfy the policy were there: the approvals at one time of
\* the call, and at one time no open thread.
THEOREM SatisfiedStood == Spec => []SatisfiedReviewsStood
<1>1. EvidenceInv => SatisfiedReviewsStood
  BY DEF EvidenceInv, AnswersInv
<1>. QED  BY <1>1, EvidenceInvariance, PTL
=============================================================================
