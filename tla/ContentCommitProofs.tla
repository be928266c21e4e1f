------------------------ MODULE ContentCommitProofs ------------------------
(***************************************************************************)
(* Proofs, for any number of commits, retries, pushes and late decisions,  *)
(* that a commit lands only on the head its caller named, that a change    *)
(* lands once, and that no verdict on the ref is taken back.  The argument *)
(* is that the log never repeats a head: two commits of one call would     *)
(* both have to follow the same head, and a head read past the expected    *)
(* one leaves the swap nothing to land on.                                 *)
(***************************************************************************)
EXTENDS PatchFiles, TLAPS

Unsent  == {"idle", "preparing", "rechecking", "building", "ready"}
Built   == {"ready", "swapping", "reading", "answered"}
Based   == {"rechecking", "building"} \cup Built
Settled == {"reading", "answered"}

\* The log starts at the root, repeats no head, and holds none that is still
\* being swapped in; heads are numbered by the issues and pushes made so far.
LogInv ==
  /\ Len(log) >= 1 /\ log[1] = Root
  /\ \A i, j \in DOMAIN log : log[i] = log[j] => i = j
  /\ \A i \in DOMAIN log : \A s \in swaps : s.after # log[i]
  /\ \A i \in DOMAIN log : log[i][1] \in Calls => log[i][2] <= issues[log[i][1]]
  /\ \A i \in DOMAIN log : log[i][1] = Others => log[i][2] <= pushes

\* A swap on its way is one its call made for the head its caller named.
SwapInv ==
  \A s \in swaps : /\ s.after[1] \in Calls
                   /\ s.before = expected[s.after[1]]
                   /\ s.after[2] <= issues[s.after[1]]

\* Until a call sends its swap, nothing of its present issue is on GitHub.
UnsentInv(c) ==
  /\ pc[c] \in Unsent =>
       /\ \A s \in swaps : s.after[1] = c => s.after[2] < issues[c]
       /\ \A i \in DOMAIN log : log[i][1] = c => log[i][2] < issues[c]
  /\ pc[c] = "idle" =>
       /\ \A s \in swaps : s.after[1] # c
       /\ \A i \in DOMAIN log : log[i][1] # c

CommitInv(c) == pc[c] \in Built => commit[c] = <<c, issues[c]>>

\* The oldest head a call can read is the one it was based on.
FloorInv(c) == pc[c] \in Based => floor[c] \in DOMAIN log /\ log[floor[c]] = expected[c]

NeverLands(c) == ~Installed(commit[c]) /\ \A s \in swaps : s.after # commit[c]

RejectedInv(c) ==
  pc[c] \in Settled /\ completed[c] = "no" /\ commit[c] \notin garbled => NeverLands(c)

\* The branch has moved past the base to another commit.
Passed(c) == \E i \in DOMAIN log : i > floor[c] /\ log[i] # commit[c]

ResultInv(c) ==
  /\ pc[c] # "answered" => result[c] = None
  /\ RefVerdict(c) = "yes" => Installed(commit[c])
  /\ RefVerdict(c) = "no" => Passed(c) \/ completed[c] = "no"

AttemptsInv(c) ==
  /\ pc[c] \in Unsent \cup {"swapping"} => attempts[c] = 0
  /\ pc[c] = "reading" => attempts[c] < MaxReads

CallInv(c) ==
  /\ UnsentInv(c)
  /\ CommitInv(c)
  /\ FloorInv(c)
  /\ RejectedInv(c)
  /\ ResultInv(c)
  /\ AttemptsInv(c)

IInv ==
  /\ TypeOK
  /\ LogInv
  /\ SwapInv
  /\ CommitsFollowExpectedHead
  /\ \A c \in Calls : CallInv(c)
-----------------------------------------------------------------------------
\* Success means applied; a failure that is neither ambiguous nor a confirmation
\* gh garbled means rejected (_run_once, for gh api and for gh subcommands).
LEMMA AttemptIsTruthful ==
  ASSUME NEW end \in ApiWriteEnds \cup TextWriteEnds
  PROVE  /\ end.fate \in {"applied", "rejected", "open"}
         /\ ~end.verdict.failed => end.fate = "applied"
         /\ end.verdict.failed /\ ~end.verdict.ambiguous /\ ~end.confirmed =>
              end.fate = "rejected"
<1>1. PICK json \in BOOLEAN, r \in WriteReplies : \E f \in Fates(r) : end = WriteEnd(json, r, f)
  BY DEF ApiWriteEnds, TextWriteEnds
<1>2. PICK f \in Fates(r) : end = WriteEnd(json, r, f)
  BY <1>1
<1>3. r \in Reply /\ r.exit \in {"timeout", "zero", "unexpected"}
  BY DEF WriteReplies, Reply
<1>4. QED  BY <1>2, <1>3 DEF WriteEnd, Fates, Verdict, Failure, Ambiguous

\* The tri-state outcome says no more than the verdict allows.
LEMMA CompletedType ==
  ASSUME NEW verdict
  PROVE  /\ WriteCompleted(verdict) \in Tri
         /\ WriteCompleted(verdict) = "yes" => ~verdict.failed
         /\ WriteCompleted(verdict) = "no" => verdict.failed /\ ~verdict.ambiguous
BY DEF WriteCompleted, Tri

\* Each head of the log is a pair, and the last one is in it.
LEMMA LogFacts ==
  ASSUME TypeOK, LogInv
  PROVE  /\ Len(log) \in Nat \ {0} /\ DOMAIN log = 1..Len(log)
         /\ \A i \in DOMAIN log : log[i] \in Commits
         /\ Last(log) = log[Len(log)]
BY DEF TypeOK, LogInv, Last

\* A head is installed when the log holds it.
LEMMA InstalledMeans ==
  ASSUME NEW h PROVE Installed(h) <=> \E i \in DOMAIN log : log[i] = h
BY DEF Installed, Range

\* The same of the state after a step.
LEMMA InstalledMeansNext ==
  ASSUME NEW h PROVE (h \in Range(log')) <=> \E i \in DOMAIN log' : log'[i] = h
BY DEF Range

-----------------------------------------------------------------------------
\* The steps of a call, as what they change.
LEMMA ReadOutcome ==
  ASSUME NEW c \in Calls, ReadRef(c)
  PROVE  /\ pc[c] = "reading"
         /\ attempts' = [attempts EXCEPT ![c] = @ + 1]
         /\ UNCHANGED <<expected, floor, commit, completed, log, swaps, issues, pushes, garbled>>
         /\ \E i \in floor[c]..Len(log) :
              /\ observed' = [observed EXCEPT ![c] = log[i]]
              /\ \/ /\ Conclusive(c, log[i])
                    /\ \/ log[i] = commit[c] /\ Conclude(c, TRUE, "yes")
                       \/ log[i] # commit[c] /\ Conclude(c, TRUE, "no")
                 \/ Conclude(c, FALSE, "unknown")
                 \/ pc' = pc /\ result' = result /\ ~LastRead(c)
<1>1. pc[c] = "reading" /\ attempts' = [attempts EXCEPT ![c] = @ + 1]
      /\ UNCHANGED <<expected, floor, commit, completed, log, swaps, issues, pushes, garbled>>
  BY Zenon DEF ReadRef
<1>2. PICK i \in floor[c]..Len(log) :
        /\ observed' = [observed EXCEPT ![c] = log[i]]
        /\ \/ /\ Conclusive(c, log[i])
              /\ Conclude(c, TRUE, IF log[i] = commit[c] THEN "yes" ELSE "no")
           \/ Conclude(c, FALSE, "unknown")
           \/ pc' = pc /\ result' = result /\ ~LastRead(c)
  BY Zenon DEF ReadRef
<1>3. CASE log[i] = commit[c]
  BY <1>1, <1>2, <1>3, Zenon
<1>4. CASE log[i] # commit[c]
  BY <1>1, <1>2, <1>4, Zenon
<1>5. QED BY <1>3, <1>4

\* A failed read ends the reconciliation with nothing established.
LEMMA FailOutcome ==
  ASSUME NEW c \in Calls, FailReadRef(c)
  PROVE  /\ pc[c] = "reading"
         /\ attempts' = [attempts EXCEPT ![c] = @ + 1]
         /\ UNCHANGED <<expected, floor, commit, completed, observed, log, swaps, issues, pushes,
                        garbled>>
         /\ Conclude(c, FALSE, "unknown")
BY Zenon DEF FailReadRef

\* The result a call records is a well-formed outcome that says what it read.
LEMMA ConcludeResult ==
  ASSUME TypeOK, NEW c \in Calls, NEW read \in BOOLEAN, NEW matches \in Tri,
         read <=> matches # "unknown", Conclude(c, read, matches)
  PROVE  /\ pc' = [pc EXCEPT ![c] = "answered"]
         /\ result' \in [Calls -> Results \cup {None}]
         /\ result'[c].ref_updated = matches
         /\ \A d \in Calls \ {c} : result'[d] = result[d]
<1> DEFINE o == [write_completed |-> completed[c], readback_completed |-> read,
                 state_matches_requested |-> matches]
           r == [outcome |-> o, ref_updated |-> RefUpdated(read, matches)]
<1>1. completed[c] \in Tri
  BY DEF TypeOK
<1>2. o \in Outcomes
  BY <1>1 DEF Outcomes
<1>3. RefUpdated(read, matches) = matches
  BY DEF RefUpdated, Tri
<1>4. r \in Results /\ r.ref_updated = matches
  BY <1>2, <1>3 DEF Results
<1>5. result' = [result EXCEPT ![c] = r] /\ pc' = [pc EXCEPT ![c] = "answered"]
  BY DEF Conclude, Goto
<1> HIDE DEF r
<1>6. QED BY <1>4, <1>5 DEF TypeOK

\* What the end of the swap's gh process establishes.
LEMMA FinishOutcome ==
  ASSUME TypeOK, NEW c \in Calls, FinishSwap(c)
  PROVE  /\ pc[c] = "swapping" /\ pc' = [pc EXCEPT ![c] = "reading"]
         /\ UNCHANGED <<expected, floor, commit, readVars, result, log, issues, pushes>>
         /\ \E v \in Tri : completed' = [completed EXCEPT ![c] = v]
         /\ swaps' \in {swaps, swaps \ {Swap(c)}}
         /\ garbled' \in {garbled, garbled \cup {commit[c]}}
         /\ completed'[c] = "no" /\ commit[c] \notin garbled' =>
              ~Installed(commit[c]) /\ swaps' = swaps \ {Swap(c)}
<1>1. /\ pc[c] = "swapping" /\ pc' = [pc EXCEPT ![c] = "reading"]
      /\ UNCHANGED <<expected, floor, commit, readVars, result, log, issues, pushes>>
  BY Zenon DEF FinishSwap, Goto
<1>2. CASE completed' = [completed EXCEPT ![c] = "unknown"] /\ UNCHANGED <<swaps, garbled>>
  <2>1. completed'[c] = "unknown" /\ "unknown" \in Tri
    BY <1>2 DEF TypeOK, Tri
  <2>2. QED BY <1>1, <1>2, <2>1
<1>3. CASE \E end \in ApiWriteEnds :
             /\ end.fate = "applied" <=> Installed(commit[c])
             /\ swaps' = IF end.fate = "rejected" THEN swaps \ {Swap(c)} ELSE swaps
             /\ completed' = [completed EXCEPT ![c] = WriteCompleted(end.verdict)]
             /\ garbled' = IF end.confirmed /\ end.verdict.failed
                           THEN garbled \cup {commit[c]} ELSE garbled
  <2>1. PICK end \in ApiWriteEnds :
             /\ end.fate = "applied" <=> Installed(commit[c])
             /\ swaps' = IF end.fate = "rejected" THEN swaps \ {Swap(c)} ELSE swaps
             /\ completed' = [completed EXCEPT ![c] = WriteCompleted(end.verdict)]
             /\ garbled' = IF end.confirmed /\ end.verdict.failed
                           THEN garbled \cup {commit[c]} ELSE garbled
    BY <1>3
  <2>2. completed'[c] = WriteCompleted(end.verdict)
    BY <2>1 DEF TypeOK
  <2>3. completed'[c] = "no" /\ commit[c] \notin garbled' => end.fate = "rejected"
    BY <2>1, <2>2, AttemptIsTruthful, CompletedType
  <2>4. QED BY <1>1, <2>1, <2>3, CompletedType
<1>4. QED BY <1>2, <1>3, Zenon DEF FinishSwap

-----------------------------------------------------------------------------
\* A call that has built its commit holds it, and it is a commit.
LEMMA BuiltCommit ==
  ASSUME TypeOK, NEW c \in Calls, CommitInv(c), pc[c] \in Built
  PROVE  commit[c] = <<c, issues[c]>> /\ commit[c] \in Commits
<1>1. commit[c] = <<c, issues[c]>>
  BY DEF CommitInv
<1>2. issues[c] \in Nat
  BY DEF TypeOK
<1>3. QED BY <1>1, <1>2 DEF Commits

\* Every step keeps the types.
LEMMA TypeStep == IInv /\ [Next]_vars => TypeOK'
<1> SUFFICES ASSUME IInv, [Next]_vars PROVE TypeOK'
  OBVIOUS
<1>0. TypeOK
  BY DEF IInv
<1>a. LogInv /\ \A c \in Calls : CommitInv(c) /\ AttemptsInv(c)
  BY DEF IInv, CallInv
<1> USE <1>0, CommitAssumption DEF TypeOK, Phases, readVars, Goto
<1>1. ASSUME NEW c \in Calls, Ask(c) PROVE TypeOK'
  BY <1>1 DEF Ask
<1>2. ASSUME NEW c \in Calls, Prepare(c) PROVE TypeOK'
  <2>1. UNCHANGED <<expected, commit, completed, readVars, result, log, swaps, issues,
                    pushes, garbled>>
    BY <1>2, Zenon DEF Prepare
  <2>2. \/ pc' = [pc EXCEPT ![c] = "rechecking"]
        \/ pc' = [pc EXCEPT ![c] = "building"]
        \/ pc' = [pc EXCEPT ![c] = "stopped"]
    BY <1>2 DEF Prepare
  <2>3. floor' = floor \/ \E i \in DOMAIN log : floor' = [floor EXCEPT ![c] = i]
    BY <1>2, Zenon DEF Prepare
  <2>4. \A i \in DOMAIN log : i \in Nat \ {0}
    OBVIOUS
  <2>5. floor' \in [Calls -> Nat \ {0}]
    BY <2>3, <2>4
  <2>6. pc' \in [Calls -> Phases]
    BY <2>2
  <2>7. QED BY <2>1, <2>5, <2>6
<1>3. ASSUME NEW c \in Calls, Recheck(c) PROVE TypeOK'
  BY <1>3 DEF Recheck
<1>4. ASSUME NEW c \in Calls, BuildObjects(c) PROVE TypeOK'
  <2> DEFINE made == <<c, issues[c]>>
  <2>1. made \in Commits
    BY DEF Commits
  <2>2. UNCHANGED <<expected, floor, completed, readVars, result, log, swaps, issues,
                    pushes, garbled>>
    BY <1>4, Zenon DEF BuildObjects
  <2>3. /\ pc' = [pc EXCEPT ![c] = "ready"] \/ pc' = [pc EXCEPT ![c] = "stopped"]
        /\ commit' = [commit EXCEPT ![c] = made] \/ commit' = commit
    BY <1>4, Zenon DEF BuildObjects
  <2> HIDE DEF made
  <2>4. pc' \in [Calls -> Phases]
    BY <2>3
  <2>5. commit' \in [Calls -> Commits \cup {None}]
    <3>1. ASSUME commit' = [commit EXCEPT ![c] = made]
          PROVE  commit' \in [Calls -> Commits \cup {None}]
      BY <2>1, <3>1
    <3>2. QED BY <2>3, <3>1
  <2>6. QED BY <2>2, <2>4, <2>5
<1>5. ASSUME NEW c \in Calls, SendSwap(c) PROVE TypeOK'
  <2>1. /\ pc' = [pc EXCEPT ![c] = "swapping"] /\ swaps' = swaps \cup {Swap(c)}
        /\ UNCHANGED <<expected, floor, commit, completed, readVars, result, log, issues,
                       pushes, garbled>>
    BY <1>5, Zenon DEF SendSwap
  <2>2. commit[c] \in Commits
    BY <1>5, <1>a, BuiltCommit DEF SendSwap, Built
  <2>3. Swap(c) \in Swaps
    BY <2>2 DEF Swap, Swaps
  <2>4. QED BY <2>1, <2>3
<1>6. ASSUME NEW c \in Calls, RefuseSwap(c) PROVE TypeOK'
  <2>1. /\ pc' = [pc EXCEPT ![c] = "reading"] /\ completed' = [completed EXCEPT ![c] = "no"]
        /\ UNCHANGED <<expected, floor, commit, readVars, result, log, swaps, issues, pushes,
                       garbled>>
    BY <1>6, Zenon DEF RefuseSwap
  <2>2. QED BY <2>1 DEF Tri
<1>7. ASSUME NEW c \in Calls, FinishSwap(c) PROVE TypeOK'
  <2>1. /\ pc[c] = "swapping" /\ pc' = [pc EXCEPT ![c] = "reading"]
        /\ UNCHANGED <<expected, floor, commit, readVars, result, log, issues, pushes>>
        /\ \E v \in Tri : completed' = [completed EXCEPT ![c] = v]
        /\ swaps' \in {swaps, swaps \ {Swap(c)}}
        /\ garbled' \in {garbled, garbled \cup {commit[c]}}
    BY <1>7, FinishOutcome, Zenon
  <2>2. commit[c] \in Commits
    BY <2>1, <1>a, BuiltCommit DEF Built
  <2>3. QED BY <2>1, <2>2
<1>8. ASSUME NEW c \in Calls, ReadRef(c) PROVE TypeOK'
  <2>1. /\ pc[c] = "reading" /\ attempts' = [attempts EXCEPT ![c] = @ + 1]
        /\ UNCHANGED <<expected, floor, commit, completed, log, swaps, issues, pushes, garbled>>
    BY <1>8, ReadOutcome, Zenon
  <2>2. attempts' \in [Calls -> 0..MaxReads]
    BY <2>1, <1>a DEF AttemptsInv
  <2>3. observed' \in [Calls -> Commits \cup {None}]
    <3>1. PICK i \in floor[c]..Len(log) : observed' = [observed EXCEPT ![c] = log[i]]
      BY <1>8, ReadOutcome, Zenon
    <3>2. log[i] \in Commits
      BY <1>a, LogFacts
    <3>3. QED BY <3>1, <3>2
  <2>4. pc' \in [Calls -> Phases] /\ result' \in [Calls -> Results \cup {None}]
    <3>1. \/ Conclude(c, TRUE, "yes") \/ Conclude(c, TRUE, "no") \/ Conclude(c, FALSE, "unknown")
          \/ pc' = pc /\ result' = result
      BY <1>8, ReadOutcome, Zenon
    <3>2. ASSUME NEW read \in BOOLEAN, NEW matches \in Tri, read <=> matches # "unknown",
                 Conclude(c, read, matches)
          PROVE  pc' = [pc EXCEPT ![c] = "answered"] /\ result' \in [Calls -> Results \cup {None}]
      BY <3>2, ConcludeResult
    <3>3. "yes" \in Tri /\ "no" \in Tri /\ "unknown" \in Tri
      BY DEF Tri
    <3>4. QED BY <3>1, <3>2, <3>3
  <2>5. QED BY <2>1, <2>2, <2>3, <2>4
<1>9. ASSUME NEW c \in Calls, FailReadRef(c) PROVE TypeOK'
  <2>1. /\ pc[c] = "reading" /\ attempts' = [attempts EXCEPT ![c] = @ + 1]
        /\ UNCHANGED <<expected, floor, commit, completed, observed, log, swaps, issues, pushes,
                       garbled>>
    BY <1>9, FailOutcome, Zenon
  <2>2. attempts' \in [Calls -> 0..MaxReads]
    BY <2>1, <1>a DEF AttemptsInv
  <2>3. pc' = [pc EXCEPT ![c] = "answered"] /\ result' \in [Calls -> Results \cup {None}]
    BY <1>9, FailOutcome, ConcludeResult DEF Tri
  <2>4. QED BY <2>1, <2>2, <2>3
<1>10. ASSUME NEW c \in Calls, Abandon(c) PROVE TypeOK'
  BY <1>10 DEF Abandon
<1>11. ASSUME NEW c \in Calls, AskAgain(c) PROVE TypeOK'
  <2>1. /\ pc' = [pc EXCEPT ![c] = "preparing"]
        /\ issues' = [issues EXCEPT ![c] = @ + 1]
        /\ floor' = [floor EXCEPT ![c] = 1]
        /\ commit' = [commit EXCEPT ![c] = None]
        /\ completed' = [completed EXCEPT ![c] = "unknown"]
        /\ attempts' = [attempts EXCEPT ![c] = 0]
        /\ observed' = [observed EXCEPT ![c] = None]
        /\ result' = [result EXCEPT ![c] = None]
        /\ UNCHANGED <<expected, log, swaps, pushes, garbled>>
    BY <1>11, Zenon DEF AskAgain
  <2>2. QED BY <2>1 DEF Tri
<1>12. ASSUME NEW s \in swaps, DecideSwap(s) PROVE TypeOK'
  <2>1. /\ swaps' = swaps \ {s}
        /\ log' = log \/ log' = Append(log, s.after)
        /\ UNCHANGED <<pc, expected, floor, commit, completed, readVars, result, issues,
                       pushes, garbled>>
    BY <1>12, Zenon DEF DecideSwap
  <2>2. s.after \in Commits
    BY <1>12 DEF Swaps
  <2>3. Append(log, s.after) \in Seq(Commits)
    BY <2>2
  <2>4. log' \in Seq(Commits)
    BY <2>1, <2>3
  <2>5. QED BY <2>1, <2>4
<1>13. ASSUME Push PROVE TypeOK'
  <2>1. <<Others, pushes + 1>> \in Commits
    BY DEF Commits
  <2>2. /\ pushes' = pushes + 1 /\ log' = Append(log, <<Others, pushes + 1>>)
        /\ UNCHANGED <<pc, expected, floor, commit, completed, readVars, result, swaps,
                       issues, garbled>>
    BY <1>13, Zenon DEF Push
  <2>3. QED BY <2>1, <2>2
<1>14. CASE UNCHANGED vars
  BY <1>14 DEF vars
<1>15. QED
  BY <1>1, <1>2, <1>3, <1>4, <1>5, <1>6, <1>7, <1>8, <1>9, <1>10, <1>11, <1>12, <1>13, <1>14
  DEF Next, Step

-----------------------------------------------------------------------------
\* A step that leaves GitHub and the other calls alone, and moves a call's base
\* only before it has asked for anything, has only the call's own part to keep.
LEMMA LocalStep ==
  ASSUME IInv, TypeOK', NEW c \in Calls,
         UNCHANGED <<log, swaps, pushes, garbled>>,
         \A d \in Calls \ {c} :
           /\ pc'[d] = pc[d] /\ expected'[d] = expected[d] /\ floor'[d] = floor[d]
           /\ commit'[d] = commit[d] /\ completed'[d] = completed[d]
           /\ attempts'[d] = attempts[d] /\ result'[d] = result[d] /\ issues'[d] = issues[d],
         issues'[c] >= issues[c],
         expected'[c] = expected[c] \/ pc[c] = "idle",
         CallInv(c)'
  PROVE  IInv'
<1>1. /\ LogInv /\ SwapInv /\ CommitsFollowExpectedHead
      /\ \A d \in Calls : CallInv(d)
  BY DEF IInv
<1>2. \A d \in Calls : issues[d] \in Nat /\ issues'[d] \in Nat /\ issues'[d] >= issues[d]
  <2>1. issues \in [Calls -> Nat] /\ issues' \in [Calls -> Nat]
    BY DEF TypeOK, IInv
  <2>2. \A d \in Calls : issues'[d] = issues[d] \/ d = c
    OBVIOUS
  <2>3. QED BY <2>1, <2>2
<1>3. LogInv'
  <2>1. \A i \in DOMAIN log : log[i] \in Commits /\ log[i][2] \in Nat
    BY LogFacts DEF IInv, Commits
  <2>2. \A i \in DOMAIN log : log[i][1] \in Calls => log[i][2] <= issues'[log[i][1]]
    BY <1>1, <1>2, <2>1 DEF LogInv
  <2>3. QED BY <1>1, <2>2 DEF LogInv
<1>4. /\ pc[c] = "idle" => \A s \in swaps : s.after[1] # c
      /\ pc[c] = "idle" => \A i \in DOMAIN log : log[i][1] # c
  BY <1>1 DEF CallInv, UnsentInv
<1>5. SwapInv'
  <2>1. ASSUME NEW s \in swaps
        PROVE  /\ s.after[1] \in Calls
               /\ s.before = expected'[s.after[1]]
               /\ s.after[2] <= issues'[s.after[1]]
    <3>1. /\ s.after[1] \in Calls /\ s.before = expected[s.after[1]]
          /\ s.after[2] <= issues[s.after[1]] /\ s.after[2] \in Nat
      BY <1>1 DEF SwapInv, IInv, TypeOK, Swaps, Commits
    <3>2. QED BY <1>2, <1>4, <3>1
  <2>2. QED BY <2>1 DEF SwapInv
<1>6. CommitsFollowExpectedHead'
  <2>1. ASSUME NEW i \in 2..Len(log), log[i][1] \in Calls
        PROVE  log[i - 1] = expected'[log[i][1]]
    <3>1. i \in DOMAIN log
      BY LogFacts DEF IInv
    <3>2. log[i - 1] = expected[log[i][1]]
      BY <1>1, <2>1 DEF CommitsFollowExpectedHead
    <3>3. QED BY <1>4, <2>1, <3>1, <3>2
  <2>2. QED BY <2>1 DEF CommitsFollowExpectedHead
<1>7. ASSUME NEW d \in Calls \ {c} PROVE CallInv(d)'
  <2>1. /\ pc'[d] = pc[d] /\ expected'[d] = expected[d] /\ floor'[d] = floor[d]
        /\ commit'[d] = commit[d] /\ completed'[d] = completed[d]
        /\ attempts'[d] = attempts[d] /\ result'[d] = result[d] /\ issues'[d] = issues[d]
        /\ log' = log /\ swaps' = swaps /\ garbled' = garbled
    BY <1>7
  <2>2. CallInv(d)
    BY <1>1
  <2>3. UnsentInv(d)' /\ CommitInv(d)' /\ FloorInv(d)' /\ AttemptsInv(d)'
    BY <2>1, <2>2 DEF CallInv, UnsentInv, CommitInv, FloorInv, AttemptsInv
  <2>4. RejectedInv(d)'
    BY <2>1, <2>2 DEF CallInv, RejectedInv, NeverLands, Installed
  <2>5. ResultInv(d)'
    BY <2>1, <2>2 DEF CallInv, ResultInv, RefVerdict, Passed, Installed
  <2>6. QED BY <2>3, <2>4, <2>5 DEF CallInv
<1>8. QED BY <1>3, <1>5, <1>6, <1>7 DEF IInv

\* The branch moves to a head that is new: one whose swap was under way and
\* matched, or another user's.
LEMMA AppendStep ==
  ASSUME IInv, TypeOK', NEW h \in Commits, log' = Append(log, h), swaps' \subseteq swaps,
         UNCHANGED <<pc, expected, floor, commit, completed, attempts, result, issues, garbled>>,
         pushes' >= pushes,
         \A i \in DOMAIN log : h # log[i],
         \A s \in swaps' : s.after # h,
         h[1] \in Calls => /\ expected[h[1]] = Last(log) /\ h[2] <= issues[h[1]]
                           /\ \E s \in swaps : s.after = h,
         h[1] \notin Calls => h[2] <= pushes'
  PROVE  IInv'
<1>1. /\ TypeOK /\ LogInv /\ SwapInv /\ CommitsFollowExpectedHead
      /\ \A d \in Calls : CallInv(d)
  BY DEF IInv
<1>2. /\ Len(log) \in Nat \ {0} /\ DOMAIN log = 1..Len(log) /\ Last(log) = log[Len(log)]
      /\ \A i \in DOMAIN log : log[i] \in Commits
  BY <1>1, LogFacts
<1>3. /\ Len(log') = Len(log) + 1 /\ DOMAIN log' = 1..(Len(log) + 1)
      /\ \A i \in DOMAIN log : log'[i] = log[i]
      /\ log'[Len(log) + 1] = h
  BY <1>1 DEF TypeOK
<1>4. \A i \in DOMAIN log' : i \in DOMAIN log \/ i = Len(log) + 1
  BY <1>2, <1>3
<1>5. LogInv'
  <2>1. Len(log') >= 1 /\ log'[1] = Root
    BY <1>1, <1>2, <1>3 DEF LogInv
  <2>2. \A i, j \in DOMAIN log' : log'[i] = log'[j] => i = j
    BY <1>1, <1>3, <1>4 DEF LogInv
  <2>3. \A i \in DOMAIN log' : \A s \in swaps' : s.after # log'[i]
    BY <1>1, <1>3, <1>4 DEF LogInv
  <2>4. \A i \in DOMAIN log' : log'[i][1] \in Calls => log'[i][2] <= issues'[log'[i][1]]
    BY <1>1, <1>3, <1>4 DEF LogInv
  <2>5. \A i \in DOMAIN log' : log'[i][1] = Others => log'[i][2] <= pushes'
    <3>1. \A i \in DOMAIN log : log[i][2] \in Nat
      BY <1>2 DEF Commits
    <3>2. pushes \in Nat /\ pushes' \in Nat
      BY <1>1 DEF TypeOK
    <3>3. \A i \in DOMAIN log : log[i][1] = Others => log[i][2] <= pushes'
      BY <1>1, <3>1, <3>2 DEF LogInv
    <3>4. QED BY <1>3, <1>4, <3>3, CommitAssumption
  <2>6. QED BY <2>1, <2>2, <2>3, <2>4, <2>5 DEF LogInv
<1>6. SwapInv'
  BY <1>1 DEF SwapInv
<1>7. CommitsFollowExpectedHead'
  <2>1. ASSUME NEW i \in 2..Len(log'), log'[i][1] \in Calls
        PROVE  log'[i - 1] = expected'[log'[i][1]]
    <3>1. CASE i \in 2..Len(log)
      <4>1. i \in DOMAIN log /\ i - 1 \in DOMAIN log
        BY <1>2, <3>1
      <4>2. QED BY <1>1, <1>3, <2>1, <3>1, <4>1 DEF CommitsFollowExpectedHead
    <3>2. CASE i = Len(log) + 1
      <4>1. i - 1 = Len(log) /\ Len(log) \in DOMAIN log
        BY <1>2, <3>2
      <4>2. QED BY <1>2, <1>3, <2>1, <3>2, <4>1
    <3>3. QED BY <1>2, <1>3, <3>1, <3>2
  <2>2. QED BY <2>1 DEF CommitsFollowExpectedHead
<1>8. ASSUME NEW d \in Calls PROVE CallInv(d)'
  <2>0. CallInv(d)
    BY <1>1
  <2>1. UnsentInv(d)'
    <3>1. h[1] \notin Calls \/ \E s \in swaps : s.after = h
      OBVIOUS
    <3>2. QED BY <1>3, <1>4, <2>0, <3>1 DEF CallInv, UnsentInv
  <2>2. CommitInv(d)' /\ AttemptsInv(d)'
    BY <2>0 DEF CallInv, CommitInv, AttemptsInv
  <2>3. FloorInv(d)'
    BY <1>2, <1>3, <2>0 DEF CallInv, FloorInv
  <2>4. RejectedInv(d)'
    <3>1. SUFFICES ASSUME pc[d] \in Settled, completed[d] = "no", commit[d] \notin garbled
                   PROVE  NeverLands(d)'
      BY DEF RejectedInv
    <3>2. ~Installed(commit[d]) /\ \A s \in swaps : s.after # commit[d]
      BY <2>0, <3>1 DEF CallInv, RejectedInv, NeverLands
    <3>3. h # commit[d]
      <4>1. commit[d][1] = d
        BY <2>0, <3>1 DEF CallInv, CommitInv, Settled, Built
      <4>2. QED BY <3>2, <4>1
    <3>4. \A i \in DOMAIN log : log[i] # commit[d]
      BY <3>2, InstalledMeans
    <3>5. commit[d] \notin Range(log')
      BY <1>3, <1>4, <3>3, <3>4, InstalledMeansNext
    <3>6. QED BY <3>2, <3>5 DEF NeverLands, Installed
  <2>5. ResultInv(d)'
    <3>1. Installed(commit[d]) => Installed(commit[d])'
      BY <1>2, <1>3, InstalledMeans, InstalledMeansNext DEF Installed
    <3>2. Passed(d) => Passed(d)'
      BY <1>2, <1>3 DEF Passed
    <3>3. RefVerdict(d)' = RefVerdict(d)
      BY DEF RefVerdict
    <3>4. QED BY <2>0, <3>1, <3>2, <3>3 DEF CallInv, ResultInv
  <2>6. QED BY <2>1, <2>2, <2>3, <2>4, <2>5 DEF CallInv
<1>9. QED BY <1>5, <1>6, <1>7, <1>8 DEF IInv

-----------------------------------------------------------------------------
\* The invariant holds of a branch nobody has asked to change.
LEMMA InitInv == Init => IInv
<1> SUFFICES ASSUME Init PROVE IInv
  OBVIOUS
<1>1. Root \in Commits /\ Root[1] = Others
  BY DEF Root, Commits
<1>2. Len(log) = 1 /\ DOMAIN log = {1} /\ log[1] = Root /\ log \in Seq(Commits)
  BY <1>1 DEF Init
<1>3. TypeOK
  BY <1>1, <1>2, CommitAssumption DEF Init, TypeOK, Phases, Tri
<1>4. LogInv
  BY <1>1, <1>2, CommitAssumption DEF Init, LogInv, Root
<1>5. SwapInv /\ CommitsFollowExpectedHead
  BY <1>2 DEF Init, SwapInv, CommitsFollowExpectedHead
<1>6. ASSUME NEW c \in Calls PROVE CallInv(c)
  <2>1. pc[c] = "idle" /\ result[c] = None /\ attempts[c] = 0 /\ swaps = {}
    BY DEF Init
  <2>2. UnsentInv(c)
    BY <1>1, <1>2, <2>1, CommitAssumption DEF UnsentInv
  <2>3. CommitInv(c) /\ FloorInv(c) /\ RejectedInv(c) /\ AttemptsInv(c)
    BY <2>1 DEF CommitInv, FloorInv, RejectedInv, AttemptsInv, Built, Based, Settled
  <2>4. ResultInv(c)
    BY <2>1 DEF ResultInv, RefVerdict
  <2>5. QED BY <2>2, <2>3, <2>4 DEF CallInv
<1>7. QED BY <1>3, <1>4, <1>5, <1>6 DEF IInv

-----------------------------------------------------------------------------
\* The steps of a call that leave GitHub alone.  Those before the swap only
\* have to keep what ties the call to its base.
LEMMA BeforeSwapStep ==
  ASSUME IInv, [Next]_vars, NEW c \in Calls,
         Ask(c) \/ Prepare(c) \/ Recheck(c) \/ BuildObjects(c) \/ Abandon(c) \/ AskAgain(c)
  PROVE  IInv'
<1>1. TypeOK /\ LogInv /\ CallInv(c) /\ TypeOK'
  BY TypeStep DEF IInv
<1>2. /\ pc \in [Calls -> Phases] /\ expected \in [Calls -> Commits]
      /\ floor \in [Calls -> Nat \ {0}] /\ commit \in [Calls -> Commits \cup {None}]
      /\ issues \in [Calls -> Nat] /\ completed \in [Calls -> Tri]
      /\ attempts \in [Calls -> 0..MaxReads] /\ result \in [Calls -> Results \cup {None}]
  BY <1>1 DEF TypeOK
<1>3. CASE Ask(c)
  <2>1. /\ pc[c] = "idle" /\ pc' = [pc EXCEPT ![c] = "preparing"]
        /\ UNCHANGED <<floor, commit, completed, attempts, result, log, swaps, issues,
                       pushes, garbled>>
    BY <1>3, Zenon DEF Ask, Goto, readVars
  <2>2. \E h : expected' = [expected EXCEPT ![c] = h]
    BY <1>3, Zenon DEF Ask
  <2>3. pc'[c] = "preparing"
    BY <1>2, <2>1
  <2>4. CallInv(c)'
    BY <1>1, <2>1, <2>3 DEF CallInv, UnsentInv, CommitInv, FloorInv, RejectedInv, ResultInv,
       RefVerdict, AttemptsInv, Unsent, Built, Based, Settled
  <2>5. QED BY <1>1, <1>2, <2>1, <2>2, <2>4, LocalStep
<1>4. CASE Prepare(c)
  <2>1. /\ pc[c] = "preparing"
        /\ UNCHANGED <<expected, commit, completed, attempts, result, log, swaps, issues,
                       pushes, garbled>>
    BY <1>4, Zenon DEF Prepare, readVars
  <2>2. \/ /\ \/ pc' = [pc EXCEPT ![c] = "rechecking"]
              \/ pc' = [pc EXCEPT ![c] = "building"]
           /\ \E i \in DOMAIN log : log[i] = expected[c] /\ floor' = [floor EXCEPT ![c] = i]
        \/ pc' = [pc EXCEPT ![c] = "stopped"] /\ floor' = floor
    BY <1>4 DEF Prepare, Goto
  <2>3. \/ /\ pc'[c] \in {"rechecking", "building"}
           /\ floor'[c] \in DOMAIN log /\ log[floor'[c]] = expected[c]
        \/ pc'[c] = "stopped"
    BY <1>2, <2>2
  <2>4. CallInv(c)'
    BY <1>1, <2>1, <2>3 DEF CallInv, UnsentInv, CommitInv, FloorInv, RejectedInv, ResultInv,
       RefVerdict, AttemptsInv, Unsent, Built, Based, Settled
  <2>5. \A d \in Calls \ {c} : pc'[d] = pc[d] /\ floor'[d] = floor[d]
    BY <1>2, <2>2
  <2>6. QED BY <1>1, <1>2, <2>1, <2>4, <2>5, LocalStep
<1>5. CASE Recheck(c)
  <2>1. /\ pc[c] = "rechecking"
        /\ UNCHANGED <<expected, floor, commit, completed, attempts, result, log, swaps,
                       issues, pushes, garbled>>
        /\ pc' = [pc EXCEPT ![c] = "building"] \/ pc' = [pc EXCEPT ![c] = "stopped"]
    BY <1>5, Zenon DEF Recheck, Goto, readVars
  <2>2. pc'[c] \in {"building", "stopped"} /\ \A d \in Calls \ {c} : pc'[d] = pc[d]
    BY <1>2, <2>1
  <2>3. CallInv(c)'
    BY <1>1, <2>1, <2>2 DEF CallInv, UnsentInv, CommitInv, FloorInv, RejectedInv, ResultInv,
       RefVerdict, AttemptsInv, Unsent, Built, Based, Settled
  <2>4. QED BY <1>1, <1>2, <2>1, <2>2, <2>3, LocalStep
<1>6. CASE BuildObjects(c)
  <2>1. /\ pc[c] = "building"
        /\ UNCHANGED <<expected, floor, completed, attempts, result, log, swaps, issues,
                       pushes, garbled>>
    BY <1>6, Zenon DEF BuildObjects, readVars
  <2> DEFINE made == <<c, issues[c]>>
  <2>2. \/ pc' = [pc EXCEPT ![c] = "ready"] /\ commit' = [commit EXCEPT ![c] = made]
        \/ pc' = [pc EXCEPT ![c] = "stopped"] /\ commit' = commit
    BY <1>6, Zenon DEF BuildObjects, Goto
  <2> HIDE DEF made
  <2>3. \/ pc'[c] = "ready" /\ commit'[c] = made
        \/ pc'[c] = "stopped"
    BY <1>2, <2>2
  <2>4. pc'[c] = "ready" => commit'[c] = <<c, issues'[c]>>
    BY <2>1, <2>3 DEF made
  <2>5. CallInv(c)'
    BY <1>1, <2>1, <2>3, <2>4 DEF CallInv, UnsentInv, CommitInv, FloorInv, RejectedInv,
       ResultInv, RefVerdict, AttemptsInv, Unsent, Built, Based, Settled
  <2>6. \A d \in Calls \ {c} : pc'[d] = pc[d] /\ commit'[d] = commit[d]
    BY <1>2, <2>2
  <2>7. QED BY <1>1, <1>2, <2>1, <2>5, <2>6, LocalStep
<1>7. CASE Abandon(c)
  <2>1. /\ pc[c] \notin {"idle", "answered", "stopped"} /\ pc' = [pc EXCEPT ![c] = "stopped"]
        /\ UNCHANGED <<expected, floor, commit, completed, attempts, result, log, swaps,
                       issues, pushes, garbled>>
    BY <1>7, Zenon DEF Abandon, Goto, readVars
  <2>2. pc'[c] = "stopped" /\ \A d \in Calls \ {c} : pc'[d] = pc[d]
    BY <1>2, <2>1
  <2>3. CallInv(c)'
    BY <1>1, <2>1, <2>2 DEF CallInv, UnsentInv, CommitInv, FloorInv, RejectedInv, ResultInv,
       RefVerdict, AttemptsInv, Unsent, Built, Based, Settled
  <2>4. QED BY <1>1, <1>2, <2>1, <2>2, <2>3, LocalStep
<1>8. CASE AskAgain(c)
  <2>1. /\ pc' = [pc EXCEPT ![c] = "preparing"]
        /\ issues' = [issues EXCEPT ![c] = @ + 1]
        /\ floor' = [floor EXCEPT ![c] = 1]
        /\ commit' = [commit EXCEPT ![c] = None]
        /\ completed' = [completed EXCEPT ![c] = "unknown"]
        /\ attempts' = [attempts EXCEPT ![c] = 0]
        /\ result' = [result EXCEPT ![c] = None]
        /\ UNCHANGED <<expected, log, swaps, pushes, garbled>>
    BY <1>8, Zenon DEF AskAgain, Goto
  <2>2. /\ pc'[c] = "preparing" /\ attempts'[c] = 0 /\ result'[c] = None
        /\ issues'[c] = issues[c] + 1
    BY <1>2, <2>1
  <2>3. UnsentInv(c)'
    <3>1. \A s \in swaps : s.after[1] = c => s.after[2] < issues'[c]
      BY <1>2, <2>2 DEF IInv, SwapInv, TypeOK, Swaps, Commits
    <3>2. \A i \in DOMAIN log : log[i][1] = c => log[i][2] < issues'[c]
      <4>1. \A i \in DOMAIN log : log[i][2] \in Nat
        BY <1>1, LogFacts DEF Commits
      <4>2. QED BY <1>1, <1>2, <2>2, <4>1 DEF LogInv
    <3>3. QED BY <2>1, <2>2, <3>1, <3>2 DEF UnsentInv
  <2>4. CallInv(c)'
    BY <2>2, <2>3 DEF CallInv, CommitInv, FloorInv, RejectedInv, ResultInv,
       RefVerdict, AttemptsInv, Unsent, Built, Based, Settled
  <2>5. \A d \in Calls \ {c} :
          /\ pc'[d] = pc[d] /\ floor'[d] = floor[d] /\ commit'[d] = commit[d]
          /\ completed'[d] = completed[d] /\ attempts'[d] = attempts[d]
          /\ result'[d] = result[d] /\ issues'[d] = issues[d]
    BY <1>2, <2>1
  <2>6. issues'[c] >= issues[c]
    BY <1>2, <2>2
  <2>7. QED BY <1>1, <2>1, <2>4, <2>5, <2>6, LocalStep
<1>9. QED BY <1>3, <1>4, <1>5, <1>6, <1>7, <1>8

-----------------------------------------------------------------------------
\* A swap the governor refuses never reaches GitHub.
LEMMA RefuseStep ==
  ASSUME IInv, [Next]_vars, NEW c \in Calls, RefuseSwap(c) PROVE IInv'
<1>1. TypeOK /\ LogInv /\ SwapInv /\ CallInv(c) /\ TypeOK'
  BY TypeStep DEF IInv
<1>2. /\ pc[c] = "ready" /\ pc' = [pc EXCEPT ![c] = "reading"]
      /\ completed' = [completed EXCEPT ![c] = "no"]
      /\ UNCHANGED <<expected, floor, commit, attempts, result, log, swaps, issues, pushes,
                     garbled>>
  BY Zenon DEF RefuseSwap, Goto, readVars
<1>3. /\ pc'[c] = "reading" /\ completed'[c] = "no"
      /\ \A d \in Calls \ {c} : pc'[d] = pc[d] /\ completed'[d] = completed[d]
  BY <1>1, <1>2 DEF TypeOK
<1>4. commit[c] = <<c, issues[c]>> /\ issues[c] \in Nat
  BY <1>1, <1>2 DEF CallInv, CommitInv, Built, TypeOK
<1>5. NeverLands(c)
  <2>1. \A i \in DOMAIN log : log[i] # commit[c]
    BY <1>1, <1>2, <1>4 DEF CallInv, UnsentInv, Unsent
  <2>2. \A s \in swaps : s.after # commit[c]
    BY <1>1, <1>2, <1>4 DEF CallInv, UnsentInv, Unsent
  <2>3. QED BY <2>1, <2>2, InstalledMeans DEF NeverLands
<1>6. RejectedInv(c)'
  BY <1>2, <1>5 DEF RejectedInv, NeverLands, Installed
<1>7. CallInv(c)'
  BY <1>1, <1>2, <1>3, <1>6, CommitAssumption DEF CallInv, UnsentInv, CommitInv, FloorInv,
     ResultInv, RefVerdict, AttemptsInv, Unsent, Built, Based
<1>8. issues'[c] >= issues[c]
  BY <1>2, <1>4
<1>9. QED BY <1>1, <1>2, <1>3, <1>7, <1>8, LocalStep

\* A head read past the base proves the swap has nothing left to land on.
LEMMA ReadStep ==
  ASSUME IInv, [Next]_vars, NEW c \in Calls, ReadRef(c) \/ FailReadRef(c) PROVE IInv'
<1>1. TypeOK /\ LogInv /\ CallInv(c) /\ TypeOK'
  BY TypeStep DEF IInv
<1>2. /\ pc[c] = "reading" /\ attempts' = [attempts EXCEPT ![c] = @ + 1]
      /\ UNCHANGED <<expected, floor, commit, completed, log, swaps, issues, pushes, garbled>>
  BY ReadOutcome, FailOutcome, Zenon
<1>3. \/ \E i \in floor[c]..Len(log) :
           /\ Conclusive(c, log[i])
           /\ \/ log[i] = commit[c] /\ Conclude(c, TRUE, "yes")
              \/ log[i] # commit[c] /\ Conclude(c, TRUE, "no")
      \/ Conclude(c, FALSE, "unknown")
      \/ pc' = pc /\ result' = result /\ ~LastRead(c)
  BY ReadOutcome, FailOutcome, Zenon
<1>4. /\ floor[c] \in DOMAIN log /\ log[floor[c]] = expected[c]
      /\ commit[c] = <<c, issues[c]>> /\ issues[c] \in Nat
      /\ attempts[c] \in 0..MaxReads /\ attempts[c] < MaxReads
      /\ attempts'[c] = attempts[c] + 1
      /\ result[c] = None
  BY <1>1, <1>2 DEF CallInv, FloorInv, CommitInv, AttemptsInv, ResultInv, Based, Built, TypeOK
<1>5. \A d \in Calls \ {c} : attempts'[d] = attempts[d]
  BY <1>1, <1>2 DEF TypeOK
<1>6. RejectedInv(c)'
  BY <1>1, <1>2 DEF CallInv, RejectedInv, NeverLands, Installed, Settled
<1>7. CASE pc' = pc /\ result' = result /\ ~LastRead(c)
  <2>1. attempts'[c] < MaxReads
    BY <1>4, <1>7, CommitAssumption DEF LastRead
  <2>2. CallInv(c)'
    BY <1>1, <1>2, <1>6, <1>7, <2>1 DEF CallInv, UnsentInv, CommitInv, FloorInv, ResultInv,
       RefVerdict, AttemptsInv, Unsent, Passed, Installed
  <2>3. issues'[c] >= issues[c]
    BY <1>2, <1>4
  <2>4. QED BY <1>1, <1>2, <1>5, <1>7, <2>2, <2>3, LocalStep
<1>8. ASSUME NEW read \in BOOLEAN, NEW matches \in Tri, read <=> matches # "unknown",
             Conclude(c, read, matches),
             matches = "yes" => Installed(commit[c]),
             matches = "no" => Passed(c) \/ completed[c] = "no"
      PROVE  IInv'
  <2>1. /\ pc' = [pc EXCEPT ![c] = "answered"] /\ result'[c].ref_updated = matches
        /\ result' \in [Calls -> Results \cup {None}]
        /\ \A d \in Calls \ {c} : result'[d] = result[d]
    BY <1>1, <1>8, ConcludeResult, Zenon
  <2>2. pc'[c] = "answered" /\ \A d \in Calls \ {c} : pc'[d] = pc[d]
    BY <1>1, <2>1 DEF TypeOK
  <2>3. RefVerdict(c)' \in {"unknown", matches}
    BY <2>1 DEF RefVerdict
  <2>4. ResultInv(c)'
    BY <1>2, <1>8, <2>2, <2>3 DEF ResultInv, Passed, Installed
  <2>5. CallInv(c)'
    BY <1>1, <1>2, <1>4, <1>6, <2>2, <2>4 DEF CallInv, UnsentInv, CommitInv, FloorInv,
       AttemptsInv, Unsent
  <2>6. issues'[c] >= issues[c]
    BY <1>2, <1>4
  <2>7. QED BY <1>1, <1>2, <1>5, <2>1, <2>2, <2>5, <2>6, LocalStep
<1>9. CASE Conclude(c, FALSE, "unknown")
  BY <1>8, <1>9 DEF Tri
<1>10. ASSUME NEW i \in floor[c]..Len(log), Conclusive(c, log[i]),
              \/ log[i] = commit[c] /\ Conclude(c, TRUE, "yes")
              \/ log[i] # commit[c] /\ Conclude(c, TRUE, "no")
       PROVE  IInv'
  <2>1. i \in DOMAIN log
    BY <1>1, <1>4, LogFacts
  <2>2. log[i] = commit[c] => Installed(commit[c])
    BY <2>1, InstalledMeans
  <2>3. log[i] # commit[c] => Passed(c) \/ completed[c] = "no"
    <3>1. ASSUME log[i] # expected[c], log[i] # commit[c] PROVE Passed(c)
      <4>1. i # floor[c]
        BY <1>4, <3>1
      <4>2. i > floor[c]
        BY <1>1, <1>4, <2>1, <4>1, LogFacts
      <4>3. QED BY <2>1, <3>1, <4>2 DEF Passed
    <3>2. QED BY <1>10, <3>1 DEF Conclusive
  <2>4. QED BY <1>8, <1>10, <2>2, <2>3 DEF Tri
<1>11. QED BY <1>3, <1>7, <1>9, <1>10

-----------------------------------------------------------------------------
\* A commit that is new is sent, for the head its caller named.
LEMMA SendStep ==
  ASSUME IInv, [Next]_vars, NEW c \in Calls, SendSwap(c) PROVE IInv'
<1>1. /\ TypeOK /\ LogInv /\ SwapInv /\ CommitsFollowExpectedHead /\ TypeOK'
      /\ \A d \in Calls : CallInv(d)
  BY TypeStep DEF IInv
<1>2. /\ pc[c] = "ready" /\ pc' = [pc EXCEPT ![c] = "swapping"]
      /\ swaps' = swaps \cup {Swap(c)}
      /\ UNCHANGED <<expected, floor, commit, completed, attempts, result, log, issues,
                     pushes, garbled>>
  BY Zenon DEF SendSwap, Goto, readVars
<1>3. /\ Swap(c).after = <<c, issues[c]>> /\ Swap(c).before = expected[c]
      /\ commit[c] = <<c, issues[c]>> /\ issues[c] \in Nat
  BY <1>1, <1>2 DEF CallInv, CommitInv, Built, TypeOK, Swap
<1>4. pc'[c] = "swapping" /\ \A d \in Calls \ {c} : pc'[d] = pc[d]
  BY <1>1, <1>2 DEF TypeOK
<1>5. \A s \in swaps' : s \in swaps \/ s = Swap(c)
  BY <1>2
<1>6. LogInv'
  <2>1. \A i \in DOMAIN log : Swap(c).after # log[i]
    BY <1>1, <1>2, <1>3 DEF CallInv, UnsentInv, Unsent
  <2>2. \A i \in DOMAIN log : \A s \in swaps' : s.after # log[i]
    BY <1>1, <1>5, <2>1 DEF LogInv
  <2>3. QED BY <1>1, <1>2, <2>2 DEF LogInv
<1>7. SwapInv'
  BY <1>1, <1>2, <1>3, <1>5 DEF SwapInv
<1>8. CommitsFollowExpectedHead'
  BY <1>1, <1>2 DEF CommitsFollowExpectedHead
<1>9. ASSUME NEW d \in Calls PROVE CallInv(d)'
  <2>1. CASE d = c
    <3>1. UnsentInv(c)' /\ RejectedInv(c)'
      BY <1>4 DEF UnsentInv, RejectedInv, Unsent, Settled
    <3>2. CommitInv(c)' /\ FloorInv(c)' /\ AttemptsInv(c)'
      BY <1>1, <1>2, <1>4 DEF CallInv, CommitInv, FloorInv, AttemptsInv, Unsent, Built, Based
    <3>3. ResultInv(c)'
      BY <1>1, <1>2, <1>4 DEF CallInv, ResultInv, RefVerdict
    <3>4. QED BY <2>1, <3>1, <3>2, <3>3 DEF CallInv
  <2>2. CASE d # c
    <3>1. pc'[d] = pc[d] /\ CallInv(d)
      BY <1>1, <1>4, <2>2
    <3>2. Swap(c).after[1] # d
      BY <1>3, <2>2
    <3>3. UnsentInv(d)'
      BY <1>2, <1>5, <3>1, <3>2 DEF CallInv, UnsentInv
    <3>4. CommitInv(d)' /\ FloorInv(d)' /\ AttemptsInv(d)'
      BY <1>2, <3>1 DEF CallInv, CommitInv, FloorInv, AttemptsInv
    <3>5. ResultInv(d)'
      BY <1>2, <3>1 DEF CallInv, ResultInv, RefVerdict, Passed, Installed
    <3>6. RejectedInv(d)'
      <4>1. pc[d] \in Settled => commit[d][1] = d
        BY <3>1 DEF CallInv, CommitInv, Settled, Built
      <4>2. pc[d] \in Settled => Swap(c).after # commit[d]
        BY <3>2, <4>1
      <4>3. QED BY <1>2, <1>5, <3>1, <4>2 DEF CallInv, RejectedInv, NeverLands, Installed
    <3>7. QED BY <3>3, <3>4, <3>5, <3>6 DEF CallInv
  <2>3. QED BY <2>1, <2>2
<1>10. QED BY <1>1, <1>6, <1>7, <1>8, <1>9 DEF IInv

\* gh's answer takes a swap off the way only when GitHub has rejected it.
LEMMA FinishStep ==
  ASSUME IInv, [Next]_vars, NEW c \in Calls, FinishSwap(c) PROVE IInv'
<1>1. /\ TypeOK /\ LogInv /\ SwapInv /\ CommitsFollowExpectedHead /\ TypeOK'
      /\ \A d \in Calls : CallInv(d)
  BY TypeStep DEF IInv
<1>2. /\ pc[c] = "swapping" /\ pc' = [pc EXCEPT ![c] = "reading"]
      /\ UNCHANGED <<expected, floor, commit, attempts, result, log, issues, pushes>>
      /\ \E v \in Tri : completed' = [completed EXCEPT ![c] = v]
  BY <1>1, FinishOutcome, Zenon DEF readVars
<1>3. /\ swaps' \in {swaps, swaps \ {Swap(c)}}
      /\ garbled' \in {garbled, garbled \cup {commit[c]}}
      /\ completed'[c] = "no" /\ commit[c] \notin garbled' =>
           ~Installed(commit[c]) /\ swaps' = swaps \ {Swap(c)}
  BY <1>1, FinishOutcome, Zenon
<1>4. swaps' \subseteq swaps /\ garbled \subseteq garbled'
  BY <1>3
<1>5. /\ pc'[c] = "reading"
      /\ \A d \in Calls \ {c} : pc'[d] = pc[d] /\ completed'[d] = completed[d]
  BY <1>1, <1>2 DEF TypeOK
<1>6. LogInv' /\ SwapInv' /\ CommitsFollowExpectedHead'
  BY <1>1, <1>2, <1>4 DEF LogInv, SwapInv, CommitsFollowExpectedHead
<1>7. ASSUME NEW d \in Calls PROVE CallInv(d)'
  <2>1. CASE d = c
    <3>1. UnsentInv(c)' /\ CommitInv(c)' /\ FloorInv(c)' /\ AttemptsInv(c)'
      BY <1>1, <1>2, <1>5, CommitAssumption DEF CallInv, UnsentInv, CommitInv, FloorInv,
         AttemptsInv, Unsent, Built, Based
    <3>2. ResultInv(c)'
      BY <1>1, <1>2, <1>5 DEF CallInv, ResultInv, RefVerdict
    <3>3. RejectedInv(c)'
      <4>1. SUFFICES ASSUME completed'[c] = "no", commit[c] \notin garbled'
                     PROVE  ~Installed(commit[c]) /\ \A s \in swaps' : s.after # commit[c]
        BY <1>2 DEF RejectedInv, NeverLands, Installed
      <4>2. ~Installed(commit[c]) /\ swaps' = swaps \ {Swap(c)}
        BY <1>3, <4>1
      <4>3. commit[c][1] = c
        BY <1>1, <1>2 DEF CallInv, CommitInv, Built
      <4>4. ASSUME NEW s \in swaps, s.after = commit[c] PROVE s = Swap(c)
        <5>1. s.before = expected[c] /\ s \in Swaps
          BY <1>1, <4>3, <4>4 DEF SwapInv, TypeOK
        <5>2. s = [before |-> s.before, after |-> s.after]
          BY <5>1 DEF Swaps
        <5>3. QED BY <4>4, <5>1, <5>2, Zenon DEF Swap
      <4>5. QED BY <4>2, <4>4
    <3>4. QED BY <2>1, <3>1, <3>2, <3>3 DEF CallInv
  <2>2. CASE d # c
    <3>1. pc'[d] = pc[d] /\ completed'[d] = completed[d] /\ CallInv(d)
      BY <1>1, <1>5, <2>2
    <3>2. UnsentInv(d)' /\ CommitInv(d)' /\ FloorInv(d)' /\ AttemptsInv(d)'
      BY <1>2, <1>4, <3>1 DEF CallInv, UnsentInv, CommitInv, FloorInv, AttemptsInv
    <3>3. RejectedInv(d)'
      BY <1>2, <1>4, <3>1 DEF CallInv, RejectedInv, NeverLands, Installed
    <3>4. ResultInv(d)'
      BY <1>2, <3>1 DEF CallInv, ResultInv, RefVerdict, Passed, Installed
    <3>5. QED BY <3>2, <3>3, <3>4 DEF CallInv
  <2>3. QED BY <2>1, <2>2
<1>8. QED BY <1>1, <1>6, <1>7 DEF IInv

\* Whenever GitHub decides a swap, it lands on the head it was made for.
LEMMA DecideStep ==
  ASSUME IInv, [Next]_vars, NEW s \in swaps, DecideSwap(s) PROVE IInv'
<1>1. TypeOK /\ LogInv /\ SwapInv /\ CommitsFollowExpectedHead /\ TypeOK'
      /\ \A d \in Calls : CallInv(d)
  BY TypeStep DEF IInv
<1>2. /\ swaps' = swaps \ {s} /\ swaps' \subseteq swaps
      /\ UNCHANGED <<pc, expected, floor, commit, completed, attempts, result, issues,
                     pushes, garbled>>
      /\ \/ log' = log
         \/ Last(log) = s.before /\ log' = Append(log, s.after)
  BY DEF DecideSwap, readVars
<1>3. CASE log' = log
  <2>1. LogInv' /\ SwapInv' /\ CommitsFollowExpectedHead'
    BY <1>1, <1>2, <1>3 DEF LogInv, SwapInv, CommitsFollowExpectedHead
  <2>2. ASSUME NEW d \in Calls PROVE CallInv(d)'
    BY <1>1, <1>2, <1>3 DEF CallInv, UnsentInv, CommitInv, FloorInv, RejectedInv, NeverLands,
       Installed, ResultInv, RefVerdict, Passed, AttemptsInv
  <2>3. QED BY <1>1, <2>1, <2>2 DEF IInv
<1>4. CASE Last(log) = s.before /\ log' = Append(log, s.after)
  <2> DEFINE h == s.after
  <2>1. s \in Swaps /\ h \in Commits /\ pushes \in Nat /\ pushes' = pushes
    BY <1>1, <1>2 DEF TypeOK, Swaps
  <2>2. h[1] \in Calls /\ expected[h[1]] = Last(log) /\ h[2] <= issues[h[1]]
    BY <1>1, <1>4 DEF SwapInv
  <2>3. \A i \in DOMAIN log : h # log[i]
    BY <1>1 DEF LogInv
  <2>4. ASSUME NEW t \in swaps' PROVE t.after # h
    <3>1. SUFFICES ASSUME t.after = s.after PROVE t = s
      BY <1>2
    <3>2. t.before = s.before /\ t \in Swaps
      BY <1>1, <1>2, <3>1 DEF SwapInv, TypeOK
    <3>3. t = [before |-> t.before, after |-> t.after] /\ s = [before |-> s.before, after |-> s.after]
      BY <2>1, <3>2 DEF Swaps
    <3>4. QED BY <3>1, <3>2, <3>3, Zenon
  <2>5. pushes' >= pushes
    BY <2>1
  <2>6. log' = Append(log, h) /\ \E t \in swaps : t.after = h
    BY <1>4
  <2> HIDE DEF h
  <2>7. QED BY <1>1, <1>2, <2>1, <2>2, <2>3, <2>4, <2>5, <2>6, AppendStep
<1>5. QED BY <1>2, <1>3, <1>4

\* Another user's commit is new too.
LEMMA PushStep ==
  ASSUME IInv, [Next]_vars, Push PROVE IInv'
<1>1. TypeOK /\ LogInv /\ SwapInv /\ TypeOK'
  BY TypeStep DEF IInv
<1>2. /\ pushes' = pushes + 1 /\ log' = Append(log, <<Others, pushes + 1>>)
      /\ UNCHANGED <<pc, expected, floor, commit, completed, attempts, result, swaps, issues,
                     garbled>>
  BY Zenon DEF Push, readVars
<1>3. pushes \in Nat
  BY <1>1 DEF TypeOK
<1> DEFINE h == <<Others, pushes + 1>>
<1>4. h \in Commits /\ h[1] = Others /\ h[2] = pushes'
  BY <1>2, <1>3 DEF Commits
<1>5. \A i \in DOMAIN log : h # log[i]
  BY <1>1, <1>3, <1>4, <1>2 DEF LogInv
<1>6. \A s \in swaps' : s.after # h
  BY <1>1, <1>2, <1>4, CommitAssumption DEF SwapInv
<1>7. log' = Append(log, h)
  BY <1>2
<1>8. pushes' >= pushes /\ h[2] <= pushes' /\ h[1] \notin Calls /\ swaps' \subseteq swaps
  BY <1>2, <1>3, <1>4, CommitAssumption
<1> HIDE DEF h
<1>9. QED BY <1>1, <1>2, <1>4, <1>5, <1>6, <1>7, <1>8, AppendStep

-----------------------------------------------------------------------------
\* Every step keeps the invariant.
LEMMA NextInv == IInv /\ [Next]_vars => IInv'
<1> SUFFICES ASSUME IInv, [Next]_vars PROVE IInv'
  OBVIOUS
<1>1. ASSUME NEW c \in Calls, Step(c) \/ Abandon(c) \/ AskAgain(c) PROVE IInv'
  BY <1>1, BeforeSwapStep, RefuseStep, ReadStep, SendStep, FinishStep, Zenon DEF Step
<1>2. ASSUME NEW s \in swaps, DecideSwap(s) PROVE IInv'
  BY <1>2, DecideStep
<1>3. CASE Push
  BY <1>3, PushStep
<1>4. CASE UNCHANGED vars
  <2>1. UNCHANGED <<pc, expected, floor, commit, completed, attempts, result, log, swaps,
                    issues, pushes, garbled>>
    BY <1>4 DEF vars, readVars
  <2>2. TypeOK' /\ LogInv' /\ SwapInv' /\ CommitsFollowExpectedHead'
    BY <2>1, TypeStep DEF IInv, LogInv, SwapInv, CommitsFollowExpectedHead
  <2>3. ASSUME NEW d \in Calls PROVE CallInv(d)'
    BY <2>1 DEF IInv, CallInv, UnsentInv, CommitInv, FloorInv, RejectedInv, NeverLands,
       Installed, ResultInv, RefVerdict, Passed, AttemptsInv
  <2>4. QED BY <2>2, <2>3 DEF IInv
<1>5. QED BY <1>1, <1>2, <1>3, <1>4, Zenon DEF Next

\* The inductive invariant: the log repeats no head, every swap on its way is
\* made for the head its caller named, and what each call believes is backed by
\* the log (content_commit_service.py, prepare to reconcile).
THEOREM Invariance == Spec => []IInv
<1>1. QED BY InitInv, NextInv, PTL DEF Spec

\* Every variable of the commit service keeps its type.
THEOREM TypeCorrect == Spec => []TypeOK
<1>1. IInv => TypeOK
  BY DEF IInv
<1>2. QED BY <1>1, Invariance, PTL

\* A commit lands only directly on the head its caller named: the compare-and-
\* swap of cas_payload, whatever others push and however late it is decided.
THEOREM FollowsExpectedHead == Spec => []CommitsFollowExpectedHead
<1>1. IInv => CommitsFollowExpectedHead
  BY DEF IInv
<1>2. QED BY <1>1, Invariance, PTL

\* Asking again for a change on the same head never lands it twice.
THEOREM LandsOnce == Spec => []ChangeLandsOnce
<1>1. ASSUME IInv PROVE ChangeLandsOnce
  <2>1. TypeOK /\ LogInv /\ CommitsFollowExpectedHead
    BY <1>1 DEF IInv
  <2>2. DOMAIN log = 1..Len(log) /\ Len(log) \in Nat
    BY <2>1, LogFacts
  <2>3. log[1][1] = Others
    BY <2>1 DEF LogInv, Root
  <2>4. ASSUME NEW i \in DOMAIN log, NEW j \in DOMAIN log, log[i][1] \in Calls, log[i][1] = log[j][1]
        PROVE  i = j
    <3>1. i \in 2..Len(log) /\ j \in 2..Len(log)
      BY <2>2, <2>3, <2>4, CommitAssumption
    <3>2. log[i - 1] = expected[log[i][1]] /\ log[j - 1] = expected[log[i][1]]
      BY <2>1, <2>4, <3>1 DEF CommitsFollowExpectedHead
    <3>3. i - 1 \in DOMAIN log /\ j - 1 \in DOMAIN log
      BY <2>2, <3>1
    <3>4. i - 1 = j - 1
      BY <2>1, <3>2, <3>3 DEF LogInv
    <3>5. QED BY <2>2, <3>4
  <2>5. QED BY <2>4 DEF ChangeLandsOnce
<1>2. QED BY <1>1, Invariance, PTL

\* What a call says of the ref (readback_ref, ref_updated) is never undone by a
\* swap GitHub decides later.
THEOREM VerdictsStay == Spec => []VerdictsStayTrue
<1>1. ASSUME IInv PROVE VerdictsStayTrue
  <2>1. TypeOK /\ LogInv /\ CommitsFollowExpectedHead
    BY <1>1 DEF IInv
  <2>2. /\ DOMAIN log = 1..Len(log) /\ Len(log) \in Nat \ {0} /\ Last(log) = log[Len(log)]
    BY <2>1, LogFacts
  <2>3. ASSUME NEW c \in Calls PROVE RefVerdict(c) = "yes" => Installed(commit[c])
    BY <1>1 DEF IInv, CallInv, ResultInv
  <2>4. ASSUME NEW c \in Calls, RefVerdict(c) = "no", commit[c] \notin garbled
        PROVE  Last(log) # commit[c]
    <3>1. pc[c] = "answered"
      BY <1>1, <2>4 DEF IInv, CallInv, ResultInv, RefVerdict
    <3>2. /\ floor[c] \in DOMAIN log /\ log[floor[c]] = expected[c]
          /\ commit[c][1] = c
          /\ Passed(c) \/ completed[c] = "no"
      BY <1>1, <2>4, <3>1 DEF IInv, CallInv, ResultInv, FloorInv, CommitInv, Based, Built
    <3>3. CASE completed[c] = "no"
      <4>0. RejectedInv(c) /\ pc[c] \in Settled
        BY <1>1, <3>1, Zenon DEF IInv, CallInv, Settled
      <4>1. ~Installed(commit[c])
        BY <2>4, <3>3, <4>0 DEF RejectedInv, NeverLands
      <4>2. QED BY <2>2, <4>1, InstalledMeans
    <3>4. CASE Passed(c)
      <4>1. SUFFICES ASSUME Last(log) = commit[c] PROVE FALSE
        OBVIOUS
      <4>2. PICK i \in DOMAIN log : i > floor[c] /\ log[i] # commit[c]
        BY <3>4 DEF Passed
      <4>3. Len(log) \in 2..Len(log) /\ i < Len(log)
        <5>1. i # Len(log)
          BY <2>2, <4>1, <4>2
        <5>2. i \in 1..Len(log) /\ floor[c] \in 1..Len(log)
          BY <2>2, <3>2
        <5>3. QED BY <2>2, <4>2, <5>1, <5>2
      <4>4. log[Len(log) - 1] = expected[c]
        BY <2>1, <2>2, <3>2, <4>1, <4>3 DEF CommitsFollowExpectedHead
      <4>5. Len(log) - 1 = floor[c]
        BY <2>1, <2>2, <3>2, <4>3, <4>4 DEF LogInv
      <4>6. QED BY <2>2, <3>2, <4>2, <4>3, <4>5
    <3>5. QED BY <3>2, <3>3, <3>4
  <2>5. QED BY <2>3, <2>4 DEF VerdictsStayTrue
<1>2. QED BY <1>1, Invariance, PTL

-----------------------------------------------------------------------------
(***************************************************************************)
(* Proof, for any requests, retries and pushes, of what is in the commits  *)
(* that land (content_commit_service.py, tools/patch_writes.py): the files *)
(* drafted against the very tree they replace, laid over it, and never     *)
(* nothing.  A draft is read from an immutable commit, so it stays right   *)
(* for that commit however long the call goes on; and the swap lets it in  *)
(* only directly on that commit.  What is proved of ContentCommit carries  *)
(* over, since choosing the files takes no step it does not have.          *)
(***************************************************************************)
\* Every commit is on GitHub with its tree before anything refers to it.
TreesInv ==
  /\ request \in Requests
  /\ DOMAIN drafted = Calls
  /\ DOMAIN trees \subseteq Commits
  /\ \A i \in DOMAIN log : log[i] \in DOMAIN trees
  /\ \A s \in swaps : s.after \in DOMAIN trees
  /\ \A c \in Calls : expected[c] \in DOMAIN trees
  /\ \A c \in Calls : pc[c] = "ready" => commit[c] \in DOMAIN trees

\* A commit that is still to be made has no tree yet.
FreshInv ==
  /\ \A h \in DOMAIN trees : h[1] = Others => h[2] <= pushes
  /\ \A c \in Calls, h \in DOMAIN trees :
       h[1] = c =>
         /\ pc[c] # "idle" /\ h[2] <= issues[c]
         /\ pc[c] \in {"preparing", "rechecking", "building"} => h[2] < issues[c]

Wanted(c) == DraftOn(c, trees[expected[c]])

\* What a call has read is what the commit it is based on still says.
DraftInv ==
  \A c \in Calls :
    pc[c] \in {"rechecking", "building"} => drafted[c] = Wanted(c) /\ Wanted(c) # None

BuiltInv ==
  \A c \in Calls, h \in DOMAIN trees :
    h[1] = c => /\ Wanted(c) # None
                /\ trees[h] = Overlaid(Wanted(c), trees[expected[c]])
                /\ trees[h] # trees[expected[c]]

FInv == TreesInv /\ FreshInv /\ DraftInv /\ BuiltInv

\* What has come of the commits asked for, each against the head before it.
CommitsAreAsDrafted ==
  \A i \in 2 .. Len(log) :
    log[i][1] \in Calls =>
      LET before == trees[log[i - 1]]
          files == DraftOn(log[i][1], before)
      IN  /\ files # None
          /\ trees[log[i]] = Overlaid(files, before)
          /\ trees[log[i]] # before

-----------------------------------------------------------------------------
\* Choosing the files takes no step that ContentCommit does not have.
LEMMA FilesStep == request \in Requests /\ [FilesNext]_allVars => [Next]_vars /\ request' = request
<1>1. SUFFICES ASSUME request \in Requests, [FilesNext]_allVars
               PROVE [Next]_vars /\ request' = request
  OBVIOUS
<1>2. request.mix \subseteq Calls BY <1>1, RequestAssumption
<1>3. ASSUME NEW c \in request.mix, PrepareFiles(c) \/ BuildFiles(c) \/ AskAgainForFiles(c)
      PROVE [Next]_vars /\ request' = request
  BY <1>2, <1>3 DEF PrepareFiles, BuildFiles, AskAgainForFiles, Next, Step
<1>4. ASSUME NEW c \in request.mix, RefStep(c), UNCHANGED fileVars
      PROVE [Next]_vars /\ request' = request
  BY <1>2, <1>4 DEF RefStep, fileVars, Next, Step
<1>5. ASSUME NEW s \in swaps, DecideSwap(s), UNCHANGED fileVars
      PROVE [Next]_vars /\ request' = request
  BY <1>5 DEF fileVars, Next
<1>6. CASE PushFiles BY <1>6 DEF PushFiles, Next
<1>7. CASE UNCHANGED allVars BY <1>7 DEF allVars, fileVars
<1>8. QED BY <1>1, <1>3, <1>4, <1>5, <1>6, <1>7 DEF FilesNext

LEMMA FilesKeepIInv == FilesSpec => [](IInv /\ request \in Requests)
<1>1. FilesInit => IInv /\ request \in Requests BY InitInv DEF FilesInit
<1>2. IInv /\ request \in Requests /\ [FilesNext]_allVars => (IInv /\ request \in Requests)'
  BY FilesStep, NextInv
<1>3. QED BY <1>1, <1>2, PTL DEF FilesSpec

\* gh_commit_files and gh_patch_files are ContentCommit, whatever files they write.
THEOREM FilesImplementCommits == FilesSpec => Spec
<1>1. FilesInit => Init BY DEF FilesInit
<1>2. request \in Requests /\ [FilesNext]_allVars => [Next]_vars BY FilesStep
<1>3. QED BY <1>1, <1>2, FilesKeepIInv, PTL DEF FilesSpec, Spec

-----------------------------------------------------------------------------
LEMMA FInitially == FilesInit => FInv
<1>1. SUFFICES ASSUME FilesInit PROVE FInv OBVIOUS
<1>2. /\ request \in Requests /\ drafted = [c \in Calls |-> None]
      /\ trees = [h \in {Root} |-> request.root]
      /\ log = <<Root>> /\ swaps = {}
      /\ expected = [c \in Calls |-> Root]
      /\ pc = [c \in Calls |-> "idle"]
      /\ pushes = 0
  BY <1>1 DEF FilesInit, Init
<1>3. DOMAIN trees = {Root} /\ Root \in Commits /\ Root[1] = Others /\ Root[2] = 0
  BY <1>2 DEF Root, Commits
<1>4. TreesInv BY <1>2, <1>3 DEF TreesInv
<1>5. FreshInv /\ BuiltInv BY <1>2, <1>3, CommitAssumption DEF FreshInv, BuiltInv
<1>6. DraftInv BY <1>2 DEF DraftInv
<1>7. QED BY <1>4, <1>5, <1>6 DEF FInv

\* Steps of a call after its objects are made, or that end it.
Onward(c) ==
  /\ UNCHANGED <<expected, issues, pushes, commit, log, trees, drafted, request>>
  /\ pc[c] # "idle"
  /\ \E p \in Phases :
       /\ pc' = [pc EXCEPT ![c] = p]
       /\ p \notin {"idle", "preparing", "ready"}
       /\ p \in {"rechecking", "building"} => pc[c] \in {"rechecking", "building"}
  /\ \A s \in swaps' : s.after \in DOMAIN trees

LEMMA OnwardPreserves ==
  ASSUME TypeOK, FInv, NEW c \in Calls, Onward(c)
  PROVE  FInv'
<1>1. PICK p \in Phases :
        /\ pc' = [pc EXCEPT ![c] = p]
        /\ p \notin {"idle", "preparing", "ready"}
        /\ p \in {"rechecking", "building"} => pc[c] \in {"rechecking", "building"}
  BY DEF Onward
<1>2. /\ UNCHANGED <<expected, issues, pushes, commit, log, trees, drafted, request>>
      /\ pc[c] # "idle"
      /\ \A s \in swaps' : s.after \in DOMAIN trees
  BY DEF Onward
<1>3. pc \in [Calls -> Phases] BY DEF TypeOK
<1>4. \A d \in Calls \ {c} : pc'[d] = pc[d] BY <1>1, <1>3
<1>5. pc'[c] = p BY <1>1, <1>3
<1>6. TreesInv' BY <1>1, <1>2, <1>4, <1>5 DEF FInv, TreesInv
<1>7. FreshInv' BY <1>1, <1>2, <1>4, <1>5 DEF FInv, FreshInv
<1>8. \A d \in Calls : Wanted(d)' = Wanted(d) BY <1>2 DEF Wanted, DraftOn
<1>9. DraftInv' BY <1>1, <1>2, <1>4, <1>5, <1>8 DEF FInv, DraftInv
<1>10. BuiltInv' BY <1>2, <1>8 DEF FInv, BuiltInv
<1>11. QED BY <1>6, <1>7, <1>9, <1>10 DEF FInv

LEMMA RefStepsGoOn ==
  ASSUME TypeOK, FInv, NEW c \in Calls, UNCHANGED fileVars,
         \/ Recheck(c) \/ Abandon(c) \/ SendSwap(c) \/ RefuseSwap(c)
         \/ FinishSwap(c) \/ FailReadRef(c)
  PROVE  Onward(c)
<1>1. /\ \A s \in swaps : s.after \in DOMAIN trees
      /\ pc[c] = "ready" => commit[c] \in DOMAIN trees
  BY DEF FInv, TreesInv
<1>2. CASE Recheck(c) BY <1>1, <1>2 DEF Recheck, Onward, Goto, Phases, fileVars
<1>3. CASE Abandon(c) BY <1>1, <1>3 DEF Abandon, Onward, Goto, Phases, fileVars
<1>4. CASE SendSwap(c) BY <1>1, <1>4 DEF SendSwap, Swap, Onward, Goto, Phases, fileVars
<1>5. CASE RefuseSwap(c) BY <1>1, <1>5 DEF RefuseSwap, Onward, Goto, Phases, fileVars
<1>6. CASE FinishSwap(c)
  <2>1. swaps' \subseteq swaps BY <1>6 DEF FinishSwap
  <2>2. QED BY <1>1, <1>6, <2>1 DEF FinishSwap, Onward, Goto, Phases, fileVars
<1>7. CASE FailReadRef(c)
  BY <1>1, <1>7 DEF FailReadRef, Conclude, Onward, Goto, Phases, fileVars
<1>8. QED BY <1>2, <1>3, <1>4, <1>5, <1>6, <1>7

LEMMA ReadRefPreserves ==
  ASSUME TypeOK, FInv, NEW c \in Calls, UNCHANGED fileVars, ReadRef(c)
  PROVE  FInv'
<1>1. /\ pc[c] = "reading"
      /\ UNCHANGED <<expected, issues, pushes, commit, log, swaps>>
      /\ pc' = [pc EXCEPT ![c] = "answered"] \/ pc' = pc
  BY ReadOutcome DEF Conclude, Goto
<1>2. pc' = [pc EXCEPT ![c] = "answered"] \/ pc' = [pc EXCEPT ![c] = "reading"]
  BY <1>1 DEF TypeOK
<1>3. \A s \in swaps' : s.after \in DOMAIN trees BY <1>1 DEF FInv, TreesInv
<1>4. Onward(c) BY <1>1, <1>2, <1>3 DEF Onward, Phases, fileVars
<1>5. QED BY <1>4, OnwardPreserves

-----------------------------------------------------------------------------
\* A head is chosen while nothing of the call is on GitHub.
LEMMA AskPreserves ==
  ASSUME TypeOK, FInv, NEW c \in Calls, UNCHANGED fileVars, Ask(c)
  PROVE  FInv'
<1>1. /\ UNCHANGED <<trees, drafted, request, log, swaps, commit, issues, pushes>>
      /\ pc[c] = "idle" /\ pc' = [pc EXCEPT ![c] = "preparing"]
  BY DEF Ask, Goto, fileVars
<1>2. PICK i \in DOMAIN log : expected' = [expected EXCEPT ![c] = log[i]] BY DEF Ask
<1>3. pc \in [Calls -> Phases] /\ expected \in [Calls -> Commits] BY DEF TypeOK
<1>4. \A d \in Calls \ {c} : pc'[d] = pc[d] /\ expected'[d] = expected[d]
  BY <1>1, <1>2, <1>3
<1>5. pc'[c] = "preparing" /\ expected'[c] = log[i] BY <1>1, <1>2, <1>3
<1>6. TreesInv' BY <1>1, <1>4, <1>5 DEF FInv, TreesInv
<1>7. \A h \in DOMAIN trees : h[1] # c BY <1>1 DEF FInv, FreshInv
<1>8. FreshInv' BY <1>1, <1>4, <1>5, <1>7 DEF FInv, FreshInv
<1>9. \A d \in Calls \ {c} : Wanted(d)' = Wanted(d) BY <1>1, <1>4 DEF Wanted, DraftOn
<1>10. DraftInv' BY <1>1, <1>4, <1>5, <1>9 DEF FInv, DraftInv
<1>11. BuiltInv' BY <1>1, <1>4, <1>7, <1>9 DEF FInv, BuiltInv
<1>12. QED BY <1>6, <1>8, <1>10, <1>11 DEF FInv

\* Asking again changes neither the head nor the trees.
LEMMA AskAgainPreserves ==
  ASSUME TypeOK, FInv, NEW c \in Calls, AskAgainForFiles(c)
  PROVE  FInv'
<1>1. /\ UNCHANGED <<trees, request, log, swaps, expected, pushes>>
      /\ drafted' = [drafted EXCEPT ![c] = None]
      /\ commit' = [commit EXCEPT ![c] = None]
      /\ issues' = [issues EXCEPT ![c] = @ + 1]
      /\ pc[c] \in {"answered", "stopped"} /\ pc' = [pc EXCEPT ![c] = "preparing"]
  BY DEF AskAgainForFiles, AskAgain, Goto
<1>2. /\ pc \in [Calls -> Phases] /\ issues \in [Calls -> Nat]
      /\ commit \in [Calls -> Commits \cup {None}]
  BY DEF TypeOK
<1>3. /\ \A d \in Calls \ {c} : pc'[d] = pc[d] /\ issues'[d] = issues[d] /\ commit'[d] = commit[d]
      /\ pc'[c] = "preparing" /\ issues'[c] = issues[c] + 1
  BY <1>1, <1>2
<1>4. /\ DOMAIN drafted' = Calls
      /\ \A d \in Calls \ {c} : drafted'[d] = drafted[d]
  BY <1>1 DEF FInv, TreesInv
<1>5. TreesInv' BY <1>1, <1>3, <1>4 DEF FInv, TreesInv
<1>6. \A h \in DOMAIN trees : h[1] = c => h[2] \in Nat /\ h[2] < issues[c] + 1
  <2>1. SUFFICES ASSUME NEW h \in DOMAIN trees, h[1] = c PROVE h[2] \in Nat /\ h[2] < issues[c] + 1
    OBVIOUS
  <2>2. h \in Commits BY DEF FInv, TreesInv
  <2>3. h[2] \in Nat BY <2>2 DEF Commits
  <2>4. h[2] <= issues[c] BY <2>1 DEF FInv, FreshInv
  <2>5. QED BY <1>2, <2>3, <2>4
<1>7. FreshInv'
  <2>1. \A h \in DOMAIN trees' : h[1] = Others => h[2] <= pushes' BY <1>1 DEF FInv, FreshInv
  <2>2. ASSUME NEW d \in Calls, NEW h \in DOMAIN trees', h[1] = d
        PROVE  /\ pc'[d] # "idle" /\ h[2] <= issues'[d]
               /\ pc'[d] \in {"preparing", "rechecking", "building"} => h[2] < issues'[d]
    <3>1. CASE d # c BY <1>1, <1>3, <2>2, <3>1 DEF FInv, FreshInv
    <3>2. CASE d = c BY <1>1, <1>2, <1>3, <1>6, <2>2, <3>2
    <3>3. QED BY <3>1, <3>2
  <2>3. QED BY <2>1, <2>2 DEF FreshInv
<1>8. \A d \in Calls : Wanted(d)' = Wanted(d) BY <1>1 DEF Wanted, DraftOn
<1>9. DraftInv' BY <1>3, <1>4, <1>8 DEF FInv, DraftInv
<1>10. BuiltInv' BY <1>1, <1>8 DEF FInv, BuiltInv
<1>11. QED BY <1>5, <1>7, <1>9, <1>10 DEF FInv

\* The files are drafted against the tree of the head that was named.
LEMMA PreparePreserves ==
  ASSUME TypeOK, FInv, NEW c \in Calls, PrepareFiles(c)
  PROVE  FInv'
<1>1. /\ UNCHANGED <<trees, request, log, swaps, expected, commit, issues, pushes>>
      /\ pc[c] = "preparing"
      /\ \E p \in {"rechecking", "building", "stopped"} : pc' = [pc EXCEPT ![c] = p]
  BY DEF PrepareFiles, Prepare, Goto
<1>2. PICK p \in {"rechecking", "building", "stopped"} : pc' = [pc EXCEPT ![c] = p]
  BY <1>1
<1>3. pc \in [Calls -> Phases] BY DEF TypeOK
<1>4. pc'[c] = p /\ \A d \in Calls \ {c} : pc'[d] = pc[d] BY <1>2, <1>3
<1>5. CASE p = "stopped"
  <2>1. drafted' = drafted BY <1>4, <1>5 DEF PrepareFiles
  <2>2. Onward(c) BY <1>1, <1>2, <1>5, <2>1 DEF Onward, Phases, FInv, TreesInv
  <2>3. QED BY <2>2, OnwardPreserves
<1>6. CASE p # "stopped"
  <2>1. Wanted(c) # None /\ drafted' = [drafted EXCEPT ![c] = Wanted(c)]
    BY <1>4, <1>6 DEF PrepareFiles, Wanted
  <2>2. /\ DOMAIN drafted' = Calls /\ drafted'[c] = Wanted(c)
        /\ \A d \in Calls \ {c} : drafted'[d] = drafted[d]
    BY <2>1 DEF FInv, TreesInv
  <2>3. TreesInv' BY <1>1, <1>2, <1>4, <2>2 DEF FInv, TreesInv
  <2>4. FreshInv' BY <1>1, <1>2, <1>4 DEF FInv, FreshInv
  <2>5. \A d \in Calls : Wanted(d)' = Wanted(d) BY <1>1 DEF Wanted, DraftOn
  <2>6. DraftInv' BY <1>4, <2>1, <2>2, <2>5 DEF FInv, DraftInv
  <2>7. BuiltInv' BY <1>1, <2>5 DEF FInv, BuiltInv
  <2>8. QED BY <2>3, <2>4, <2>6, <2>7 DEF FInv
<1>7. QED BY <1>5, <1>6

-----------------------------------------------------------------------------
\* The commit is new, and its tree is the draft over the tree it was made from.
LEMMA BuildPreserves ==
  ASSUME TypeOK, FInv, NEW c \in Calls, BuildFiles(c)
  PROVE  FInv'
<1>1. /\ UNCHANGED <<request, drafted, log, swaps, expected, issues, pushes>>
      /\ pc[c] = "building"
      /\ \/ pc' = [pc EXCEPT ![c] = "ready"] /\ commit' = [commit EXCEPT ![c] = <<c, issues[c]>>]
         \/ pc' = [pc EXCEPT ![c] = "stopped"] /\ commit' = commit
  BY DEF BuildFiles, BuildObjects, Goto
<1>2. /\ pc \in [Calls -> Phases] /\ issues \in [Calls -> Nat]
      /\ commit \in [Calls -> Commits \cup {None}]
  BY DEF TypeOK
<1>3. CASE pc' = [pc EXCEPT ![c] = "stopped"] /\ commit' = commit
  <2>1. pc'[c] = "stopped" BY <1>2, <1>3
  <2>2. trees' = trees BY <2>1 DEF BuildFiles
  <2>3. Onward(c) BY <1>1, <1>3, <2>2 DEF Onward, Phases, FInv, TreesInv
  <2>4. QED BY <2>3, OnwardPreserves
<1>4. CASE pc' = [pc EXCEPT ![c] = "ready"] /\ commit' = [commit EXCEPT ![c] = <<c, issues[c]>>]
  <2> DEFINE new == <<c, issues[c]>>
             base == trees[expected[c]]
  <2>1. /\ pc'[c] = "ready" /\ commit'[c] = new
        /\ \A d \in Calls \ {c} : pc'[d] = pc[d] /\ commit'[d] = commit[d]
    BY <1>2, <1>4
  <2>2. /\ Overlaid(drafted[c], base) # base
        /\ trees' = [h \in DOMAIN trees \cup {new} |->
                       IF h = new THEN Overlaid(drafted[c], base) ELSE trees[h]]
    BY <2>1 DEF BuildFiles
  <2>3. drafted[c] = Wanted(c) /\ Wanted(c) # None BY <1>1 DEF FInv, DraftInv
  <2>4. new \in Commits /\ new[1] = c /\ new[2] = issues[c] /\ c # Others
    BY <1>2, CommitAssumption DEF Commits
  <2>5. new \notin DOMAIN trees
    <3>1. SUFFICES ASSUME new \in DOMAIN trees PROVE FALSE OBVIOUS
    <3>2. new[2] < issues[c] BY <1>1, <2>4, <3>1 DEF FInv, FreshInv
    <3>3. QED BY <1>2, <2>4, <3>2
  <2>6. /\ DOMAIN trees' = DOMAIN trees \cup {new}
        /\ trees'[new] = Overlaid(drafted[c], base)
        /\ \A h \in DOMAIN trees : trees'[h] = trees[h]
    BY <2>2, <2>5
  <2>7. \A d \in Calls : expected[d] \in DOMAIN trees BY DEF FInv, TreesInv
  <2>8. \A d \in Calls : Wanted(d)' = Wanted(d)
    BY <1>1, <2>6, <2>7 DEF Wanted, DraftOn
  <2> HIDE DEF new, base
  <2>9. TreesInv' BY <1>1, <2>1, <2>4, <2>6 DEF FInv, TreesInv
  <2>10. FreshInv'
    <3>1. \A h \in DOMAIN trees' : h[1] = Others => h[2] <= pushes'
      BY <1>1, <2>4, <2>6 DEF FInv, FreshInv
    <3>2. ASSUME NEW d \in Calls, NEW h \in DOMAIN trees', h[1] = d
          PROVE  /\ pc'[d] # "idle" /\ h[2] <= issues'[d]
                 /\ pc'[d] \in {"preparing", "rechecking", "building"} => h[2] < issues'[d]
      <4>1. CASE h = new BY <1>1, <1>2, <2>1, <2>4, <3>2, <4>1
      <4>2. CASE h # new
        <5>1. h \in DOMAIN trees BY <2>6, <3>2, <4>2
        <5>2. CASE d = c BY <1>1, <2>1, <3>2, <5>1, <5>2 DEF FInv, FreshInv
        <5>3. CASE d # c BY <1>1, <2>1, <3>2, <5>1, <5>3 DEF FInv, FreshInv
        <5>4. QED BY <5>2, <5>3
      <4>3. QED BY <4>1, <4>2
    <3>3. QED BY <3>1, <3>2 DEF FreshInv
  <2>11. DraftInv' BY <1>1, <2>1, <2>8 DEF FInv, DraftInv
  <2>12. BuiltInv'
    <3>1. SUFFICES ASSUME NEW d \in Calls, NEW h \in DOMAIN trees', h[1] = d
                   PROVE  /\ Wanted(d)' # None
                          /\ trees'[h] = Overlaid(Wanted(d)', trees'[expected'[d]])
                          /\ trees'[h] # trees'[expected'[d]]
      BY DEF BuiltInv, Overlaid
    <3>2. trees'[expected'[d]] = trees[expected[d]] BY <1>1, <2>6, <2>7
    <3>3. CASE h = new
      BY <2>2, <2>3, <2>4, <2>6, <2>8, <3>1, <3>2, <3>3 DEF base
    <3>4. CASE h # new
      <4>1. h \in DOMAIN trees BY <2>6, <3>1, <3>4
      <4>2. QED BY <2>6, <2>8, <3>1, <3>2, <4>1 DEF FInv, BuiltInv
    <3>5. QED BY <3>3, <3>4
  <2>13. QED BY <2>9, <2>10, <2>11, <2>12 DEF FInv
<1>5. QED BY <1>1, <1>3, <1>4

\* Only a swap that was sent, or a push, puts a head on the branch.
LEMMA DecidePreserves ==
  ASSUME TypeOK, FInv, NEW s \in swaps, DecideSwap(s), UNCHANGED fileVars
  PROVE  FInv'
<1>1. /\ UNCHANGED <<trees, drafted, request, pc, expected, commit, issues, pushes>>
      /\ swaps' \subseteq swaps
      /\ log' = IF Last(log) = s.before THEN Append(log, s.after) ELSE log
  BY DEF DecideSwap, fileVars
<1>2. s.after \in DOMAIN trees BY DEF FInv, TreesInv
<1>3. \A i \in DOMAIN log' : log'[i] \in DOMAIN trees
  <2>1. log \in Seq(Commits) /\ \A i \in DOMAIN log : log[i] \in DOMAIN trees
    BY DEF TypeOK, FInv, TreesInv
  <2>2. QED BY <1>1, <1>2, <2>1
<1>4. TreesInv' BY <1>1, <1>3 DEF FInv, TreesInv
<1>5. FreshInv' BY <1>1 DEF FInv, FreshInv
<1>6. \A d \in Calls : Wanted(d)' = Wanted(d) BY <1>1 DEF Wanted, DraftOn
<1>7. DraftInv' /\ BuiltInv' BY <1>1, <1>6 DEF FInv, DraftInv, BuiltInv
<1>8. QED BY <1>4, <1>5, <1>7 DEF FInv

LEMMA PushPreserves ==
  ASSUME TypeOK, LogInv, FInv, PushFiles
  PROVE  FInv'
<1> DEFINE new == <<Others, pushes + 1>>
<1>1. /\ UNCHANGED <<drafted, request, pc, expected, commit, issues, swaps>>
      /\ pushes' = pushes + 1
      /\ log' = Append(log, new)
  BY DEF PushFiles, Push
<1>2. log \in Seq(Commits) /\ pushes \in Nat BY DEF TypeOK
<1>3. Last(log') = new BY <1>1, <1>2 DEF Last
<1>4. PICK tree \in request.pushed :
        trees' = [h \in DOMAIN trees \cup {new} |-> IF h = new THEN tree ELSE trees[h]]
  BY <1>3 DEF PushFiles
<1>5. new \in Commits /\ new[1] = Others /\ new[2] = pushes + 1 /\ Others \notin Calls
  BY <1>2, CommitAssumption DEF Commits
<1>6. new \notin DOMAIN trees
  <2>1. SUFFICES ASSUME new \in DOMAIN trees PROVE FALSE OBVIOUS
  <2>2. new[2] <= pushes BY <1>5, <2>1 DEF FInv, FreshInv
  <2>3. QED BY <1>2, <1>5, <2>2
<1>7. DOMAIN trees' = DOMAIN trees \cup {new} /\ \A h \in DOMAIN trees : trees'[h] = trees[h]
  BY <1>4, <1>6
<1> HIDE DEF new
<1>8. \A i \in DOMAIN log' : log'[i] \in DOMAIN trees'
  <2>1. \A i \in DOMAIN log : log[i] \in DOMAIN trees BY DEF FInv, TreesInv
  <2>2. QED BY <1>1, <1>2, <1>7, <2>1
<1>9. TreesInv' BY <1>1, <1>5, <1>7, <1>8 DEF FInv, TreesInv
<1>10. FreshInv'
  <2>1. ASSUME NEW h \in DOMAIN trees', h[1] = Others PROVE h[2] <= pushes'
    <3>1. CASE h = new BY <1>1, <1>2, <1>5, <3>1
    <3>2. CASE h # new
      <4>1. h \in DOMAIN trees /\ h \in Commits BY <1>7, <3>2 DEF FInv, TreesInv
      <4>2. h[2] \in Nat /\ h[2] <= pushes BY <2>1, <4>1 DEF Commits, FInv, FreshInv
      <4>3. QED BY <1>1, <1>2, <4>2
    <3>3. QED BY <3>1, <3>2
  <2>2. ASSUME NEW d \in Calls, NEW h \in DOMAIN trees', h[1] = d PROVE h \in DOMAIN trees
    BY <1>5, <1>7, <2>2
  <2>3. QED BY <1>1, <2>1, <2>2 DEF FInv, FreshInv
<1>11. \A d \in Calls : expected[d] \in DOMAIN trees BY DEF FInv, TreesInv
<1>12. \A d \in Calls : Wanted(d)' = Wanted(d) BY <1>1, <1>7, <1>11 DEF Wanted, DraftOn
<1>13. DraftInv' BY <1>1, <1>12 DEF FInv, DraftInv
<1>14. BuiltInv'
  <2>1. SUFFICES ASSUME NEW d \in Calls, NEW h \in DOMAIN trees', h[1] = d
                 PROVE  /\ Wanted(d)' # None
                        /\ trees'[h] = Overlaid(Wanted(d)', trees'[expected'[d]])
                        /\ trees'[h] # trees'[expected'[d]]
    BY DEF BuiltInv, Overlaid
  <2>2. h \in DOMAIN trees BY <1>5, <1>7, <2>1
  <2>3. trees'[expected'[d]] = trees[expected[d]] /\ trees'[h] = trees[h]
    BY <1>1, <1>7, <1>11, <2>2
  <2>4. QED BY <1>12, <2>1, <2>2, <2>3 DEF FInv, BuiltInv
<1>15. QED BY <1>9, <1>10, <1>13, <1>14 DEF FInv

-----------------------------------------------------------------------------
LEMMA FInductive == IInv /\ FInv /\ [FilesNext]_allVars => FInv'
<1>1. SUFFICES ASSUME IInv, FInv, [FilesNext]_allVars PROVE FInv' OBVIOUS
<1>2. TypeOK /\ LogInv BY <1>1 DEF IInv
<1>3. request.mix \subseteq Calls BY <1>1, RequestAssumption DEF FInv, TreesInv
<1>4. ASSUME NEW c \in request.mix, PrepareFiles(c) \/ BuildFiles(c) \/ AskAgainForFiles(c)
      PROVE FInv'
  BY <1>1, <1>2, <1>3, <1>4, PreparePreserves, BuildPreserves, AskAgainPreserves
<1>5. ASSUME NEW c \in request.mix, RefStep(c), UNCHANGED fileVars PROVE FInv'
  <2>1. c \in Calls BY <1>3
  <2>2. CASE Ask(c) BY <1>1, <1>2, <1>5, <2>1, <2>2, AskPreserves
  <2>3. CASE ReadRef(c) BY <1>1, <1>2, <1>5, <2>1, <2>3, ReadRefPreserves
  <2>4. CASE \/ Recheck(c) \/ Abandon(c) \/ SendSwap(c) \/ RefuseSwap(c)
             \/ FinishSwap(c) \/ FailReadRef(c)
    BY <1>1, <1>2, <1>5, <2>1, <2>4, RefStepsGoOn, OnwardPreserves
  <2>5. QED BY <1>5, <2>2, <2>3, <2>4 DEF RefStep
<1>6. ASSUME NEW s \in swaps, DecideSwap(s), UNCHANGED fileVars PROVE FInv'
  BY <1>1, <1>2, <1>6, DecidePreserves
<1>7. CASE PushFiles BY <1>1, <1>2, <1>7, PushPreserves
<1>8. CASE UNCHANGED allVars
  <2>1. UNCHANGED <<request, trees, drafted, pc, expected, commit, log, swaps, issues, pushes>>
    BY <1>8 DEF allVars, vars, fileVars
  <2>2. \A d \in Calls : Wanted(d)' = Wanted(d) BY <2>1 DEF Wanted, DraftOn
  <2>3. TreesInv' /\ FreshInv' /\ DraftInv' /\ BuiltInv'
    BY <1>1, <2>1, <2>2 DEF FInv, TreesInv, FreshInv, DraftInv, BuiltInv
  <2>4. QED BY <2>3 DEF FInv
<1>9. QED BY <1>1, <1>4, <1>5, <1>6, <1>7, <1>8 DEF FilesNext

\* The inductive invariant: every commit has its tree before anything refers to it,
\* what a call has drafted is what its base still asks for, and what it builds is
\* that draft over that base (commit_materialized_files).
THEOREM FilesInvariance == FilesSpec => [](IInv /\ FInv)
<1>1. FilesInit => IInv /\ FInv BY InitInv, FInitially DEF FilesInit
<1>2. IInv /\ FInv /\ [FilesNext]_allVars => (IInv /\ FInv)'
  BY FilesStep, NextInv, FInductive DEF FInv, TreesInv
<1>3. QED BY <1>1, <1>2, PTL DEF FilesSpec

\* Whatever is pushed, whenever the files were read and however late GitHub decides:
\* a commit of either tool that lands is what was asked for, drafted against the tree
\* of the commit before it and laid over that tree, and changes something.
THEOREM CommitsLandAsDrafted == FilesSpec => []CommitsAreAsDrafted
<1>1. ASSUME IInv, FInv PROVE CommitsAreAsDrafted
  <2>1. SUFFICES ASSUME NEW i \in 2 .. Len(log), log[i][1] \in Calls
                 PROVE  LET before == trees[log[i - 1]]
                            files == DraftOn(log[i][1], before)
                        IN  /\ files # None
                            /\ trees[log[i]] = Overlaid(files, before)
                            /\ trees[log[i]] # before
    BY DEF CommitsAreAsDrafted
  <2>2. log[i - 1] = expected[log[i][1]] BY <1>1, <2>1 DEF IInv, CommitsFollowExpectedHead
  <2>3. i \in DOMAIN log BY <1>1, <2>1, LogFacts DEF IInv
  <2>4. log[i] \in DOMAIN trees BY <1>1, <2>3 DEF FInv, TreesInv
  <2>5. QED BY <1>1, <2>1, <2>2, <2>4 DEF FInv, BuiltInv, Wanted
<1>2. QED BY <1>1, FilesInvariance, PTL
=============================================================================
