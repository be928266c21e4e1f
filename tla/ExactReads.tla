----------------------------- MODULE ExactReads -----------------------------
(***************************************************************************)
(* The tools that read one exact object: gh_get_ref and gh_get_commit      *)
(* (tools/git.py), gh_compare_commits (tools/compare_commits.py) and       *)
(* gh_list_repository_tree (tools/repositories.py).  GitHub answers 404    *)
(* both for what is not there and to who may not see it, and 409 for a     *)
(* repository without commits, so that a second request must tell before   *)
(* an object is called missing.                                            *)
(***************************************************************************)
EXTENDS ReadCall, PageEvidence

CONSTANTS
  Object,          \* refs or commits
  HardRecords,     \* MCP_GH_HARD_MAX_RESULTS
  CommitsMax,      \* _COMPARE_COMMIT_API_MAX
  FilesSaturated,  \* _COMPARE_FILE_API_MAX
  TreeSaturated    \* entries of a tree in one answer of GitHub

ExactTools == {"get_ref", "get_commit", "compare", "list_tree"}

(***************************************************************************)
(* present: the objects there are; empty: the repository has no commits;   *)
(* access: the caller may read it.  related: the commits have an ancestor  *)
(* in common; commits, files, longMessage: what is between them; entries:  *)
(* of the tree.  call.object: what is read, or the base; call.head.        *)
(***************************************************************************)
ASSUME ExactAssumption ==
  /\ {HardRecords, CommitsMax, FilesSaturated, TreeSaturated} \subseteq Nat \ {0}
  /\ \A s \in Scenarios :
       /\ s.present \subseteq Object
       /\ {s.empty, s.access, s.related, s.longMessage} \subseteq BOOLEAN
       /\ s.empty => s.present = {}
       /\ {s.commits, s.files, s.listing} \subseteq Nat
       /\ s.call.tool \in ExactTools => s.call.object \in Object
       /\ s.call.tool \in {"compare", "list_tree"} => s.call.perPage \in Nat \ {0}
       /\ s.call.tool = "compare" => s.call.head \in Object

VARIABLES
  present, empty, access,  \* GitHub
  targets,   \* objects the call has still to look up
  missing,   \* objects it has found missing
  absent,    \* history: objects that have not been there at some moment of the call
  regained   \* history: access was given, or given back, during the call

repositoryVars == <<present, empty, access, absent, regained>>
exactVars == <<repositoryVars, targets, missing>>

ExactInit ==
  /\ present = scenario.present /\ empty = scenario.empty /\ access = scenario.access
  /\ targets = <<call.object>> /\ missing = {}
  /\ absent = Object \ present /\ regained = FALSE

-----------------------------------------------------------------------------
(* GitHub. *)

Pushed(o) ==
  /\ o \notin present
  /\ present' = present \cup {o} /\ empty' = FALSE
  /\ Change(ExactTools)
  /\ UNCHANGED <<access, absent, regained, targets, missing>>

\* Refs are deleted; commits stay.
RefDeleted(o) ==
  /\ o \in present
  /\ present' = present \ {o} /\ absent' = absent \cup {o}
  /\ Change({"get_ref"})
  /\ UNCHANGED <<empty, access, regained, targets, missing>>

AccessChanges ==
  /\ access' = ~access /\ regained' = (regained \/ access')
  /\ Change(ExactTools)
  /\ UNCHANGED <<present, empty, absent, targets, missing>>

ExactGitHub == AccessChanges \/ \E o \in Object : Pushed(o) \/ RefDeleted(o)

-----------------------------------------------------------------------------
(* Whether an object is there. *)

\* _classify_compare_404 and the tools that read one object.
Conclude(gone) ==
  CASE call.tool = "compare" -> IF gone = {} THEN Raises ELSE Returns([missing |-> gone])
    [] call.tool = "list_tree" -> IF gone = {} THEN Then("tree") ELSE Raises
    [] OTHER -> Returns([missing |-> gone])

Found(isFound) ==
  /\ missing' = IF isFound THEN missing ELSE missing \cup {targets[1]}
  /\ targets' = Tail(targets)
  /\ IF Tail(targets) = <<>> THEN Conclude(missing') ELSE Then("lookup")

\* Mutant: a 404 says that the object is missing.
LookUpTrusting ==
  /\ pc = "lookup"
  /\ IF access /\ empty THEN Then("is_empty") /\ UNCHANGED <<targets, missing>>
     ELSE Found(access /\ targets[1] \in present)
  /\ UNCHANGED repositoryVars

\* read_exact_commit_payload: 409 to a reader of an empty repository, else 404.
LookUp ==
  /\ pc = "lookup"
  /\ CASE access /\ empty -> Then("is_empty") /\ UNCHANGED <<targets, missing>>
       [] access /\ ~empty /\ targets[1] \in present -> Found(TRUE)
       [] OTHER -> Then("probe") /\ UNCHANGED <<targets, missing>>
  /\ UNCHANGED repositoryVars

\* _confirm_contents_read_access
ProbeAccess ==
  /\ pc = "probe"
  /\ IF access THEN Found(FALSE) ELSE Raises /\ UNCHANGED <<targets, missing>>
  /\ UNCHANGED repositoryVars

\* _repository_is_empty
AskEmpty ==
  /\ pc = "is_empty"
  /\ IF access /\ empty THEN Found(FALSE) ELSE Raises /\ UNCHANGED <<targets, missing>>
  /\ UNCHANGED repositoryVars

-----------------------------------------------------------------------------
(* What is between two commits, or in a tree. *)

\* _resolve_limit, for what GitHub can be relied on for.
RecordLimit(upstream) == Min({call.perPage, HardRecords, upstream})

\* The commits say how many there are, the files do not; both are cut.
Comparison ==
  LET commits == Min({scenario.commits, RecordLimit(CommitsMax)})
      answered == Min({scenario.files, FilesSaturated})
      saturated == answered >= FilesSaturated
      fileLimit == RecordLimit(FilesSaturated - 1)
  IN  [missing |-> {}, commits |-> commits,
       commitsComplete |-> commits = scenario.commits /\ ~(scenario.longMessage /\ commits > 0),
       files |-> Min({answered, fileLimit}),
       filesTotal |-> IF saturated THEN None ELSE answered,
       filesComplete |-> ~saturated /\ answered <= fileLimit]

\* Any 404 is classified: also that of commits which are not related.
Compare ==
  /\ pc = "compare"
  /\ IF access /\ {call.object, call.head} \subseteq present /\ scenario.related
     THEN Returns(Comparison) /\ UNCHANGED <<targets, missing>>
     ELSE /\ Then("lookup")
          /\ targets' = IF call.head = call.object THEN targets ELSE <<call.object, call.head>>
          /\ UNCHANGED missing
  /\ UNCHANGED repositoryVars

\* The tree of the directory, which the walk from the root has found.
ListTree ==
  /\ pc = "tree"
  /\ LET answered == Min({scenario.listing, TreeSaturated})
         limit == Min({call.perPage, HardRecords})
     IN  IF access
         THEN Returns([missing |-> {}, entries |-> Min({answered, limit}),
                       complete |-> answered <= limit /\ scenario.listing <= TreeSaturated])
         ELSE Raises
  /\ UNCHANGED exactVars

ExactNext == LookUp \/ ProbeAccess \/ AskEmpty \/ Compare \/ ListTree
=============================================================================
