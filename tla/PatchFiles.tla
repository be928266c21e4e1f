----------------------------- MODULE PatchFiles -----------------------------
(***************************************************************************)
(* What is in the commits of gh_commit_files and gh_patch_files            *)
(* (tools/content_writes.py, tools/patch_writes.py).  A commit has a tree; *)
(* a patch is resolved against the tree of the head the caller named, read *)
(* before the head is looked at again and the objects are created.         *)
(***************************************************************************)
EXTENDS ContentCommit, PatchEdits

CONSTANTS
  Char,            \* characters
  Requests,        \* what is asked for, and what is on GitHub
  MaxFileBytes,    \* MCP_GH_MAX_FILE_BYTES, a character being a byte
  MaxCommitBytes   \* MCP_GH_MAX_COMMIT_BYTES

\* What a tree has at a path, and an edit; the text to be replaced is not empty.
Entry == [mode : STRING, text : Seq(Char) \cup {None}]
Replacement == [old : Seq(Char) \ {<<>>}, new : Seq(Char)]

(***************************************************************************)
(* mix: the calls that are made.  root: the tree of the first head, a file *)
(* for each path in it, with its mode and its text, None if that is not    *)
(* UTF-8 text.  files: what gh_commit_files writes.  patches: those of     *)
(* gh_patch_files, for one path each.  pushed: trees of other users.       *)
(***************************************************************************)
ASSUME RequestAssumption ==
  \A r \in Requests :
    /\ r.mix \subseteq Calls
    /\ \A tree \in {r.root, r.files} \cup r.pushed :
         \A path \in DOMAIN tree : tree[path] \in Entry
    /\ \A p \in ToSet(r.patches) : p.edits \in Seq(Replacement)

VARIABLES
  request,
  trees,   \* GitHub: the tree of each commit
  drafted  \* drafted[c]: the files the call will write, or None

fileVars == <<request, trees, drafted>>
allVars == <<vars, fileVars>>

Total(texts) == FoldLeft(LAMBDA n, text : n + Len(text), 0, texts)

\* _validate_patch_request
Valid(patches) ==
  /\ \A i, j \in DOMAIN patches : patches[i].path = patches[j].path => i = j
  /\ \A p \in ToSet(patches) : \A e \in ToSet(p.edits) :
       Len(e.old) <= MaxFileBytes /\ Len(e.new) <= MaxFileBytes
  /\ MaxCommitBytes >=
       Total([i \in DOMAIN patches |->
                FlattenSeq([k \in DOMAIN patches[i].edits |->
                              patches[i].edits[k].old \o patches[i].edits[k].new])])

\* _resolve_patch_target and _read_utf8_blob: a regular or executable text file.
Target(tree, path) ==
  IF /\ path \in DOMAIN tree
     /\ tree[path].mode \in {"100644", "100755"}
     /\ tree[path].text # None
     /\ Len(tree[path].text) <= MaxFileBytes
  THEN tree[path] ELSE None

\* _resolve_all_patches, for one file.
Resolved(tree, patch) ==
  LET file == Target(tree, patch.path)
      text == Materialize(file.text, patch.edits)
  IN  IF \/ file = None
         \/ ~Accepted(file.text, patch.edits)
         \/ text = file.text \/ Len(text) > MaxFileBytes
      THEN None
      ELSE [file EXCEPT !.text = text]

Draft(patches, tree) ==
  LET files == [i \in DOMAIN patches |-> Resolved(tree, patches[i])]
  IN  IF \/ ~Valid(patches)
         \/ None \in ToSet(files)
         \/ Total([i \in DOMAIN files |-> files[i].text]) > MaxCommitBytes
      THEN None
      ELSE [p \in {patches[i].path : i \in DOMAIN files} |->
              files[CHOOSE i \in DOMAIN files : patches[i].path = p]]

\* _validate_materialized_files
Whole(files) ==
  IF /\ \A p \in DOMAIN files : Len(files[p].text) <= MaxFileBytes
     /\ Total([i \in 1 .. Cardinality(DOMAIN files) |->
                 files[SetToSeq(DOMAIN files)[i]].text]) <= MaxCommitBytes
  THEN files ELSE None

\* The files call c means to write on a tree, or None.
DraftOn(c, tree) ==
  IF c \in Patches THEN Draft(request.patches, tree) ELSE Whole(request.files)

FilesInit ==
  /\ Init
  /\ request \in Requests
  /\ trees = [h \in {Root} |-> request.root]
  /\ drafted = [c \in Calls |-> None]

-----------------------------------------------------------------------------
\* The rest of prepare_content_commit_base; a patch is resolved before it goes on.
PrepareFiles(c) ==
  /\ Prepare(c)
  /\ IF pc'[c] = "stopped" THEN UNCHANGED drafted
     ELSE LET files == DraftOn(c, trees[expected[c]])
          IN  files # None /\ drafted' = [drafted EXCEPT ![c] = files]
  /\ UNCHANGED <<request, trees>>

\* The tree that is based on another one.
Overlaid(files, tree) ==
  [p \in DOMAIN files \cup DOMAIN tree |-> IF p \in DOMAIN files THEN files[p] ELSE tree[p]]

\* A tree that is not changed ends the call.
BuildFiles(c) ==
  /\ BuildObjects(c)
  /\ LET base == trees[expected[c]]
     IN  IF pc'[c] = "stopped" THEN UNCHANGED trees
         ELSE /\ Overlaid(drafted[c], base) # base
              /\ trees' = [h \in DOMAIN trees \cup {commit'[c]} |->
                             IF h = commit'[c] THEN Overlaid(drafted[c], base) ELSE trees[h]]
  /\ UNCHANGED <<request, drafted>>

AskAgainForFiles(c) ==
  /\ AskAgain(c)
  /\ drafted' = [drafted EXCEPT ![c] = None]
  /\ UNCHANGED <<request, trees>>

PushFiles ==
  /\ Push
  /\ \E tree \in request.pushed :
       trees' = [h \in DOMAIN trees \cup {Last(log')} |-> IF h = Last(log') THEN tree ELSE trees[h]]
  /\ UNCHANGED <<request, drafted>>

\* Steps that neither read nor create files.
RefStep(c) ==
  \/ Ask(c) \/ Recheck(c) \/ Abandon(c)
  \/ SendSwap(c) \/ RefuseSwap(c) \/ FinishSwap(c) \/ ReadRef(c) \/ FailReadRef(c)

FilesNext ==
  \/ \E c \in request.mix :
       \/ PrepareFiles(c) \/ BuildFiles(c) \/ AskAgainForFiles(c)
       \/ RefStep(c) /\ UNCHANGED fileVars
  \/ \E s \in swaps : DecideSwap(s) /\ UNCHANGED fileVars
  \/ PushFiles

FilesSpec == FilesInit /\ [][FilesNext]_allVars

-----------------------------------------------------------------------------
\* What a patch must make of a tree, path by path.
IsPatched(before, after) ==
  /\ DOMAIN after = DOMAIN before
  /\ \A p \in ToSet(request.patches) :
       /\ Applicable(before[p.path].text, p.edits)
       /\ Len(after[p.path].text) <= MaxFileBytes
       /\ after[p.path] = [before[p.path] EXCEPT !.text = Edited(before[p.path].text, p.edits)]
  /\ \A path \in DOMAIN before \ {p.path : p \in ToSet(request.patches)} :
       after[path] = before[path]

(***************************************************************************)
(* "All edit matching is performed against the original file content at    *)
(* expected_head_sha, never against content produced by an earlier edit":  *)
(* a commit that a patch puts on the branch is the tree of the commit      *)
(* before it with every edit at its one place and everything else as it    *)
(* was, whoever pushed meanwhile and whenever it was read; and a patch is  *)
(* refused for its edits only if they have no such places.                 *)
(***************************************************************************)
PatchesAreExact ==
  /\ \A i \in 2 .. Len(log) :
       log[i][1] \in Patches =>
         IsPatched(trees[log[i - 1]], trees[log[i]])
  /\ \A h \in DOMAIN trees : \A p \in ToSet(request.patches) :
       Target(trees[h], p.path) # None =>
         (Accepted(trees[h][p.path].text, p.edits)
            <=> Applicable(trees[h][p.path].text, p.edits))
=============================================================================
