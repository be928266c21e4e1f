-------------------------- MODULE MCContentCommit --------------------------
(***************************************************************************)
(* A complete-content commit and a patch race for one branch to which      *)
(* another user pushes once; each may be asked for twice.  Patches of many *)
(* kinds run alone, against one push.                                      *)
(***************************************************************************)
EXTENDS PatchFiles

CONSTANTS commit_files, patch_files

MCCalls == {commit_files, patch_files}
MCPatches == {patch_files}

File(text) == [mode |-> "100644", text |-> text]
At(a, b) == [p \in {1, 2} |-> IF p = 1 THEN a ELSE b]
Edit(old, new) == [old |-> old, new |-> new]
Patch(path, edits) == [path |-> path, edits |-> edits]

\* a b a b, and beside it a file that nobody patches.
Race ==
  [mix |-> {commit_files, patch_files}, root |-> At(File(<<"a", "b", "c">>), File(<<"c">>)),
   files |-> [p \in {2} |-> File(<<"b">>)],
   patches |-> <<Patch(1, <<Edit(<<"b">>, <<"c", "c">>), Edit(<<"a">>, <<>>)>>)>>,
   pushed |-> {At(File(<<"a", "b">>), File(<<"a">>))}]

\* One file under every pair of edits from a pool.
Pool ==
  {Edit(o, n) : o \in {<<"a">>, <<"b">>, <<"a", "b">>, <<"b", "a">>, <<"a", "a">>, <<"b", "c">>},
                n \in {<<>>, <<"a", "b">>}}
Texts == {<<"a", "a", "b">>, <<"a", "a", "a">>, <<"a", "b", "c">>, <<"c", "b", "a", "a">>}
Alone(text, patches) ==
  [Race EXCEPT !.mix = {patch_files}, !.root[1].text = text, !.patches = patches]

OneFile == {Alone(t, <<Patch(1, <<e, f>>)>>) : t \in Texts, e \in Pool, f \in Pool}

\* Two files, one of them special, too long, or missing; too much text in all.
ToC(path) == Patch(path, <<Edit(<<"a">>, <<"c">>)>>)
TwoFiles ==
  {[Alone(<<"a">>, <<ToC(1), ToC(p)>>) EXCEPT !.root[2] = f] :
     p \in 1 .. 3,
     f \in {File(<<"a">>), File(None), File(<<"a", "b", "b", "b", "b">>),
            [File(<<"a">>) EXCEPT !.mode = "100755"], [File(<<"a">>) EXCEPT !.mode = "120000"],
            File(<<"a", "b", "b", "b">>)}}
  \cup {Alone(<<"a", "b", "b">>, <<Patch(1, <<Edit(<<"a">>, <<"a", "a">>)>>),
                                   Patch(2, <<Edit(<<"c">>, <<"a", "a", "a">>)>>)>>),
        Alone(<<"a">>, <<Patch(1, <<Edit(<<"a">>, <<"b", "b", "b", "b", "b">>)>>)>>)}

\* Whole files, one of them too long.
Long == [Race EXCEPT !.mix = {commit_files}, !.files[2].text = <<"a", "a", "a", "a", "a">>]

MCRequests == {Race, Long} \cup OneFile \cup TwoFiles
=============================================================================
