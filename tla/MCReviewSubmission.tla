------------------------- MODULE MCReviewSubmission -------------------------
(***************************************************************************)
(* A review beside a preflight: an approval in six deployments (an App, an *)
(* App whose settings name somebody else, a token of the expected          *)
(* reviewer, a reviewer who is the author, no reviewer, no permission to   *)
(* write), and a comment and a request for changes in an ordinary one.     *)
(***************************************************************************)
EXTENDS ReviewSubmission

CONSTANTS approve, comment, changes, preflight, h0, h1, bot, app, owner, author

MCSubmissions == {approve, comment, changes}
MCPreflights == {preflight}
MCAction ==
  [c \in MCSubmissions |->
     CASE c = approve -> "approve" [] c = comment -> "comment" [] c = changes -> "request_changes"]
MCExpectedHead == [c \in MCSubmissions \cup MCPreflights |-> h0]
MCExpectedLogin == [c \in MCSubmissions |-> IF c = comment THEN None ELSE bot]
MCHeads == {h0, h1}
MCLogins == {bot, app, owner, author}

App ==
  [calls |-> {approve, preflight}, author |-> author, ordinary |-> owner, allowed |-> TRUE,
   kind |-> "github_app", configured |-> bot, viewer |-> bot]
MCDeployments ==
  {App,
   [App EXCEPT !.viewer = app],
   [App EXCEPT !.kind = "static_token", !.configured = None],
   [App EXCEPT !.author = bot],
   [App EXCEPT !.kind = None, !.configured = None, !.viewer = None],
   [App EXCEPT !.allowed = FALSE],
   [App EXCEPT !.calls = {comment, preflight}],
   [App EXCEPT !.calls = {changes, preflight}, !.author = owner]}
=============================================================================
