# A formal model of the GitHub MCP server

The server in `src/` gives an MCP client some forty tools over the `gh` command
line: reads of a repository, and "exact" writes that check a precondition, mutate
once, read the state back and report a tri-state outcome. Nothing is persisted:
all of its state lives in one asyncio process, and the truth lives on GitHub,
behind a subprocess that can be killed, a network that can lose an answer, and
reads that may lag behind writes. This directory holds TLA+ models of the parts
where that matters, TLC configurations that check them, and proofs for TLAPS.

Paths below are relative to `src/src/mcp_gh_server/`.

## 1. The system

### Components

| Component | State it keeps | Operations | Modelled in |
| --- | --- | --- | --- |
| Request governor (`request_governor.py`) | one `asyncio.Lock`, end of the last write (monotonic clock), end of the cooldown (wall clock) | `execute()`: pacing, retries, backoff, cooldown; `rate_status()` | `RequestPort`, `Governor`, `GovernorProofs` |
| gh client (`gh_client.py`) | the running `gh` processes | classify a command, run it under the governor, classify how it ended | `GhAttempt`, `WriteContractProofs` (endings), `LogReads` (streams); classification of commands not |
| Write contract (`write_contracts.py`) | none between calls | `require_write_precondition`, `execute_write_readback`, `make_write_outcome` | `GhAttempt` (the tri-state outcome), `WriteContract`, `WriteContractProofs` |
| Content and patch commits (`content_commit_service.py`, `tools/content_writes.py`, `tools/patch_writes.py`) | none between calls | prepare a base, build blobs, tree and commit, swap the ref, reconcile; match the edits of a patch | `ContentCommit`, `ContentCommitProofs`, `PatchEdits`, `PatchFiles` |
| Workflow dispatch (`tools/workflow_dispatch.py`) | a process-wide lock and the dictionary of reservations | reconcile a reservation, duplicate gate, POST, receipt, readback | `WorkflowDispatch`, `WorkflowDispatchProofs` |
| Pull-request writes (`tools/pr_writes.py`, `tools/pr_draft_state.py`) | none | create, edit, merge, draft state | `ExactCall`, `PullRequestWrites`, `MetadataWrites`, `ExactWrites`, `ExactWritesProofs`; as instances of `WriteContract` |
| Review submission (`tools/pr_review_writes.py`, `tools/pr_review_eligibility.py`, `reviewer_auth.py`) | none; a second principal with a fresh governor for each review | eligibility, two head checks around token minting, review POST, readback | `ReviewSubmission`, `ReviewSubmissionProofs` |
| Other exact writes (`tools/release_exact.py`, `issue_state.py`, `git_writes.py`, `issue_branch_writes.py`, `issue_writes.py`, `repository_create.py`) | none | guarded and unguarded sets and creates | `ExactCall`, `BranchWrites`, `ReleaseWrites`, `MetadataWrites`, `ExactWrites`, `ExactWritesProofs`; as instances of `WriteContract` |
| Merge requirements (`tools/merge_requirements.py`, `merge_requirements_policy.py`, `required_check_evidence.py`) | none | policy, checks, reviews and freshness of one pull request, read one after the other | `MergePolicy`, `MergeRequirements`, `MergeRequirementsProofs` |
| Pull-request reads (`tools/pull_requests.py`, `tools/pr_reviews.py`) | none | diff, files, commits, reviews, threads and checks of one base and head | `PullRequestReads`, `PagedReads`, `ReadToolsProofs`; checks and the review state in `MergeRequirements` |
| Bounded evidence and logs (`evidence.py`, `action_log_evidence.py`, `binary_evidence.py`, `tools/action_logs.py`, `tools/artifacts.py`, `tools/artifact_content.py`) | the selection of a stream in progress | select, page and cap lines of a streamed log or archive | `LogEvidence`, `PageEvidence`, `WorkflowRuns`, `LogReads`, `RunLists`, `ArchiveReads`, `ReadTools`, `ReadToolsProofs` |
| Workflow runs (`tools/actions.py`) | none | list, inspect, `gh_watch_run` polling | `WorkflowRuns`, `RunLists`, `RunWatch`, `LogReads`, `ReadTools`, `ReadToolsProofs` |
| Diagnostics (`tools/diagnostics.py`) | the cached rate-status reply | rate status, runtime info | `RateDiagnostics`, `GovernorProofs` |
| Comparisons, trees, repositories, issues, discovery (`tools/git.py`, `tools/compare_commits.py`, `tools/repositories.py`, `tools/issues.py`, `tools/discovery.py`) | none | one exact object, what lies between two commits, a list or a search | `ExactReads`, `PagedReads`, `ReadToolsProofs`; single reads by number and projections not |
| Access policy, settings (`tooling.py`, `settings.py`, `workflow_selector.py`) | configuration read once | membership tests | not modelled: pure |
| Models, schemas, serialization, server start-up | none | declarations; transport of the MCP library | not modelled |

### How they interact

```
tools --> write contract / commit service / dispatch --> gh client --> governor --> gh --> GitHub
```

Every tool awaits the gh client; the gh client hands its operation to the one
governor, which holds its lock across pacing, the operation, retries and backoff.
Between two requests of one tool the lock is free: every other tool of the
process, and everybody else on GitHub, may act there. Tools share no other state
except the dispatch reservations and the rate-status cache, whose lock is held across a
request to the governor. Review submission is
the exception to "one governor": it builds one for each review.

### What is hard

- **Interleaving**: tools are coroutines; each `await` is a point where others run
  and where a call may be cancelled.
- **Lost and late answers**: a `gh` process killed at its timeout has said nothing
  about its mutation, which GitHub may decide later still.
- **Stale reads**: the ref, the run list and the counts lag behind what happened.
- **Streams**: a log is selected from chunks that cut markers and characters
  anywhere, and a stream that fails has already fed its sink.
- **Two clocks**: pacing uses the monotonic clock, cooldowns the wall clock.
- **A moving target**: heads, refs and policies move between two reads of one tool.
- **Restart**: reservations are in memory only.

`PROJECT.json` lists each hazard at its line, with the properties that would catch it.

## 2. The modules

`MC*.tla` and `*.cfg` instantiate a specification for TLC; `*Proofs.tla` hold
theorems. `None` is Python's `None`; "yes", "no", "unknown" are True, False, None
of the tri-state fields. An action is the code from one await to the next. In
each module a definition called "Mutant" is a plausible bug that a property of
the module must catch; no specification uses it.

**`RequestPort`** is the abstract specification of the governor: each call is
pending, flying or answered; one flies at a time; a write flies only a spacing
after every earlier write ended; nothing flies while a cooldown is owed; a call is
sent no more often than its budget.

**`Governor`** is `GitHubRequestGovernor`. One action for each stretch of
`execute()` between awaits: `Arrive` (queue for the lock), `Enter`/`Refuse` (lock
granted; cooldown expired or not), `WakeAfterPacing`, `Succeed`, `Fail`,
`FailRateLimited`, `Abort` (cancelled in flight), `WakeAfterBackoff`,
`CancelSleeping`, `CancelWaiting`, and `RateStatus` from outside the lock. `Tick`
moves both clocks, `StepWall` only the wall clock. `owed`, `endedAt` and `sends`
are history: what GitHub asked for and what was really sent.

**`RateDiagnostics`** extends `Governor` by `gh_get_api_rate_status`: a lock of its
own and a cached observation. A diagnostic asks (`Call`), looks at the entry and the
cooldown when it gets the lock of the cache, answers from the entry (`AnswerLocally`)
or asks the governor while it keeps that lock (`Request`), and ends with a new entry
(`Observe`), with what a refusal's headers say (`Throttled`), because a cooldown
began meanwhile (`Refused`), with an error, or cancelled in either queue. Its
request is a read of the governor that is sent once.

**`GhAttempt`** is the end of one `gh` process: every combination of exit,
status, headers, markers and body (`Reply`), the verdict `_run_once` makes of it
(`Verdict`: failed, retryable, ambiguous, rate limited) and what GitHub may have
done (`Fates`), and the tri-state outcome that the writes make of a verdict.

**`WriteContract`** is `execute_write_readback` for any set of concurrent writes
on one resource: guarded or not, setting a value or creating an object, through
`gh api` or a subcommand. The governor's lock is `inFlight`. A mutation whose
process died stays in `live` until GitHub applies it (`Apply`), or never.
The caller follows the warnings: it asks again only for a write reported failed
whose state does not match. Other users edit the resource (`Edit`).

**`ContentCommit`** is `gh_commit_files` and `gh_patch_files`. A branch is the log
of its heads. `Prepare`, `Recheck` and `BuildObjects` are the long stretch before
the compare-and-swap, `SendSwap`/`FinishSwap`/`DecideSwap` the swap, whose decision
may come after its process died, `ReadRef` the bounded reconciliation on reads that
lag. The caller is the worst possible: it asks again for the same change on the
same head whatever it was told. **`PatchFiles`** extends it by what is in the commits: each
has a tree, a patch is resolved against the tree of the head it names before the
head is looked at again, and other users push trees of their own. What a patch makes
of one file is **`PatchEdits`**: the places of the old texts and the assembly with a
cursor as the code does them, and beside them `Applicable` and `Edited`, which say
the same of each character of the original.

**`WorkflowDispatch`** is `gh_run_workflow_exact` for one duplicate identity: the
lock, the reservation, the reconciliation of an earlier call's reservation, the
three counts of the duplicate gate, the ref and workflow checks, the POST with its
receipt, the readback by run ID or by list, cancellation at any await, and a
restart. Around it runs are created, completed, listed late and deleted by anyone,
and the ref moves.

**`MergePolicy`** is the pure part of `merge_requirements_policy.py`: a rule as
GitHub sends it (`Rule`), what is made of it (`Normalize`, `Layered`), and the
policy of all of them or `None` for one that is not understood (`Effective`).
`CoversRule` and `CoversClassic` say, without looking at that code, what it means
that a policy takes one requirement into account.

**`MergeRequirements`** is one call of `gh_get_merge_requirements`, an action for
each request and what the call does with its reply: the identity, the page of rules
and its probe, the branch, its protection and the probe for an administrator, the
merge methods, the checks between two looks at the identity, the pages of pinned
checks, the comparison with the base, the reviews, the reviewers asked for and the
threads between two more looks, and the last look (`ReadFinal`), where the answer
is assembled (`Assembled`). Any request may fail (`RequestFails`) and leave its
evidence incomplete, and the call may raise. Between two requests rules and
protections come and go, heads are pushed, the base moves, checks run again and
conclude, reviews are submitted. `seen` is every state of the pull request
since the call began, against which the answer is judged.

**`ReviewSubmission`** is the three review tools, one action for each request: the
pull request, the ordinary identity or the reviewer as the settings name it, the
installation token, whose token it is (`ProveActor`), the pull request again
(`VerifyHead`), the review, its readback by id. Beside them runs the preflight
(`PreflightIdentity` to `PreflightVerify`), which decides the same things by code of
its own. A deployment says who the author is, whether writes are allowed, what
the settings claim of the reviewer and whom its credential really is. Heads are
pushed, the credential stops working, reviews are dismissed, and another program
submits the same review. `Contract` maps each submission to `WriteContract`: a
guarded create whose check is the last look at the head, so that what is proved
there holds of reviews.

**`LogEvidence`** is the selection of bounded text from a log: an accumulator that is
fed chunk by chunk (`AddText`, `Finish`), the incremental UTF-8 decoding, and the
reference `Selection`, which looks at the whole text at once. **`PageEvidence`** says
of a page of a list whether more follows and whether it is less than it should be.

**`WorkflowRuns`** is a workflow run on GitHub that goes on while it is read: jobs are
queued and completed, the run completes, a rerun adds an attempt. On it act, one
action for each request, the tools that read logs (**`LogReads`**: a look at the
identity, the pages of the jobs, the logs in chunks of every size, a second look),
those that list (**`RunLists`**: runs, jobs and artifacts, page after page for as long
as the caller is told that there is more), `gh_watch_run` (**`RunWatch`**: poll, sleep,
deadline) and those that open an artifact's archive (**`ArchiveReads`**: the stream with
its headers, the inspection of the entries, against the reference `IsFileTree`).

**`ReadCall`** is what one call of a read tool is whatever the tool: the request it makes
next, how it ends, and a bound on what happens on GitHub meanwhile. **`PagedReads`** adds
a list that grows and shrinks, a caller who goes through its pages with one call for
each, the lists that are read once up to a limit, and the searches whose matches are
counted by a second request. On it stand `RunLists` and **`PullRequestReads`**, where
the pair of base and head moves and the tools look at it before (`LookFirst`) and after
(`ListPullFiles` to `GetThread`) what they read by number. **`ExactReads`** is a
repository of objects that are pushed and deleted and that the caller may or may not
see: a 404 or a 409 (`LookUp`) is followed by the request that tells what it means
(`ProbeAccess`, `AskEmpty`), and a comparison or a tree is cut where GitHub cuts it.
**`ReadTools`** composes all of them: one call of any of these tools.

**`ExactCall`** is what one call of an exact write tool does whatever the tool:
check, send, be refused, end, read back, answer, with GitHub's late decisions and
changes by others. **`PullRequestWrites`** (merge, review, draft state),
**`BranchWrites`** (a branch from a commit, one for an issue), **`ReleaseWrites`** (the
pages in which the release of a tag is looked for, before and after) and
**`MetadataWrites`** (issues, milestones, labels, repositories) give each tool its own
reads, comparisons and effects, and **`ExactWrites`** composes them. What an object is
marked with is a value; a caller spells it as GitHub does or otherwise (`Mark`), GitHub
takes it in any spelling (`Meant`), and the tools compare the spelling, except of a
colour and of the name of a repository (`Reads`). `WriteContract`
says what the shared routine promises of a bare value when several calls race;
`ExactWrites` says what the tools make of it on real objects, one call at a time.

### Plan

Done, in this order: `RequestPort`, `Governor`, `GhAttempt`,
`WriteContract`, `ContentCommit`, `WorkflowDispatch`, `MergePolicy`,
`MergeRequirements`, `ReviewSubmission`; then the read tools (`ReadCall`, `LogEvidence`
and the others that `ReadTools` composes), `RateDiagnostics`, the exact writes
(`ExactCall` to `ExactWrites`), and the files of patches (`PatchEdits`, `PatchFiles`).
Left:

1. A proof that the matching of patches is what its reference says.
2. `CommandKind`, the classification of a command as a read or a write
   (`_infer_request_kind`, `_api_method`), which matters to the governor and is a pure
   function of the words of a command.
3. What `ExactReads` leaves out: the peeling of annotated tags, the walk of
   `gh_list_repository_tree` from the root to its directory, and
   `gh_get_file_contents`.

## 3. What TLC checks

| Run | Instance | Distinct states | What it shows |
| --- | --- | --- | --- |
| `governor` | 2 writes, a retry-safe read, a read sent once; spacing 2, 3 read attempts, resets in the past and future, wall clock one tick off or not | 128,632 | mutual exclusion and spacing of writes, no send under a cooldown, refinement of `RequestPort`, every call answered; with two diagnostics beside them: refreshes are spaced, every diagnostic ends |
| `write_contract` | a guarded set, a blind set through a subcommand, a guarded create; each asked for twice, one foreign edit | 1,601,572 | outcomes are true, nothing is applied twice, a guarded write lands on the state it checked |
| `content_commit` | a commit and a patch, each asked for twice, one foreign push, 3 ref reads; some six hundred patches of one and two files, each beside one push | 1,003,792 | commits land on their expected head, once; verdicts on the ref are final; a patch changes exactly what its edits say |
| `workflow_dispatch` | 2 calls, 3 run IDs, counts that saturate at 2, one move of the ref, restarts | 1,825,310 | no dispatch beside a pending one, only runs listed after the count slip in, no old run is reported |
| `merge_requirements` | six pull requests, each with one part that matters; at most 3 results, pages of 2, two changes on GitHub, one failed request | 222,210 | a complete policy covers what held all through the call; no failing check is hidden, no pinned check is called missing that was there; reviews called satisfied were |
| `review_submission` | an approval beside a preflight in six deployments, a comment and a request for changes in one each; asked for twice, two pushes | 1,026,394 | a review is sent by whom the caller expects, for a head seen after that was proven; it verifies its own review; the preflight agrees with the tools; refinement of `WriteContract` |
| `read_tools` | one call: every log of up to five characters under some twenty selections in chunks of up to 3 bytes; a run of two attempts and up to five jobs that goes on; lists of up to four; archives of up to three entries; a pull request of two bases and two heads; two objects, there or not, seen or not | 137,872 | chunks cannot be told from the result; log evidence is whole and final; evidence is of the attempt, base and head it names; complete evidence misses nothing, at the limits either, and what is called missing was; an archive is a tree of files; a watch ends |
| `exact_writes` | one call of each of twelve tools in 46 situations, with marks in two spellings, three changes by others, releases on two pages of two | 434,676 | what the caller is told is true, now and later; an undisturbed write is reported as done exactly if its tool can compare what GitHub makes of it |
| `governor_cooldown`, `write_garbled`, `dispatch_moved`, `merge_moved` | the same instances | | the four findings of section 5 |

**Why these bounds are enough to be interesting.** Spacing 2 lets a write arrive
before, at and after the spacing of the previous one; three read attempts separate
first, middle and last; four calls make a queue with a waiter that is cancelled
from its middle. Two issues of one write make the late decision of the first race
with the whole of the second. With a second commit and one push a branch leaves
the expected head and can never return to it, since every SHA is new; three reads
separate first, middle and last. Three runs are one more than a saturated
count of two can tell apart, so equal counts of different runs happen. Pages of
two under a maximum of three make a page that is full, one that is cut to one item
by the maximum, and a list that goes on behind it; two changes let a head go and
come back, or a rule come and another go. The six pull requests of
`MCMergeRequirements` are pinned checks run twice by two workflows, checks on two
pages, classic protection with legacy contexts, protection the caller may not see,
reviews under two rules, and an approval a push has dismissed; every requirement
kind, flag and state occurs in one of them. Two pushes let the head of a review
leave the expected commit and come back between its two looks; one submission at a
time is enough there because submissions share nothing but the pull request, where
`ReviewElsewhere` stands for any other.
Markers of three characters against chunks of up to three bytes are cut at every
place, and so are characters of two bytes; the hard limit of five bytes is met by the
logs of two jobs. Pages of two, a run with one job more than fits and lists that grow by
one make a list that ends with a page, one that goes on, and one that grows past it
between two requests. Three changes let a job end, the run complete and a rerun
begin within one call, or a pull request leave a pair of commits and come back. Four such
pairs, with 3, 2, 1 and no files, let base and head move alone and together and change
the page that is read. Limits of three commits and four files or entries are met from
both sides by lists of up to five. Two pages of two releases with one release more, or none, tell the end of the
list from the end of what is read. Two edits on up to four characters meet, touch,
overlap, repeat, and match what the other one wrote; files of four and commits of six characters
lie on both sides of their limits. Two diagnostics and two other calls make one wait for the cache
while the other waits for the governor.
`MaxTime`, `MaxIssues`, `MaxEdits`, `MaxPushes`, `MaxMoves`, `MaxFaults`, `MaxAttempts` and the
`changes` of a scenario only keep the state space finite and stand in guards; the theorems hold for all of their values.
Each property of a passing run is paired in `PROJECT.json` with a mutant of a
translated definition that breaks it. Deadlock is not checked: every instance ends
when its calls are answered.

**Fairness** is assumed of the governor, of the diagnostics and of the watch only: a
granted task (one that has got the governor's lock or that of the cache), a due sleep
and a running `gh` process make progress (the event loop runs ready tasks; a process
is killed at its timeout), and time passes while somebody sleeps. Nothing is assumed
of callers, of other users, or of late decisions.

## 4. What is proved

For every value of the constants (any calls, retries, pushes, clocks and policies
that meet the named assumptions).

- **`GovernorProofs`**: `TypeCorrect`, `Invariance`, `WriteSpacing`,
  `CooldownRespected`, `GovernorImplementsPort`. The inductive invariant adds to the types: a
  call holds the lock exactly while it paces, sends or backs off (`LockInv`); the
  holder has no stored cooldown (`UnblockedInv`), since a rate-limited failure
  releases the lock without a retry; every owed cooldown lies at or before the
  stored one (`OwedInv`), which is why checking once per call is enough although
  `rate_status()` clears it at any time; the end of every write is at or before
  the recorded one (`StampInv`), and a pacing sleep ends no earlier than the
  spacing after it (`PacingInv`); sends never exceed attempts (`AttemptInv`).
- **`WriteContractProofs`**: `AttemptIsTruthful`, `TypeCorrect`, `Invariance`, `Truthful`,
  `AtMostOnce`, `LandsOnChecked`. A write not called failed was applied; one called failed and
  not ambiguous was rejected, or confirmed by a reply gh could not make readable
  (`AttemptIsTruthful`, of `GhAttempt`; the other proofs of writes rest on it too). A call is unsent, in flight or settled, and in each stage
  the invariant bounds how often GitHub has applied it and whether it still may;
  "known failed" means it never will. Asking again needs a reported failure, so
  nothing of the earlier issue is left to land.
- **`ContentCommitProofs`**: `TypeCorrect`, `Invariance`, `FollowsExpectedHead`,
  `LandsOnce`, `VerdictsStay`. The key fact is that the log of a branch repeats no
  head. Two commits of one call would both have to follow the same head; and once
  a head past the base has been read, the only head the swap could land on is
  behind the branch for good.
- **`ContentCommitProofs`**, of `PatchFiles`: `FilesImplementCommits`, `FilesInvariance`,
  `CommitsLandAsDrafted`. With their files the tools take no step that
  `ContentCommit` does not have, so the theorems above hold of `FilesSpec` too. A
  commit that lands is the draft for the tree of the commit before it, laid over
  that tree, and changes something. A commit has its tree before anything refers to
  it (`TreesInv`) and never another (`FreshInv`: it is new when it is built), so
  that a draft stays right for its base (`DraftInv`) and so does what is built from
  it (`BuiltInv`); `CommitsFollowExpectedHead` says that the base is the commit before.
- **`GovernorProofs`**, of `RateDiagnostics`: `DiagnosticsInvariance`, `RefreshSpacing`. The age of
  the entry is read before the wait for the governor. It stays good because the
  lock of the cache is held by exactly the diagnostic that asks (`CacheLockInv`,
  `FlightInv`): meanwhile nobody replaces the entry, and on the monotonic clock it only
  grows older (`OldInv`); an observation is never later than the entry (`ShownInv`).
- **`WorkflowDispatchProofs`**: `TypeCorrect`, `Invariance`, `NeverTwice`,
  `OnlyNewcomers`, `ReportsNewRuns`. The invariant follows a POST from the reservation
  made before it to the call that releases it. A call that has sent its POST makes one
  run at most (`PostInv`), and what the holder of the lock knows of its own is so
  (`ReceiptInv`, `ReservationInv`). A dispatch that is pending is the holder's, or it is
  reserved, under its own run if the run is known, and then no call stands where
  it has been cleared to dispatch (`PendingInv`): a call is cleared by finding no
  reservation, by reading that the reserved run is over, or by finding it deleted and
  the counts equal, and a deleted run stays deleted while they are taken. Beside
  it the counts: what matches now is at most what the second count saw and the
  newcomers since, so that when the completed runs are as many as that count, only
  newcomers are active (`CountInv`, by the cardinality of a disjoint union).
- **`ReviewSubmissionProofs`**: `TypeCorrect`, `Invariance`, `VerifiesOwn`, `PreflightHonest`,
  `SentByActor`, `Implements`. The chain of requests is folded into what a request comes to
  (`Checks`: refused for a right reason, on to the next, proven, or through) and what a
  call knows before each (`Knows`): the deployment never changes, so what was found of it
  stays so, from the settings' word of the reviewer to the token's own; of the head only the
  last look counts, and it lies among the heads since (`HeadInv`). A call holds the id
  of a review of its own only, and its reviews stay what it asked for (`OwnInv`), so a
  readback cannot verify another's. The preflight finds the reviewer the tools will find or
  none (`Found`), which is why the two agree although they decide apart. `Implements`
  is the refinement of `WriteContract`: the requests before a review are one
  precondition, the reviews of a call are what GitHub applied, and what others do is a
  stutter or an edit; so `Truthful`, `AtMostOnce` and `LandsOnChecked` hold of reviews.
- **`MergeRequirementsProofs`**: `EffectiveCovers`, `TypeCorrect`, `Invariance`,
  `PolicyCovers`; `EvidenceInvariance`, `NoFailureHidden`, `MissingWasMissing`,
  `SatisfiedStood`. `EffectiveCovers` is about the composition alone: layering any
  number of rules and a protection loses none of them. The invariant carries that
  through the reading: a requirement that has held since the call began is among the
  rules read (`RulesInv`); behind a full page the rules it showed still lead the
  list, since new ones are appended, so that a probe that finds nothing has seen
  the end (`ProbeInv`); a 404 on the protection meant that there was none, or that
  the caller may not see it, and permissions do not change in between
  (`AdminInv`), so that a 404 an administrator gets is absence at that moment. It
  fails when a rule goes between a full page and its probe, which is `shifted`.

  `EvidenceInv` does the same for checks and reviews. While pages of runs are read,
  every place of the expected head that a page has shown is answered for in what is kept:
  by a newer run of its row, or by one as new and no better, unless the check was not
  needed at some time (`PagesInv`). It survives reruns and conclusions between pages
  because runs are only added behind the others and a success is never taken back
  (`MovesKeepPages`), and a page with room for what is left has shown the last place
  because `k` places have rank at most `k` (`LeadingCount`, counted up by a least
  counterexample; `PageFacts`). A page of another head only makes `matches` false, and
  nothing is established. Reviews and threads that were not truncated are those of one
  moment (`ReviewsReadInv`, `ThreadsReadInv`); the two moments may differ.

- **`ExactWritesProofs`**: `Invariance`, `TypeCorrect`, `AnswersTrue`,
  `UndisturbedVerified`. A mutation is out only between its sending and its
  application, so that a failure that is neither ambiguous nor garbled excludes any later
  effect, and an identity that GitHub returned is that of the effect (`StageInv`,
  `OutcomeInv`, with `AttemptIsTruthful` for the ends of gh; the errors of a GraphQL
  answer add only unknown outcomes). `AnswerInv` is what each answer rests on. For an
  undisturbed call the guards read before the write still hold when it lands
  (`GuardInv`), so the objects are as its mutation makes them
  (`MadeInv`, by `EffectIsMade`, tool by tool), which the tool's comparison accepts unless it
  is one of the `Incomparable` (`LandedIsCompared` for marks); and a readback without failures finds it,
  the release as the first one of its tag on the first page, because new releases are
  listed first (`SmoothInv`, `NewestIsFirst`).

- **`ReadToolsProofs`**: `TypeOKInvariant`, `NothingIsMissedInvariant`,
  `EvidenceIsPinnedInvariant`, `ArchiveIsTreeInvariant`,
  `SelectionMatchesWholeInvariant`, `LogsAreWholeAndFinalInvariant`. Which requests a tool may make (`RequestOfTool`) splits
  `Next` into one step for each group of tools (`StepByTool`), and each part of the state
  has an invariant of its own (`RunSound`, `ListSound`, `LogSound`, `ArchiveSound`, ...).
  `ListCovers` is why a caller who goes on misses nothing: what was there at first is
  collected, on the page just read, or behind it. Additions come last or first and push
  nothing over a page that was read; a full page whose end lies below the count has the
  rest behind it. Jobs do the same for the list of the attempt that was pinned
  (`JobsCover`). The pages of one base and head are its first records (`PullsCover`),
  unless the pair came back. What is called missing was missing or hidden when a 404 came,
  and a probe that sees the repository rules out the second (`AbsenceSound`). `JobsPinned`
  and `PullsPinned` follow what was read to the second look that releases it. The loop over
  an archive holds exactly what the entries so far are (`Reflects`); so an entry passes its
  tests if and only if the tree is still one with it (`FitsIfTree`, `TreeIfFits`), whatever
  the order, and accepting it keeps that (`ReflectsAfter`, `EntriesInspected`).

  The accumulator of a log holds, after any chunks, what is selected of their concatenation
  (`Selecting`, kept by `AddTextSelects`): before the start marker as much of the end of the
  text as may begin it, behind it all text (`Consumed`) in a collector that has taken the
  longest prefix that fits (`Collected`). A marker across two chunks is found because the
  first occurrence in a text is the first in its last characters when there is none before
  (`FirstAcross`); the last bytes of the last bytes and more are those of the whole
  (`LastOfConcat`); and a prefix that is cut by bytes, hence perhaps within a character, can
  be taken piece by piece, since an encoding can only be cut apart at its characters
  (`EncodeAligned`, `PrefixAcross`).

  While logs are streamed, what is shown is all of the logs that have been read, joined,
  and a beginning of the one that is being read; the bytes still to come are the encoding
  of the rest of its characters and perhaps of a beginning of one more (`LogsRead`,
  `Streamed`, kept by `OpenReads`, `ChunkReads` and `EndReads`). A chunk may end within a
  character, and its bytes are then held back (`StreamCuts`, `CompleteIs`). Before the
  first log nothing is shown, and the pages of the jobs make up the list of the attempt, which is
  completed and so stays as it is (`ListedSoFar`, `NextPage`, `ListedStays`); behind the last
  log it is all there, whatever GitHub does, since a job that is completed stays so and a
  rerun touches no attempt that is (`RunSettled`, `FinalStays`). The whole is `LogWhole`.

  The operators of these modules fold over sequences. What such a fold yields is proved for
  sequences of any length by an induction over sets: a set of numbers that has 0 and with n
  also n + 1 has them all (`NatSetInduction`, by the finiteness of an interval), hence the
  same for sequences that grow at the end (`SeqSetInduction`), and a function defined on
  0..n by recursion exists and is the only one (`RecursionExists`, `RecursionUnique`).
  `KeepOnlyElements`, `SortedElements`, `FlattenElements` and the like rest on these.

**Only model-checked.** `EveryCallIsAnswered`, `EveryDiagnosticEnds` and `WatchEnds`: liveness
is out of the prover's reach. `PatchesAreExact`, whose matching and assembly of edits folds
over the edits (what is proved holds for whatever a draft is): it is a statement about what
long recursive definitions compute, each an induction of its own.

**Assumptions the results rest on.** A write never is retry-safe (`execute()`
rejects it). `gh` exits non-zero on an error status; a rate limit, a client error
and a GraphQL error body mean that GitHub rejected the mutation; writes expect exit
code 0 only. The readback of `WriteContract` is current; that of `ContentCommit`
lags, but never behind what the same call has read; that of `WorkflowDispatch`
lags without bound for lists and not at all by run ID, and its constants are told
apart: a run is neither None nor "malformed", `Others` is no call (`DispatchAssumption`).
So are logins and reasons from None (`ReviewAssumption`), and heads, workflows and the
verdicts "yes" and "no" (`RequirementsAssumption`), and commits, releases and answers (`NoneIsNothing`). The
objects and the arguments of an exact write are of their types, the review it makes is not
dismissed before it is made, and no release has an id that was never used
(`ScenarioAssumption`). A call of a read tool names what its tool takes, the
last bytes of a log are not asked for together with markers, the
log of a job is UTF-8 but for a last character that may be cut (`IsEncoding`), and the answer
with an archive is its headers, their end, and then the archive (`LogReadsAssumption`,
`ArchiveAssumption`, `ToolAssumption`). Every new commit has a new
SHA. Reads in `ExactWrites` and `ReadTools` are current. GitHub's own limit on a page is no lower than the hard limit of
the settings. Callers of `WriteContract` follow
the warnings they are given; those of `ContentCommit` follow nothing; those of `PagedReads`
go on while they are told that there is more. The log of a completed job is final, and
jobs are listed in the order in which they were queued.

**Abstractions.** An early wake of `asyncio.sleep` is ignored. `ContentCommit`
leaves the governor's lock out, which allows more interleavings than there are.
Blobs, tree and commit are one step, since nothing can reach them before the swap.
`WorkflowDispatch` leaves out re-runs of a run and the order in which callers wait
for the lock; what a restart forgets is outside its promise (`past`).
In `MergeRequirements` the runs of a check have distinct start times in the instance (the
proofs do not need it) and a rerun is
listed last; a queued run without a start time, the fallback for a missing event
field, the details of threads and of requested reviewers, and the dismissal of
reviews by GitHub itself are left out; a change of the base branch is one of the
base commit; nobody's permissions change during a call. `ReviewSubmission` takes a login to be one
value in whatever case it is spelt, and to be stable; an App's
requests about its installation are one step, the body of a review is not compared,
and the governor a review builds for itself, which starts without a cooldown, is
left out, so that reviews of two principals may be in flight at once. In `ReadTools` the head SHA of a run is the same in all of its attempts, so comparing it
never fails; GitHub never gives one id twice or another list for an attempt that is
completed, so those refusals never fire; workflow names are not looked up; digests are
not computed; short pages are noticed only in the tools that check for them; what a search finds
while GitHub gives up is any part of its matches; a tree's walk to its directory and
gh's own paging below a limit are one read. In
`ExactWrites` a `gh` subcommand that sends several requests is one step, so a write that
is half applied is not modelled; the pages of linked branches are one read; a label, an
assignee, a title, a date and a description are all marks, in GitHub's spelling or another;
a caller does not add and remove the same one. In `PatchFiles` a character is a byte, and the walk
through the directories is one lookup. Validation of
arguments and redaction of output are left out.

## 5. Where the code and its documents part

1. `governor_cooldown`: a rate-limited failure whose reset is already past on the
   local clock starts no cooldown at all (`request_governor.py:306`), where
   `docs/gh_get_api_rate_status.md` promises the fallback.
2. `write_garbled`: when `gh api` exits 0 with output that is not JSON, the error
   is not ambiguous (`gh_client.py:435`), so an applied write is reported as known
   to have failed, against `docs/git_content_write_contract.md`. This is the one
   exception (`garbled`) in the properties of the other runs.
3. `dispatch_moved`: the reservation of a run created at another head is never
   released, completed or not (`tools/workflow_dispatch.py:475`), against
   `docs/workflow-dispatch-exact.md`.
4. `merge_moved`: `gh pr checks` resolves the head itself between two comparisons
   of the identity (`tools/pull_requests.py:521`). A head pushed away before it and
   back after it passes them all, and checks of another commit are reported complete,
   against `docs/merge_requirements.md:43`. In the other reads of a pull request the same
   is possible, of any pair of base and head, where `_verify_pr_shas`
   (`tools/pull_requests.py`) means to "reject a numbered-PR read if its snapshot
   changed": it is the exception (`cameBack`) of `EvidenceIsPinned`.

Also met, and covered by no run: an unreadable reply to a write that worked makes the
branch tools say that no write was performed (the same cause as `write_garbled`); a
draft release creates no tag, so when its tag is absent its readback can never verify it;
labels and logins are compared by case, which GitHub ignores, a repository's description that is left out
with an empty one, and a due date by its beginning, so what is spelled otherwise is made
and never verified; neither is a merge that GitHub queues without giving `QUEUED` as its
merge state or the asked method as that of its auto-merge (these are the exceptions, `Incomparable`,
in `UndisturbedIsVerified`); a label to remove that is spelled otherwise is taken for removed, even
if another user has put it back; `gh pr merge` exits 0 on a pull request that is merged or
queued already, so "merged successfully" may report somebody else's merge of the
same head; the change of the draft state cannot be bound to the head that was
checked; any GraphQL `errors` in `gh_create_branch` leave its outcome unknown; `gh_watch_run` may report a
timeout for a run that was completed after the last poll; `gh_list_workflows` calls a
full page truncated; the reviewer principal has a governor of its own
(`reviewer_auth.py:53`), so spacing and cooldown do not span both; only
`RuntimeError` is turned into an outcome by `execute_write_readback`
(`write_contracts.py:168`); a cancelled dispatch leaves an unresolved reservation
that may need a restart; a rule removed between a full page of rules and its probe
moves the next one past both (`merge_requirements_policy.py:369`);
`_requirements_result` (`tools/pr_reviews.py:649`) takes any approval of the current
head, a withdrawn one too, and leaves the rest to GitHub's decision; `gh pr checks` accepts exit code 1, so a rate-limited run
of it is not recognised as such; `_api_method` misses the attached `-XDELETE`,
which no tool uses; `gh_list_milestones` asks for one page of up to its limit and judges
by that limit whether it was cut, so that under a hard limit of more than the hundred that GitHub
gives a longer list would look complete.

## 6. Running

`tlc -config MCGovernor.cfg MCGovernor` and likewise for the other configurations;
`tlapm GovernorProofs.tla` and likewise for the other proofs.
