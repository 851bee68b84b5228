# A TLA+ verification of Assay Harness

This directory models the parts of Assay Harness whose correctness depends on
order, on interleaving or on the agreement of two records: the MCP client
adapter, the agent run with its approval flow, the `run` command and the policy
engine around it, the regression gates over harness evidence, mapped evidence,
Runner archives and coverage claims, the promotion check, the trust basis gate,
the suite matrix and evidence packs. TLC checks each
model on small instances; TLAPS proves every safety property that a passing run
checks for every value of the constants. Source paths below are relative to the repository root.

    tlc -workers 2 -config MCMcpServer.cfg MCMcpServer    # any run below
    tlapm McpServerProofs.tla                             # any proof module

## 1. The system

Assay Harness runs an agent under a policy, records what it did as evidence
events, compares evidence with a baseline, and consumes the archives and reports
of the wider Assay tooling. Everything is a short-lived command; what is
concurrent is the promises of one process and the processes that share files.

| Component | State it keeps | Operations | Hard behaviour |
|---|---|---|---|
| **MCP client adapter** `harness/src/mcp.ts` | session (transport, client), `initialized`, `connecting`, `closing`, `listingGeneration`, `tools` | connect, close, listTools, invalidateToolsCache, callTool, resource requests | every await is an interleaving point; the session is swapped under a waiting call; timeouts; a child process that outlives its owner |
| **Agent run and approval flow** `harness/src/harness.ts`, `evidence.ts` | `consumedResumeRefs` of the process; the compiler's events and counters of each run | runHarness: verdicts, interruption, approve/reject/leave, resume, summary | two awaits on the agent; runs of one process share the exact-once guard; partial evidence when something throws |
| **run command** `cli_run.ts`, `cli_exit.ts` | the evidence file, the exit code | cmdRun | two records of the denials (the log, and `denied`) must tell one story |
| **Evidence gate** `compare.ts`, `cli_compare.ts`, `cli_baseline.ts` | evidence and baseline files | compare, baseline update/show/path | positional matching of events; two reads of a file that another process rewrites |
| **Evidence verification** `cli_verify.ts` | none | verify | per-event shape and run ids only; no hash is recomputed |
| **Policy engine** `policy.ts`, `cli_policy.ts` | the parsed policy | evaluateTool, evaluateMcp, policy | precedence of deny over approval over allow; patterns that match less than they seem to |
| **Runner archives** `runner_archive*.ts`, `runner_compare.ts`, `runner_cross_runtime*.ts`, `cli_runner.ts` | none; the team keeps an archive as baseline | verify-runner, compare, runner compare; report and gate of a cross-runtime diff | which reasons `allow_degraded` may waive; three routings of one validation; what a series of admitted archives adds up to; two readings of one regression policy |
| **Runner claims and coverage** `runner_claims.ts`, `runner_coverage.ts` | none; the fleet of runs so far | coverage gate, claims gate, fleet | two readings of one vocabulary of levels; a floor over a fleet, empty or not |
| Runner reports `runner_layers.ts`, `runner_sandbox.ts`, `runner_signals.ts` | none | render one report | none: one document in, one text out |
| **Enforcement-health promotion** `enforcement_health_*.ts` | the committed proof record; the runs and uploads GitHub keeps | five remote calls and a bounded download that check a hosted run; the recorder of the proof | a re-run between the calls; each call failing in its own way; what is skipped when nothing seems changed |
| **Trust basis gate** `trust_basis_*.ts` | the diff on disk and its projections | a bounded child process and its report | status and report must agree; a kill after the report was written; files of an earlier gate |
| **Suite and evidence pack** `suite_*.ts`, `cli_suite.ts` | the matrix file; the pack directory | check, generate, matrix; pack create, verify | inputs that change between two reads; digests and what they leave out; links |
| Carriers `carrier_*.ts` | none | contract check, render | a verb succeeds only on a carrier the contract check recognises |
| CLI dispatch, demo agent `cli.ts`, `agent.ts` | none | argument parsing | none |
| **Evidence mapper** `mapper/map_to_assay.py` | the mapped file | refusal or events | its validator and the TypeScript verifier share no code |
| Framework adapters `adapters/`, `patterns/` | the paused run | capture of a pause, validation | what a pause may carry |
| CI emitters `ci/`, scripts, demos | none | formatting | none |

How they interact. `cmdRun` loads the policy, calls `runHarness` once and writes
its log. `runHarness` calls the policy engine for each tool call and the
evidence compiler for each event; the agent it awaits may own a
`SingleStartMcpServer`. `compare` and `baseline update` are other processes that
read the file `run` writes, without a lock. Verification and emitters read the
same file later. The mapper writes files of the same shape for the same verifier
and comparison. Promotion, trust basis and suite commands meet in files only: a
promoted row and its provenance are the suite's rows, and a pack copies them.

What makes each component correct:

- *Adapter*: one child process at a time; no child without an owner; nobody is
  served by a listing or a session that is gone; every call settles.
- *Agent run*: evidence handed out is whole and its counters are true; a resume
  answers its own pause; no state is resumed twice.
- *run*: exit code and evidence agree.
- *Gate*: what passes took the baseline's decisions; an accepted baseline passes
  against itself; a baseline that was damaged admits no whole run. (A candidate
  that was cut between two lines can pass: section 5.)
- *Policy*: every tool gets the decision the precedence rule gives it.
- *Runner archives, promotion, packs*: fail closed; only the reasons meant to be
  waived are waived; what is reported was checked on one and the same object.
- *Mapper and verifier, coverage and claims gates, trust basis gate and report,
  generate and check*: two programs that judge one document never contradict
  each other.

`PROJECT.json` lists every component with its files, and the hazards of the code
at their lines, those without a property with the reason.

## 2. The modules

### McpServer — `harness/src/mcp.ts`

One server object and any number of callers. A caller runs one API method at a
time and `pc[p]` names the await it is suspended at:

| `pc[p]` | await in the code |
|---|---|
| `connClose` | `await this.close()` at the head of `connectOnce` |
| `connOpen` | that close resolved; transport and client are about to be made |
| `handshake`, `shaken`, `refused` | `client.connect()` pending, resolved, rejected |
| `connUndo`, `connEnd` | `await this.close()` in the catch block; the finally block |
| `closeWait`, `closed` | a caller of `close()`, before and after it resolves |
| `listWait`, `listPage` | the page request of `listTools` pending, answered |
| `callWait` | a tool call or a resource request |

The fields of the object are variables of their own names; `this.transport` and
`this.client` are always assigned together and are the one variable `client`. A
session is the pair made by one `connectOnce`, numbered in the order of
spawning; 0 is `undefined`. `closing` says where `closeSession` is suspended
(`cache` in the cache invalidation, `transport` in the two closes) and `target`
is the session it captured. `live`, `shutting`, `shut` are the child processes
and the state of `JoiningStdioTransport.close()`. Of a listing the model keeps
the session and generation it was requested under and what it says of one tool.

External, modelled from its use: spawning (which may fail), the handshake and
requests (which may answer, fail or time out), the kill sequence of the base
transport, and a child that dies on its own at any time.

`Drained` is the one scheduling fact used: continuations of settled promises run
before the event loop delivers the next answer, timer or signal. The library's
`invalidateServerToolsCache()` only touches memory, so the await on it is such a
continuation. Without this fact a close that had found no session could still be
pending when a later handshake completes, and `NoOrphanPeer` and the lease would
not hold; the fact is a property of Node's event loop, not of the code.

### PeerLease — what the adapter promises

An abstract lease on one peer at a time: started only when none runs and none is
held, usable only while held, given up at most once, its process gone at some
later point. `ImplementsLease` is the refinement: phase from `client` and
`initialized`, holder from `client`, running from `live`.

### McpCloseHistory

McpServer with a history variable, the number of the call each caller made last.
It exists to say "the connect() was called before the close()".

### EvidenceLog, HarnessRun — `evidence.ts`, `harness.ts`

`EvidenceLog` holds the events, the counters and the three shapes of a whole
log. `assayseq` is the position in the log. A content hash stands for the data
it covers, so an event that refers to another by hash carries that data.

`HarnessRun` has one action per stretch of `runHarness` between two awaits:
`Start` up to `run(agent, input)`; `RunThrows`, `RunCompletes`, `BadArguments`,
`ResumeRefused`, `Resume`, `Leave` for what follows it; `ResumeThrows`,
`ResumeReturns` after the second await. `consumed` is `consumedResumeRefs` of
the process, `mode` the approval flags (approve also stands for the default).
The policy is any function from tools to decisions. The Agents SDK is external:
a turn executes the calls that need no approval and stops at those that do; an
approved call executes on resume. Resume references are drawn from `Refs`, so
two runs may reach the same serialised state.

### CliRun — `cli_run.ts`

HarnessRun with one run, plus the policy file (valid, missing, invalid), the
evidence file and the exit code. Errors the command does not catch end the
process with status 1. `WriteFails` is a `writeFileSync` that throws after it has
truncated the file: what it leaves is any number of the log's first lines
(`Beginnings`), with half a line after them or not (`HalfLine`).

### EvidenceGate — `compare.ts`, `cli_compare.ts`, `cli_baseline.ts`

A file is absent, broken (a line is not JSON), empty, or a log with its policy id
and time stamp. `WriteEvidence` writes any log the harness can return: by
`ReturnedLogIsWhole` of HarnessRun these are exactly the three shapes of
`EvidenceLog`, which is why the gate need not run the harness step by step. The
stamp stands for all else that is hashed into the events of a run; only runs with
equal stamps are checked, because they are the hardest to tell apart.
`TearEvidence` is what a reader, a crash or a full disk finds of a write that is
under way: nothing, a log cut within a line, or one cut between two lines
(`CutLogs`), which the gate parses like any other and which lacks its summary
(`Closed` says that a file has one). `baseline update` is two steps because the
file is read twice: once to check its lines, once to copy it; it may die in
between. `baseline.meta.json` is left out: nothing reads it.

### RunnerGate — `runner_archive*.ts`, `runner_compare.ts`, `compare_runner_archive.ts`, `cli_runner.ts`

An archive is its manifest and the contents of its files; equal digests are
equal contents. A payload is what the gates read of it: the measurements that
are not clean, whether the endpoints are attempts only, the entries of the
capability surface. `ManifestValid`, `StructuralReasons`, `MeasurementReasons`
and `HealthPassed` are `validateRunnerArchive` and `checkHonestHealth`;
`RegressionEntries` is the diff with its regression policy; `VerifyRunner`,
`Compare` and `RunnerCompare` are the exit codes of the three commands. `Job`
runs the three on one candidate against the baseline of the moment. The commands
keep no state; what happens over time is which archive a team keeps as its
baseline, and that is the external part of the model: the first one was accepted
by verify-runner, each later one was admitted by runner compare. `origin` and
`diagnosed` are history: the surface of the first baseline, and whether one was
`diagnostic_only`. For an archive whose manifest has no files object the code
reads no payload and the model reads them all; both end at the manifest error
that every command puts first.

### CrossRuntime — `runner_cross_runtime*.ts`

A cross-runtime diff of any origin: its schema, its runtimes, the parts that do
not have the value the clean shape fixes (`altered`) or are not there at all
(`missing`), the entries added and the lists that are malformed. `ValidateCrossRuntimeDiff` is the validation with its fixed
values, `CrossRuntimeReport` and `CrossRuntimeGate` the exit codes of the two
commands. RunnerGate computes the diff that the Runner would make of its
baseline and candidate (`WorkDirFree` is a path relative to the work dir of its
run), which is external, and hands it to both commands beside `runner compare`;
`RunnerDiffs` holds the others.

### PolicyEngine, PolicedRun — `policy.ts`, `cli_policy.ts`, `evaluateMcpCall` of `mcp.ts`

A name or a pattern is a sequence of tokens of which only the dot and the
asterisk mean anything. `MatchPattern` has the code's four branches in its order
(`GlobToRegex` is the anchored regular expression as a recursive function);
`Evaluate` is deny, approval, allow, default deny. `Glob` and `Governed` are the
reference: what the lists mean, written without those branches. A pattern that
starts with `*.` or ends with `.*` takes every further asterisk literally;
`Plain` names the others, and a `deny` pattern that is not plain may go unheard.
`PolicedRun` composes the engine with CliRun: the decisions of the run are those
taken from the file, and the `policy` command or the MCP lane may be asked first.

### EvidenceMapper — `map_to_assay.py`, `cli_verify.ts`, `compare.ts`

An artifact of either family (pause, per-call decision) is its schema, the
fields its validator reads and the keys no contract names, at the top and in
every part. `Accepts` is the mapper's validation, `BuildEvents` the events it
writes, `VerifyEvents` the TypeScript verifier by category, `MappedRegressions`
the comparison. A refused artifact leaves an earlier output in place. An output
may be edited by hand once.

### CoverageClaims — `runner_coverage.ts`, `runner_claims.ts`, `cli_runner_coverage.ts`

A job hands the annotation of each run to both gates; the fleet command folds
the annotations so far. `CoverageGate`, `ClaimsGate` and `CoverageFleet` each
have their own reading of strengths, missing cells and misspelt levels, as in
the code. A later cell of a type replaces an earlier one. `Modest` in
`ClaimGatesAgree` limits the second half of the agreement to claims that ask for
no more than the coverage gate can.

### ArtifactDownload, Promotion — `enforcement_health_*.ts`

`ArtifactDownload` is `materializePromotionArtifacts`: the body in chunks under
two bounds, the listing, the extraction by children that fail, time out or
overrun. `Promotion` has one action per remote call of the check (`GetRun`,
`GetJobs`, `IsAncestor`, `ChangedPaths`, `ListArtifacts`, the download,
`CompareCommitted`) and the hosted runs as the environment: dispatched, re-run
and uploading at any moment in between. `Recorded` is what `record_cli` writes
in the checkout of the run. `CallFails` stands for a status, a payload of another
shape or an exception, at each call. GitHub and git are external. The hosted run
is the probe job of `.github/workflows/harness-ci.yml`: dispatched for the probe
alone or for something else, in which case the job is skipped; the upload is its
last step. Other versions of that workflow, outside of `Recording`, and other
workflows may upload anything (`OtherPairs`) under the artifact's name.

### TrustBasis — `trust_basis_gate.ts`, `trust_basis_report.ts`, `cli_trust_basis.ts`

The child may end with a status, by a signal, or by an error of its bounds, each
with any output printed before. The gate validates the diff loosely and leaves
it on disk; the report validates it closely (`Readable`) and writes one or two
projections, of which a write may fail. A workspace keeps the files of earlier
gates.

### SuiteMatrix, EvidencePack — `suite_*.ts`, `cli_suite.ts`

`SuiteMatrix` has one action per command on the committed matrix; a commit may
leave any matrix of `Edited` or another package version. Release tags are
triples, because the order of versions is numeric. `EvidencePack` reads, copies
and writes one file per step, in `buildEvidencePack`'s order, while inputs are
edited; a step may throw or the process may be killed; packs are edited by hand,
resealed or not, and may hold links: a listed path to an input, the manifest or
its sidecar (`Unlisted`) to a file that was moved out of the pack (`outside`).
`Seen(p)` is the tree a reader sees through the links, and what verify judges;
`Put` writes through them as `writeFileSync` does, and `EditOutside` edits the
file a link leads to. A digest stands for what it covers. The `create` command
verifies what it built and never passes external inputs; version 1 packs come
from the exported `buildEvidencePack`, which verifies nothing, and `CreateSteps`
has both.

### ExitCodes — `cli_exit.ts`

The exit codes all commands share.

### MCHarnessRun, MCEvidenceGate, MCCommands

Instances that hold several components, with MCRunnerGate and MCPromotion for
the values of theirs. What shares neither memory nor files in the system is one
instance with a `subject` chosen first: the behaviour is of that component alone,
in the environment its module models. This puts nothing in parallel that the
code does not. MCHarnessRun has two subjects, the runs of a process (HarnessRun
under any decisions) and the `run` command (PolicedRun, one run); MCEvidenceGate
the harness's evidence and mapped evidence; MCCommands the Runner archives, the
claims, promotion, the suite's matrix, packs and the trust basis gate.

### Slips

Definitions whose comment starts with "A slip:" are wrong on purpose. No
specification uses them. Each is a plausible bug in the definition that follows
it, and replacing that definition by it makes TLC find a named property
violated; `PROJECT.json` lists the pairs under "mutants".

## 3. What TLC checks

| Run | Instance | States | Shows |
|---|---|---|---|
| `mcp_safety` | 3 callers, 2 cursors, 5 calls | 191,705 | `AtMostOnePeer`, `NoOrphanPeer`, `ToolsCurrent`, `ValidatedBySameSession`, `ImplementsLease`, `TypeOK` |
| `mcp_liveness` | 2 callers, 1 cursor, 3 calls | 3,414 | `EveryCallSettles`, `PeerReleased` under fairness |
| `mcp_close` | 2 callers, 1 cursor, 3 calls | violation | see finding 1 |
| `harness_run` | 2 runs, 2 tools that only a dot tells apart (one needs approval), 2 states, turns of at most 2 calls, every policy; the command on 1 run, 7 patterns of every form in up to two lists, every kind of policy file, a write that ends at any line | 828,508 | `TypeOK`, `SummaryCountsTheLog`, `ReturnedLogIsWhole`, `ResumeIsBound`, `ExactOnceResume`, `UninterruptedRunIsJudged`; `SuccessIsEvident`, `WrittenEvidenceFitsExit`, `VerdictsFollowThePatterns` |
| `harness_blocked` | HarnessRun alone, 2 runs, 2 states | violation | finding 2 |
| `cli_denials`, `cli_policy` | CliRun alone, 1 run | violations | findings 3, 4 |
| `evidence_gate` | 2 tools, 2 policy ids, 1 stamp, runs of at most 2 calls, whole or cut; mapped artifacts of both families, odd in one respect each, one hand edit | 115,100 | `AdmittedRunDiffersInItsTail`, `UpdatedBaselineAdmits`, `TornBaselineAdmitsNoRun`, `MappedEvidenceVerifies`, `AdmittedMappingAddsNoDenial` |
| `commands` | archives: one capability of each class; 60 intact archives in every state of health, 6 with a damaged payload, 15 with a flawed manifest or name; cross-runtime diffs odd in one respect each. Claims: fleets of 2 runs, annotations with up to 2 cells, claims odd in one respect each. Suite: 1 hosted run of 2 attempts, 12 promoted trees, 16 matrices, 5 creates with up to 3 edits and hand edits, links included, 5 diffs | 445,901 | `VerbsAgree`, `CrossRuntimeAgrees`, `JudgedArchiveIsIntact`, `BaselinesNeverGrow`; `ClaimGatesAgree`, `FloorIsEveryRuns`; `AcceptedDownloadIsBounded`, `PassedPairWasUploaded`, `PassedProofFitsTheHead`, `PromotionFailsClosed`; `CreatedPackIsBound`, `DigestIdentifiesEvidence`, `PackStandsAlone`, `ReleaseBindingIsAttested`; `GeneratedIsCurrent`, `GenerationKeepsTheVerdict`; `PassedGateHasCleanReport`, `VerdictRestsOnItsDiff` |
| `gate_removed_denial` | 1 policy id, 1 stamp | violation | finding 5 |
| `pack_links` | as `commands` | violation | finding 6 |
| `cross_runtime_comments` | as `commands` | violation | finding 7 |

Why the bounds are enough. Three callers let one connect, one close and one list
or call at the same time; five calls allow connect, close, reconnect and two
calls in flight across them, which is what every stale-state hazard needs; two
cursors allow a fresh and a repeated one. The proofs remove all three bounds.
Two runs are what the exact-once guard and the shared nonce need; two calls per
turn give every pair of verdicts, equal tools included, and an order to get
wrong; one tool with approval and one without reach both branches. For the gate,
two calls give a prefix, an insertion and a swap, and a cut log every length; two
policy ids give equal and different. One stamp is enough: two runs with different
stamps differ in the content of every event, so the gate passes them only where no
position has one type in both, and the proofs have any number of stamps. For
archives, the commands look at each entry and each payload on its own, so one entry per class and one
fault at a time reach every branch; the succession of baselines is unbounded.
For policies, one pattern per list is enough because a list only asks whether
some pattern matches, and the patterns cover each branch of the matcher and both
kinds of second asterisk; two of the three lists are filled at a time, so each
precedence is exercised. For claims, `MaxRuns` is 2: a floor of two runs takes
either order, and each gate looks at one run. For promotion, `MaxAttempts` is 2,
which is one re-run between any two calls; `MaxZip` is 2 chunks and answers are
one below, at and one above each bound; each head is sound in all but one
respect. For packs, `MaxEdits` is 3 over creates and edits together: a create,
an edit during it and another after it, or two creates and an edit. For the
mapper every field a validator reads takes a wrong value in some artifact, and
each kind of unnamed key occurs at each depth.

Symmetry is used only over callers, cursors, runs and policy ids, which are
compared for equality only, and never in the liveness run.

`CHECK_DEADLOCK FALSE` is set where the system really stops: after `MaxCalls`
calls, when all runs have returned, when the command has exited. `evidence_gate`
is checked for deadlock: the gate can always take another step.

Fairness (`mcp_liveness`). Weak fairness on each caller's continuations, because
the event loop runs every continuation that is ready, and because each request
and the handshake has a timeout; weak fairness on the teardown, because the base
transport escalates to SIGKILL. A call or a crash is never forced. An endless
listing made of cursors that are always fresh is outside the model, since
`Cursors` is finite; the code passes `listMaxPages: 0`, so nothing bounds it
there. The hazard list names it.

## 4. What is proved

`McpServerProofs` (736 obligations) proves, for any set of callers, any cursors
and any number of calls, assuming only `MaxCalls \in Nat`:

| Theorem | Statement |
|---|---|
| `Invariance` | `Spec => []IInv` |
| `TypeCorrect` | `Spec => []TypeOK` |
| `PeerExclusion` | `Spec => []AtMostOnePeer` |
| `NoOrphans` | `Spec => []NoOrphanPeer` |
| `ListingsCurrent` | `Spec => [](ToolsCurrent /\ ValidatedBySameSession)` |
| `CallsAreOfTheirSession` | `Spec => []ValidatedBySameSession` |
| `Refinement` | `Spec => ImplementsLease` |

None of the safety properties is inductive. `IInv` adds what one method relies
on from another:

- `OneConnector`: whoever is inside connect() holds the guard, and is alone.
- `ConnectProgress`: what connect() knows at each await; above all that when it
  is about to spawn, no session is held, no close has a target and no child
  runs. This is what makes a second child impossible.
- `CloseCaptures`: a pending close with a newer session next to it captured
  nothing, and the new session is still in its handshake or already dead. This
  is the interleaving of finding 1, and the reason it loses no child.
- `NoOrphanPeer`, `shut \cap live = {}`, `initialized => client # 0`.
- `ListingInFlight`: a listing that is stale cannot become current again, since
  generations only grow and session numbers are not reused.

The proof that a step keeps `IInv` is split in three lemmas (`TypeStep`,
`SessionStep`, `ListingStep`), each with one step per action. The refinement
adds only that a child that exits is the only one.

`LogLemmas` (815 obligations) is about EvidenceLog alone. The events of the
verdicts are a concatenation over the calls (`FlattenSeq`, a fold of the
community modules), so `VerdictsGrow` first shows that for any sequence of calls
there is a function from its prefixes to their logs, and every other fact goes by
those prefixes: where the block of a call lies, that each event belongs to a call,
how many events of a kind there are (`VerdictsAreCounted`), what precedes what.
`NatInduct` is the induction used, stated for a set in place of a predicate, which
the provers can instantiate; it rests on the library's theorem that `<` on the
naturals is well-founded.

`HarnessRunProofs` (1246 obligations) proves, for any number of runs, tools,
states, policies and any turn length:

| Theorem | Statement | Invariant |
|---|---|---|
| `ResumeOnce` | `Spec => []ExactOnceResume` | `GuardInv` |
| `RunTypes` | `Spec => []TypeOK` | `LogInv` |
| `SummariesAreTrue` | `Spec => []SummaryCountsTheLog` | `LogInv` |
| `EvidenceIsWhole` | `Spec => []ReturnedLogIsWhole` | `LogInv` |
| `ResumesAnswer` | `Spec => []ResumeIsBound` | `LogInv` |
| `CallsAreJudged` | `Spec => []UninterruptedRunIsJudged` | `LogInv` |
| `CliSuccess` | `CliSpec => []SuccessIsEvident` | `CliInv` |
| `CliEvidence` | `CliSpec => []WrittenEvidenceFitsExit` | `CliInv` |

`GuardInv` says that every state a run resumed from is in `consumed`; `consumed`
never shrinks, and the guard and the mark are one step because no await lies
between them. `LogInv` gives, by `pc[r]`, the whole log of a run: empty before the
first await; while it waits for the resume, the interruption of its own pause with
the counters that go with it; then one of the three shapes, or what a failure may
leave. None of the five properties is inductive without it, since the counters and
the pause are carried over an await in variables of their own. The rest is the
lemmas about those shapes. `CliInv` adds that the exit code is one of the
failures, without a file; or success or violation, with the file that is the
returned log; or that of the uncaught error of a write, with the beginning of the
log.

`PolicyProofs` (819 obligations) proves `VerdictsFollow == PolicedSpec =>
[]VerdictsFollowThePatterns` for any names and lists of patterns. The work is
`PatternsMatchTheirMeaning`: each of the four branches of the matcher, the
anchored expression among them, accepts a name exactly if it can be cut into the
pieces of the pattern, but for patterns that are not `Plain`, where only one
direction holds. The sets of places where the first tokens can end are exactly the
ends of cuts (`EndsAreCuts`, by induction on the tokens, in both directions).
`PolicedInv` says that the policy of the run is what the engine answers from the
file, and that every answer and every event of the MCP lane is the engine's; with
`CliInv` the verdicts in the log are then the policy's.

`EvidenceProofs` (1688 obligations) proves, for any policies, stamps and lengths of
the runs, `AdmissionIsPrefix == Spec => []AdmittedRunDiffersInItsTail`,
`UpdateIsAdmitted == Spec => []UpdatedBaselineAdmits` and
`TornBaselineIsStrict == Spec => []TornBaselineAdmitsNoRun`. `GateInv`
says that a verdict of the gate is about the two files as they are now: every
action that touches a file forgets it. `RunLog` is what all whole logs share:
verdicts and denied actions up to a point and neither after it, and a summary at
the end that counts the denials. Two such logs without a regression agree as far as
both have verdicts (`AdmittedHeadsAgree`), and a denial beyond that would raise the
count of the summary (`AdmittedTailIsNotDenied`), which is the step that needs the
summary to be true. A cut candidate has no summary, so only the first half holds
of it, and that only where the cut log still shows whether the run was interrupted
(`ShowsItsKind`): a denial alone is followed by its denied action in one kind of
run and not in the other, which shifts all later positions. Against a cut baseline
the summary of a whole candidate is an event type that the baseline lacks, which is
all that keeps runs from passing against it (`OnlyClosedAdmitsClosed`).

It also proves, for any artifacts whose parts are sequences of records,
`MapperAndVerifierAgree == MapperSpec => []MappedEvidenceVerifies`, where every
event of an unedited output is clean to every category because a part goes into it
only as the fields of its contract, and `MappedAdmission == MapperSpec =>
[]AdmittedMappingAddsNoDenial`. `AdmissionInv` adds that a mapped file stays of its
family through hand edits: one per-call decision that names no target, or a pause
whose denials all name one. The exception in the property is real: a pause whose
denied target is called `undefined` shares the key that a decision without a target
has, and hides such a denial from the comparison.

`RunnerProofs` (661 obligations) proves, for any archives, diffs and classes of
entries, `BaselinesStayBounded == Spec => []BaselinesNeverGrow`,
`CommandsAgree == Spec => []VerbsAgree`,
`CrossRuntimeIsOnePolicy == Spec => []CrossRuntimeAgrees` and
`WaiversKeepIntegrity == Spec => []JudgedArchiveIsIntact`. `ArchivesInv` says that
the exit codes of a pending job are those of the present baseline, and that
`diagnosed` covers it; the lemma `AdmittedAddsNothing` says what one admission
means, and the bound on any number of them follows by transitivity.
`CrossRuntimeAgrees` is about the validation as it is, strict in the context, and
about a gate that counts every added decision; both are stricter than their
comments (finding 7), and the theorem makes room for the second where the
gate alone finds a regression.

For any annotations, claims and fleets it proves `GatesReadOneVocabulary ==
CoverageSpec => []ClaimGatesAgree` and `FloorSpeaksForAll == CoverageSpec =>
[]FloorIsEveryRuns`, if the cells of an annotation are a sequence and each names
its dimension. `FleetInv` says that a run's exit codes are those of the gates on
its annotation and that a summary is the fold over the fleet. The work is in the
lemma about one cell, in the existence of the last cell of a type, and in
`FloorIsOfAll`: the floor, folded run by run, reaches partial exactly if the level
of every run does.

`PromotionProofs` (582 obligations) proves four properties for any runs, trees,
commits and answers of the server: `DownloadsAreBounded`,
`PromotedPairsWereUploaded`, `PromotedProofsFit`, `ChecksFailClosed`. The
invariant records at each `pc` what the calls so far have established and
*survives a re-run*: a run's path and commit are fixed once it is dispatched,
its uploads only grow, and `clean` is never taken back, while its conclusion is
not relied on after the call that read it. What a recorder uploads carries the
run's own id, policy and carrier, which is how the unread policy of the head is
pinned: the surface of the run's commit equals the head's.

`SuiteProofs` (1612 obligations) is about the commands on the suite's files.

- `GenerationIsNeutral` and `ProjectionIsCurrent == SuiteSpec =>
  []GeneratedIsCurrent`, for any matrices that are missing, unreadable or
  documents. `CurrentInv` says that as long as the last command is a generate that
  succeeded, the projection is the one derived from the matrix; that the derived
  version is the latest needs the order of tags to be total.
- `DigestsIdentify`, `AttestationsHold == PackSpec => []ReleaseBindingIsAttested`
  and `VerdictsStandAlone`, for any packs at all, whatever a hand edit puts into the
  manifest. `AdmittedInv` is what verify knew when it accepted: every listed path has
  the listed digest, no other path exists, nothing outside of the digest lists a
  file, and the external entries of a version 1 pack hold. Without the rule that a
  version 0 manifest lists no external files it would not be enough.
- `VerdictsStandAlone` excepts packs whose manifest or sidecar is a link. For all
  others verify refuses every link (`FilesMatch`), so the tree it accepts is the
  pack's own (`SeenWithoutLinks`); for those it holds no longer (finding 6).
- `CreatesAreBound == PackSpec => []CreatedPackIsBound`. `CreateInv` goes over the
  steps that remain: a read is followed by the writing of the manifest and in the
  command only after that comes the verification, and while steps remain the
  manifest is either due or, as a reader sees it, the manifest of the contents
  held. Only a verification makes this a statement about the files in the pack:
  inputs may have been edited between the reading for the digest and the copying,
  and what was copied is compared with what was digested. The command ends with
  one; a version 1 call has none, and of its pack the theorem says so only once
  verify accepts it.
- `VerdictIsTheChilds` and `ReportsAgree`, for any diffs with natural counts.
  `TrustInv`: between the gate's decision and the next gate nobody writes the diff,
  and a closely validated diff without its flag has no failures.

Assumptions on constants are named in the modules that declare them and TLC
evaluates each on its instance: `MaxCallsAssumption`, `ToolsAssumption`,
`FleetAssumption`, `EditsAssumption`, `AttemptsAssumption` and `BoundsAssumption`
are about bounds and subsets; `NamesAssumption`, `ConfigsAssumption`,
`ToolNamesAssumption` (a name is a string, a tool's is not empty),
`ResponsesAssumption`, `MeasuredAssumption`, `SidecarsAssumption`,
`CategoriesAssumption`, `WorkDirAssumption`, `ContentsAssumption`,
`DiffsAssumption`, `EditedAssumption` and `ArtifactsAssumption` say of which shape
inputs are. Only `PinnedAssumption` says more: the pinned release digest is no
carrier's.

Model-checked only: the two liveness properties, which rest on fairness and with it
on ENABLED. The finding runs are refutations and need no proof. No module that a
proof module reaches declares a RECURSIVE operator; recursion is a function on an
interval of the naturals (`GlobToRegex`, the fold of the fleet) or a fold of the
community modules.

## 5. Findings

1. **close() can resolve before the child of an earlier connect() exists**
   (`mcp.ts:144`, run `mcp_close`). `connect()` starts with a close; a `close()`
   called while that one is pending joins it, resolves, and the connect then
   spawns its child. No child is lost, the server holds it, but the caller who
   closed believes it gone. `mcp_connected_compat.test.mjs:94`: "close must
   terminate every fixture child".
2. **A denied action has been executed** (`harness.ts:80`, run
   `harness_blocked`). Policy is evaluated on the items of a run that is over.
   `EVIDENCE_ENVELOPE.md:72` says "Tool call blocked by policy".
3. **A denial in an interruption does not reach the exit code**
   (`cli_run.ts:74`, run `cli_denials`). `EXIT_CODES.md:30` says denials exit
   with 1.
4. **An invalid policy file exits with 1, not 2** (`cli_run.ts:23`, run
   `cli_policy`). `EXIT_CODES.md:31` says 2.
5. **A removed denial fails the gate** (`compare.ts:307`, run
   `gate_removed_denial`). The decision at that place has another content hash.
   `README.md:466` says removed denials do not fail it.
6. **A pack whose manifest is a symlink is accepted**
   (`suite_evidence_pack.ts:431`, run `pack_links`), and so is one with a linked
   sidecar; an edit outside of the pack then changes the verdict.
   `EXIT_CODES.md:263` says a symlink, listed or not, exits with 3.
7. **The cross-runtime gate is stricter than its comments**
   (`runner_cross_runtime_validation.ts:342`, run `cross_runtime_comments`). Each
   field of the context must have the value of the clean shape; the comment at
   253-257 says it is loosely validated as objects and passed through. And a new
   denial fails the gate as a new permission does; the comment at
   `cli_runner.ts:284` speaks of `allow:*` decisions and of the policy within one
   runtime, where denials do not count. TLC's trace shows the first. With
   `altered = {}` in place of the four parts in `GateRoutesAsCommented` it shows
   the second. `CrossRuntimeAgrees` needs the strictness of the code.

Met while modelling and left without a run:

- A candidate that was cut between two lines parses and has no summary, so its
  counters are not compared (`compare.ts:241`), and a tool that the baseline
  denied once may be denied again. `README.md:464` says of the gate that an
  increased denied count exits with 6; it speaks of whole runs. This is why
  `AdmittedRunDiffersInItsTail` says less of such a candidate.
- An external attestation whose binding is "none" is not compared with the
  carrier; the claims gate passes a document without claims; `verify` accepts an
  empty file; all denials of per-call decisions share one key in the comparison of
  denials, and so does a denied target that is named `undefined` (otherwise the
  content hashes catch a change, `AdmittedMappingAddsNoDenial`). No document says
  otherwise.

## 6. What is not modelled

Wording, formatting, serialisation and the fixed fields of the envelope. In the
adapter: the command validation of `createMcpServer`. In RunnerGate: the reading
of gzip and tar, the report-only reasons and the per-layer projection. In the coverage commands: the reports and their formats, which
always exit with 0. In the suite: `trust_card_compat.ts`, which one probe script
uses. The read-only `baseline show` and `path`.

Not exercised, by design of the code: the set of consumed resume references is
per process (`harness.ts:25`), so a restart forgets it; a run left interrupted has
consumed its state (`harness.ts:166`); tool calls of a resumed run get no verdict
(`harness.ts:209`). The first two are consequences of where the set lives and no
document promises more; the third is outside of what the log can show.

Whole components: the Runner reports and the carriers validate and render one
document per command, keep no state and take no decision another part acts on;
the framework adapters under `adapters/` and `patterns/` are examples around
external SDKs, of which the model keeps the artifacts they leave; CI emitters and
validators, CLI dispatch, the demo agent, scripts and demos are formatting or
input and output. `PROJECT.json` lists each with its reason.

## 7. Plan

Done: the adapter with its lease, the run with its policy engine, the five
gates, promotion, trust basis, suite and packs. Left, in order of weight:

1. **Carriers**: `carrier check` validates a carrier by the adapter the registry
   holds for its schema, while the schema-specific verbs of `cli_carrier.ts`
   validate on their own; the property worth stating is that a verb succeeds only
   on a carrier `carrier check` accepts, where the schema has an adapter, and that
   the descriptive verbs never gate.
2. **PausedApproval**: capture, validation and fingerprint of a pause in
   `patterns/paused_approval`, feeding the artifacts that EvidenceMapper now takes
   as a constant.
3. **RunnerGate**: the reading of the archive as a stream with its bounds, as
   ArtifactDownload does for the artifact.
4. Proofs: the type invariants of the components that have none (RunnerGate,
   EvidencePack), and what each new module states.

Composition: CliRun extends HarnessRun, PolicedRun joins it with PolicyEngine,
EvidenceGate shares EvidenceLog with both, RunnerGate extends CrossRuntime, Promotion extends ArtifactDownload,
EvidencePack extends SuiteMatrix.
