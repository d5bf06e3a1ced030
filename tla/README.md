# cockpitctl: a TLA+ model

cockpitctl reads the receipts that CI sensors leave in `artifacts/<sensor>/report.json`,
judges them under `cockpit.toml`, and publishes one verdict: `artifacts/cockpit/report.json`,
`artifacts/cockpit/comment.md`, a few sidecar files, and an exit code (0 pass or warn, 2 policy
failure, 1 runtime error). This directory models that path and the tools around it, checks it
with TLC and proves every safety property it checks with TLAPS. All paths below are relative to `src/`.

Contents: [the system](#the-system) - [modules](#modules) - [runs](#runs) - [proofs](#proofs) -
[findings](#findings) - [not modelled](#not-modelled) - [plan](#plan).

## The system

One process, hexagonal: a pure domain, a use case over ports, and adapters for the filesystem,
child processes and keys. It is sequential except for two reader threads per child process. What
makes it hard is not inside it: the artifacts it reads may change while it reads them, none of
its own writes is atomic, it may be killed at any point and started again over what it left, and
it talks to commands that may answer, stall, fork or die at any moment.

| component | state it keeps | operations | talks to | hard part |
|---|---|---|---|---|
| types (`crates/cockpitctl-types`) | none | ranks, defaults, id validation | everyone | - |
| domain (`crates/cockpitctl-domain`) | none | synthesize and summarize a sensor, sort, select highlights, verdict, policy snapshot | ingest | order of dedup, sort and cap; limits |
| ingest (`crates/cockpitctl-ingest`) | summaries, candidates, the report | `execute` | receipts, policy, output, validator ports | nine early exits per sensor |
| filesystem (`crates/cockpitctl-io`) | the files | discover, read receipt, comment and plan, load config, write | OS | several calls on one path, each seeing another file; torn writes |
| CLI (`crates/cockpitctl-cli`) | report, comment, configuration read first | `cmd_ingest`: options, execute, SARIF, trend, buildfix, signing, hooks; `validate` | all adapters | three rewrites of two files, sidecars of earlier runs, two readings of the configuration, eleven flags laid over it |
| hooks (`crates/cockpitctl-io-hooks`) | child, pipes, reader threads | run a hook, write its files, collect sections | a command | pipes, timeout, threads |
| buildfix actuator (`crates/cockpitctl-io-buildfix`) | the same | run the actuator | a command | the same; it changes the working tree |
| buildfix domain (`crates/cockpitctl-domain-buildfix`) | none | match plans, select fixes | ingest, CLI | matching against capped highlights |
| trend (`crates/cockpitctl-domain-trend`) | none | compare with a baseline | CLI | identity of a finding; capped highlights look fixed |
| signing (`crates/cockpitctl-domain-signing`, `-io-policy-signing`) | key | sign, load key | CLI | where the key comes from |
| schema (`crates/cockpitctl-io-schema`) | compiled schema | validate bytes | ingest, conformance | disagrees with serde |
| render, sarif (`crates/cockpitctl-render`, `-sarif`) | none | comment, annotations, SARIF | CLI | three caps, two more orders |
| features (`crates/cockpitctl-feature-*`) | flags | which feature leaves which marker | CLI, BDD tests | - |
| conformance (`crates/cockpitctl-conform`, `conformctl`, `xtask`) | the table of a directory | check one receipt or all | sensor authors | the same rules as ingest's, written again; files that change between two looks |

What makes each part correct, in one line each:

- ingest: every expected sensor is judged exactly once, by the policy, from evidence seen in this
  run; nothing passes by omission; a run always ends.
- domain: the shown highlights are the top of what was found; counts add up; red is explained.
- filesystem and CLI: exit codes 0 and 2 stand for complete files that agree with each other and
  with the code, whatever an earlier run left; evidence files and report agree; the actuator acts
  only after the verdict is published.
- child processes: a result that is used is complete; what is left running when a call returns is
  known (a kill reaches the child, not its descendants); a command that behaves cannot keep the run.
- buildfix: the actuator is asked only for what the user allowed and the reader of the comment can
  see; no change of the tree goes unrecorded, however the actuator ended (the ids it calls applied
  are taken from it as they come).
- trend, render, SARIF: a reader is never shown less than there is without being told; the outputs
  of one report agree; a trend balances.
- conformance: a pass is earned, and what one tool passes another does not refuse.

## Modules

| module | models | extends |
|---|---|---|
| `Ordering` | stable sort by a tuple key, as `slice::sort_by` does it; truncation, filtering | - |
| `CockpitTypes` | the types and ranks of `cockpitctl-types` that the ingest path uses | `Ordering` |
| `Domain` | the functions of `cockpitctl-domain` | `CockpitTypes` |
| `Gate` | what an ingest run promises (abstract) | `CockpitTypes` |
| `Ingest` | `IngestUseCase::execute` over `FsReceiptSource` | `Domain` |
| `Options` | the command line laid over `cockpit.toml`, the signing key, the runtime features | `CockpitTypes` |
| `Publish` | `cmd_ingest`, run after run over one output directory | `Options` |
| `Subprocess` | `run_single_hook` and `run_buildfix_actuator` | - |
| `Buildfix` | reading the plans, matching, selecting, the actuator and its evidence | `Domain`, `Options` |
| `Render` | what the comment, the annotations and the SARIF log show of a report | `Domain` |
| `Trend` | `compute_trend` | `CockpitTypes` |
| `History` | one CI job of a repository after another, with a baseline | `Render`, `Trend` |
| `Conform` | the checks of `cockpitctl-conform`, and `cockpitctl validate` | `Domain` |
| `Conformctl` | `conformctl check`, `check-dir`, `xtask conform`, `conform-dir`, `validate` over files | `Conform` |
| `MCIngest`, `MCPublish`, `MCSubprocess`, `MCBuildfix`, `MCHistory`, `MCConformctl` | small instances | the above |
| `DomainProofs`, `IngestProofs`, `GateProofs`, `PublishProofs`, `SubprocessProofs`, `BuildfixProofs`, `HistoryProofs`, `ConformctlProofs` | theorems | the above, `TLAPS` |

**Data.** Names (ids, codes, messages, paths, sections, labels) are naturals: the code compares
them for equality and in lexical order only, so a name is its place in that order. A fingerprint
is a tuple that begins with the form it was made from; SHA-256 is taken to be free of collisions.
An absent `Option` is the model value `None`. Messages, help texts, URLs and the wording of errors
are left out. `Ordering` gives the stable sort by ranks (position k holds the index that k - 1
others go before) instead of by an algorithm, so that it is not recursive and can be proved about.

**`Domain`** has one operator per function, with the function's name. `Unusable` is shared by
`synthesize_invalid_sensor` and `synthesize_schema_violation_sensor`, which differ in code and
reason. The saturating additions of `overall_verdict` are exact here: u64 counts of lists in
memory do not saturate.

**`Ingest`** has one action per filesystem call of `execute`, because files change between calls:
`ScanEntry` (one directory entry: `is_valid_sensor_id`, `exists`), `LoadConfig`, then for the
current sensor `RejectId`, `CheckComment` and `CanonicalizeComment`, `SkipGated`, `CheckExists`,
`Canonicalize`, `CheckSize`, `ReadReceipt`, and at the end `BuildReport`, `WriteReport`,
`WriteComment`. `pc` names the next call. What lies between two calls (synthesis, sorting,
selection, the verdict) belongs to the action of the call before or after it. Each early
`continue` of the loop is a `Conclude`. `store[s]` is what `report.json` of sensor `s` is at this
moment: a file, `None`, or `Escape`, a link out of the artifacts root. `SensorWrites` and
`SensorComments` are the sensors' jobs; `IoError` is any `?` of `execute` taking its error
branch, a failed write leaving `Torn` or the old file. `seen` (what was used of each sensor) and `overtaken`
(the checks of the receipt in hand after which this very receipt changed) are history variables;
the code has none. A receipt holds what the schema says of it and what serde makes of it, independently.
Of the buildfix plans only which sensors have a plan with fixes is kept here; `Buildfix` has that
loop call by call.

**`Gate`** is the promise: fix the policy of the sensors expected, take evidence of each one once,
publish the verdict that this evidence and policy give, exit with its code, or give up with 1. It
knows no files. `Ingest` implements it under the mapping in `Promise`: the policy is that of the
sensors still to do and those seen, the verdict is the one in `report.json`.

**`Options`** is the top of `cmd_ingest`, flag by flag: `effective_buildfix`,
`effective_policy_signing`, the refusal of an override that leaves the actuator without a command,
`load_policy_signing_key` (a configured path hides a variable; final newlines are stripped; a blank
name or an empty key is an error), and `Feature::contract`. Clap's own rejections are external.

**`Publish`** has one action per phase of `cmd_ingest`. A phase computes what it writes and puts
the writes into `queue`; `OpenTruncate`, `FillFile`, `RemoveFile` and `WriteError` carry them out
one by one, and no phase starts before the queue is empty. `Crash` kills the process anywhere,
also between truncation and filling. `IngestUseCase::execute` is one step with any verdict here
(`Ingest` has its detail; its two writes are in the queue). The two readings of `cockpit.toml`
see versions 0 or 1: `pre_cfg` is the one `cmd_ingest` read, `report.config` the one `execute` read.
A hook is its outcome: it fails, or names files and sections. `Invocation` is everything an
invocation starts from: the configured buildfix and signing policy, the command line, the files
and variables that may hold a key, and how actuator and hooks will answer. Builds without a
feature behave like builds with the feature disabled. `stuck` is a history variable: the sidecars
this invocation could not remove (`let _ = remove_file`).

**`Subprocess`** models both adapters, which are the same code but for what empty output means
(`kind`). The caller, two reader threads, the child and a descendant that keeps the child's stdout
interleave over three bounded pipes. `Timeout` (the wait is over) and `Kill` (kill, wait, give up)
are two steps. The child runs a script of operations, and may close its stdin before it ends, which
fails the caller's write as its death does; a descendant is not reached by the kill. The child is
external, as are the pipes. Errors of `wait_timeout` itself (a failing `waitpid`) and panics of a
reader thread are left out.

**`Buildfix`** follows one run from plan to tree. `PlanExists`, `CanonicalizePlan`,
`CheckPlanSize` and `ReadPlan` are the calls of `read_plan_bytes` on one plan, with the sensors'
jobs replacing plans between them (`PlanWritten`); whatever speaks against a plan drops it
silently, an I/O error ends the run. A reference hits a highlight of the plan's own sensor in
everything it names (`RefHits`). `SkipReason` is the chain of reasons of `cmd_ingest`;
`StartActuator` hands out the request; `ActuatorApplies` changes the working tree one fix at a
time, and `ActuatorAnswers` or `ActuatorErrs` may come at any moment in between, so that every
partial application occurs. A good answer lists any ids of `AnswerIds` as applied, asked for or
not, done or not: the code copies the list. Of a fix's preconditions the commit is kept. The input
is what the receipts report; candidates and highlights are made of it by `Candidates` and
`HighlightsOf` as ingest makes them, so that `max_per_sensor_findings` and `max_highlights` both
reach the matching.

**`Render`** gives the content of the comment (table rows, cap line, highlights, annotations,
sections), of the workflow annotations with their own sort key, and of the SARIF log. **`Trend`**
is `compute_trend` and the condition under which the section says that nothing changed.
**`History`** composes them over time: a job reads any receipts under any configuration, builds
the report with the operators of `Domain` (one step here), renders all outputs and compares with
the baseline, which any earlier report may have become. Findings move, lose their fingerprint's
sibling, change severity and go between jobs.

**`Conform`** has one operator per check, each giving the places of its violations.
**`Conformctl`** has one action per read: `check` reads, compares with the golden file and judges;
`check_dir` scans, then looks and reads per directory, then the cockpit's report; `xtask` has the
same commands a second time, with the checks as one flag each. `SensorWrites` and
`IngestPublishes` replace receipts and the cockpit's report meanwhile. A content of a receipt says
independently whether it is JSON, keeps the schema, can be parsed, and what its field `schema`
says.

## Runs

| run | instance | shows |
|---|---|---|
| `ingest_contents` | 2 valid sensors, 1 unsafe name, 8 receipts + missing + escaping, 10 inputs, nothing changes | `TypeOK`, `EverySensorListed`, `HighlightsAreTheTop`, `CountsAddUp`, `RedIsExplained` |
| `ingest_race` | 2 receipt contents (one oversized), missing, escaping; 2 changes by the sensors' jobs, any failing call | `CommentFollowsReport`, `NoConfigNeverBlocks`, `ImplementsGate`, `ReceiptUsedAsChecked` |
| `ingest_ends` | 1 receipt content, 1 change | `Terminates` |
| `publish_runs` | 2 invocations out of 10, 1 kill, 1 edit of the configuration, any failing write | `TypeOK`, `ExitMatchesFiles`, `CommentNeverAhead`, `EvidenceMatchesReport`, `DisabledFeaturesLeaveNothing`, `SignedWithTheNamedKey`, `ActuatorAfterVerdict`, `RunsEnd` |
| `subprocess_pipes` | every script of up to 3 operations (closing stdin is one) and an end, payload 2, pipe 1 | `TypeOK`, `OkIsComplete`, `NoChildLeftBehind`, `PatientCommandsReturn` |
| `buildfix_plans` | 2 sensors, 5 plans + none + escaping, 8 inputs, 1 change while plans are read, 2 ids to answer with | `TypeOK`, `OnlyJustifiedFixesAreAsked`, `UnmatchedIsExplained`, `EvidenceCoversTree`, `PlanUsedAsChecked` |
| `history_jobs` | 6 receipts or none per sensor, 5 configurations, any earlier report as baseline | `TypeOK`, `TrendAccounts`, `FixedIsGone`, `QuietMeansSame`, `ReductionIsAnnounced`, `SectionsFollowTheSummary`, `OutputsAgree`, `ReportExplainsItself` |
| `conform_checks` | 2 directories (one with an ill-formed name), 11 contents, 9 command lines, 1 change | `TypeOK`, `PassIsEarned`, `OrderedIsKept`, `ToolsAgree`, `OwnReportConforms` |
| `*_doc_*` | as small as the counterexample | one sentence of the documentation each, violated; see [findings](#findings) |

**Bounds.** Sensors do not interact before the sort, selection and verdict, which compare two at a
time; two valid sensors and one rejected name give every pair of outcomes. `MaxReceipts = 1` in
`ingest_contents` makes discovery truncate; `max_highlights` is 1 to 3 and
`max_per_sensor_findings` 1 or 2, below what the receipts hold, so both caps bite. The receipts
are one for each branch of `ReadReceipt`, with a shared fingerprint, a lying count and more
findings than the cap. Configurations cover blocking, label-gated, advisory and undeclared
sensors, `warn_is_fail`, strict mode from the file and from the command line, a repeated and an
unnamed section, and a file that does not parse. `EnvBudget` (2 changes) lets one receipt be
replaced and deleted between the calls that look at it. Two invocations are enough for every
relation between a run and what an earlier one left, since the output directory is all that
connects them; one kill puts any file into any state a kill can leave. In `Subprocess` the payload
is larger than a pipe, which is what the blocking depends on.

In `MCBuildfix` the plans hold every kind of reference (fingerprint with another's code, code
only, neither, another sensor), all three safety levels, an oversized and an unparsable plan; the
inputs give every reason for skipping, every way an override can change the gate, a cap per sensor
that cuts a finding a fix refers to, and a disabled feature. `AnswerIds` holds a fix of a plan and
an id of none. One change of
a plan while it is read shows every pair of calls that disagree. `MCHistory` keeps caps at, above
and below the number of findings, including `max_highlights = 0`, sections that are repeated and
not listed, and sensors that are not declared; two reports, the baseline and the current one, are
all that is ever compared. In `MCConformctl` each content fails another check, and one change
between a look and the read is what the code is exposed to per directory.

**Fairness.** `execute` and `cmd_ingest` are one thread that waits for nothing in these modules,
so weak fairness of the program as a whole is all that is assumed; the environment gets none.
`Publish` takes hooks and the actuator as returning; that they may not is the subject of
`Subprocess`. There, the operating system runs every thread that can run (`WF` of the caller, of
each reader and of the child's next operation; a blocked or hanging child has none) and
`wait_timeout` returns when time is up (`WF(Timeout)`); between that and `Kill` the child may
still exit by itself. A descendant that keeps stdout open is not
assumed to end. `Buildfix`, `History` and `Conformctl` are checked for safety only and assume no
fairness.

`CHECK_DEADLOCK FALSE` is set where the program stops: a finished run, or the
last of the bounded invocations, has no next step. That they do not stop early is what
`Terminates`, `RunsEnd` and `PatientCommandsReturn` say. `History` has no last job and is checked
for deadlock.

What the properties mean beyond their names:

- `HighlightsAreTheTop` fixes the contract of `select_highlights`: within the cap, no fingerprint
  twice, ordered, and a candidate left out never outranks one shown. It compares candidates that
  are first of their fingerprint: a later, more severe one with the same fingerprint loses (see
  [further divergences](#further-divergences)).
- `CountsAddUp` ties two things the code computes separately, the totals of the verdict and the
  list of candidates.
- `ReceiptUsedAsChecked` speaks of each sensor by itself: what is judged although it is larger than
  the limit, or lies outside the root, was put in place of this very receipt after the call that
  checked it. A change of another sensor's receipt, or of this one before its check, excuses nothing.
  That the race itself is open (three calls on a path, one file each) is what the code does.
- `ExitMatchesFiles`, `EvidenceMatchesReport` are about a run that ended with 0 or 2, over
  anything an earlier, possibly killed run left. They except files a hook of the run overwrote by
  name, which `write_extra_file` allows. Evidence the report tells of is on disk, complete and of
  this run. The converse does not hold of the code: a run that does not sign, or finds no fixes,
  leaves an earlier run's sidecar. The property names exactly that case, and the failed removal, and
  excludes any other (`LeftOver`).
- `DisabledFeaturesLeaveNothing` has the same limit: the sidecar of an earlier run goes only if the
  disabled feature was asked for (`SigningDisabled`, `BuildfixDisabled`), and only if it can be removed.
- `CommentNeverAhead` compares runs, not the rewrites within one, and says nothing while
  `report.json` is cut short.
- `NoChildLeftBehind` says what a caller can rely on: after a result that was judged nothing holds
  the child's stdout; after a timeout the child is dead, but a descendant of it may go on, and
  change the tree if it was the actuator's; after a failed write the child itself may.
- `SignedWithTheNamedKey`: a key named on the command line displaces the configured one of either
  kind; the loader prefers a path, so one left in place would sign silently with another key.
- `PatientCommandsReturn` has as a premise that the command reads its input before it fills an
  output pipe, and leaves no descendant with its stdout; without either the call can last for ever
  (`TimeoutBoundsTheCall`).
- `OnlyJustifiedFixesAreAsked` reads the rule for a match a second time, over what the receipts
  reported instead of what is shown, and the level from the two places a user can set it.
- `UnmatchedIsExplained` bounds the damage the caps do to matching. It reads what the receipt
  reports, before any cap: a fix about a reported finding counts as unmatched only if
  `max_per_sensor_findings` is used up by others of that sensor no less severe, the highlights are
  full, or another finding is shown under its fingerprint. (Nor does the comment say which.)
- `EvidenceCoversTree` relates request, rendered tables and tree, for an actuator that may stop
  anywhere and say anything: a changed tree is recorded, with the ids that were handed out and
  the level of each. It does not say that the ids listed as applied were applied, or asked for:
  nothing compares them, and when the answer is lost none are listed though some were applied.
- `FixedIsGone` admits that a finding the caps cut is called fixed, and says that nothing else is.
- `ReductionIsAnnounced` excepts `max_highlights = 0`, where the comment says "No highlights".
- `OutputsAgree` holds although the annotations sort findings without a line differently: a cap
  never drops the more severe one, nor an advisory one kept for a blocking one.
- `ReportExplainsItself`: the snapshot that is signed is enough to compute the report's verdict and
  order again.
- `PassIsEarned` holds of what was listed: an entry that cannot be read while scanning is left out
  without a word.
- `ToolsAgree` has its exceptions in the statement: `check` knows no size limit and no
  configuration, and a file that calls itself a cockpit report is another's business.

## Proofs

Every invariant and action property the passing runs check, and the refinement, is a theorem for
every value of the constants. The assumptions on the constants are named in the modules that
declare them:

- `TypesAssumption`, `DomainAssumption`, `IngestAssumption`, `PromiseAssumption`,
  `PublishAssumption`, `BuildfixAssumption`, `SubprocessAssumption`, `HistoryAssumption`,
  `ConformctlAssumption`: the types of the constants; finitely many sensor names; and that a
  model value such as `None` is none of the values it is told apart from (`AbsentAssumption` says it
  of reports and outputs).
- `OwnNamesAssumption` (`Ingest`): a receipt uses none of the codes that cockpitctl keeps for its own
  findings, nor a fingerprint that begins like its own. `docs/reference/finding-codes.md` reserves
  these codes; the fingerprints are hashes of them. Nothing enforces it, and with a receipt that
  does so neither `CountsAddUp` nor `RedIsExplained` can tell who reported what.
- `ConformAssumption`: which reason tokens are ill-formed; `warn_is_fail`, the one token of
  `overall_verdict` that a receipt did not choose, is not one of them.

Lemmas and theorems, module by module:

- `DomainProofs`.
  - `StableOrderIsBijection`: ranks under a strict total order on a finite set are exactly 0 to
    n - 1, so the order given by ranks is a bijection and ascends. The argument is that
    `GoesBefore` is total and transitive (lexicographic order on keys of one length, ties by
    index), so different indices have different ranks, and an injection of a finite set into a
    set of its own size is onto. `SortByKeySorts` follows for sequences, and `SortedIsKept`: a
    list in order is left as it is, because only the identity orders its indices.
  - About the functions of the crate: the type of what each returns, that a summary keeps the id
    and the blocking flag of its policy, what `select_highlights` shows (`ShownAscends`,
    `ShownDiffer`; `KeptIsShown`: a deduplicated candidate is shown unless the list is full of
    ones that do not come after it), `AdvisoryVerdict` (with no blocking sensor the verdict does
    not fail), and what the totals of `overall_verdict` sum.
- `IngestProofs`.
  - `TypeCorrect`: `Spec => []TypeOK`. The invariant is `TypeInv`: `TypeOK`, that a configuration
    is loaded once `pc` is past discovery, and that the sensor in hand has a valid id once its
    check is behind (without which `comments[id]` and `store[id]` have no type).
  - `CommentAfterReport`: `Spec => []CommentFollowsReport`. `FilesInv` says for each stretch of
    `pc` which of the two files is written and what it holds.
  - `SensorsListed`: `Spec => []EverySensorListed`. The property speaks of the sorted list only, so
    it is not inductive. `ListInv` says that while sensors are processed, the summaries have
    distinct ids and these ids with `todo` make up the expected set, disjointly. Sorting then
    keeps them, because it is a bijection, and orders them strictly, because ids are distinct.
  - `NothingBlocksUnasked`: `Spec => []NoConfigNeverBlocks`, by `Advisory`: without a
    configuration every summary made so far is of a non-blocking sensor.
  - `TopHighlights`: `Spec => []HighlightsAreTheTop`, by `Chosen`: the report's highlights are the
    selection from the candidates. The set of blocking sensors is taken from the summaries before
    they are sorted, so the proof shows that sorting does not change it.
- `GateProofs`.
  - `RunImplementsGate`: `Spec => ImplementsGate`, the refinement. `SeenInv` says that the
    summaries are one for each sensor seen, each `Judged`: its status and its blocking flag are
    what the evidence and the policy give. `HandlersJudge` shows this of what every branch pushes,
    `VerdictAgrees` that `overall_verdict` over such summaries is the verdict of the promise, and
    `StepImplements` maps each action to a step of `Gate` or to none.
  - `UncheckedReceiptsAreNew`: `Spec => ReceiptUsedAsChecked`, by `CheckedInv`: past each check the
    receipt in hand still has what was checked, or its change is on record (`WritesKeepChecked`).
    `OnlyReadUses` shows that no other action uses a receipt.
  - `VerdictCountsFindings`: `Spec => []CountsAddUp`. The invariant `Reckoned` says it while
    sensors are still being processed: summaries and candidates so far tally, severity by
    severity. A sensor's account adds to both sides alike (`AccountReckons`), and sorting the
    summaries changes neither (`SortReckons`).
  - `RedShowsItsReason`: `Spec => []RedIsExplained`. Each summary of a sensor whose receipt was not
    read is `Voiced`: a candidate has its severity, and none that could be taken for the same
    finding is milder, so deduplication cannot silence it. By `FirstIsAsSevere` the first
    highlight is then at least as severe as what turned the run red.
- `PublishProofs`. Everything `publish_runs` checks but `RunsEnd`: `TypeCorrect`,
  `ExitCodesAreTrue`, `CommentIsBehind`, `EvidenceIsOnDisk`, `KeyIsTheNamedOne`,
  `DisabledMeansAbsent` and `VerdictBeforeActuator`, for any number of runs, kills and failing
  writes and any invocations. The files lag behind what the program knows by what is in the queue,
  so the properties, which compare files and report, are not inductive. `Inv` says of each file
  what it holds *once the queue is done*: `Due` (everything the queue still writes to the file is
  this content, and it is written unless the file has it already), `Fresh` (of this run), `Foreign`
  (not of this run, and will not be), and `ReportFirst` (no comment is queued before its report).
  The lemmas `AfterOpen`, `AfterFill` and `AfterRemove` show once for any queue that these survive
  the steps of a write; a phase only has to show that it queues the right things. `Verdict` and
  `Evidence` collect them from the moment `execute` has a report until the run ended well, and
  a killed run leaves `TypeOK`, `Pace` and `Disk`, with which the next one starts. `Swept` says of
  a sidecar the report does not tell of that, once its feature's phase is over, it is gone, queued
  for removal or in `stuck` (`StaysGone`: nothing but a hook that names it brings it back).
- `SubprocessProofs`. `TypeCorrect`, `CompleteWhenOk` and `ChildEndsFirst`. `OkIsComplete` needs
  that a reader is done only when its pipe is empty and the child has ended (`Drained`), that
  units are neither lost nor made (`UnitsConserved`), that the child has not passed an exit
  (`RanSoFar`; `OneFurther` for each operation) and how far the caller is (`Progress`). `Drained`
  also gives `ChildEndsFirst` its second half: both readers saw the end of their streams.
- `BuildfixProofs`. Everything `buildfix_plans` checks. `TypeCorrect` needs what is handed out and
  when. `RequestIsJustified` and `UnmatchedHasAReason` need where a summary comes from:
  `SourceInv` says that each one stems from a fix of a plan that was taken, matched against the
  highlights of this run, and that the request is the selection from them. That a reported finding
  is missing among the highlights for one of three reasons (`LeftOutForAReason`) follows the
  finding through both caps: `CutBehindOthers` (sort and truncation leave out only what stands
  behind as many as the cap allows, none of them lighter), `ReportedIsCandidate`, and
  `KeptIsShown` of `DomainProofs`. `EvidenceAboutTree`
  rests on `EvidenceInv` (once the run recorded something, the record accounts for request and tree)
  and a count of the table's rows; `PlansAreChecked` on `CheckInv`, the history of what was
  measured.
- `ConformctlProofs`. Everything `conform_checks` checks. The invariant is `Kept`: `TypeOK`, where
  each step finds the tables (`Placed`), that only listed directories are still to be looked at
  (`Listed`), and that a listed directory is still to be looked at, was found good, or the run is
  known to fail (`Decided`). `ExitZeroIsEarned` is `Decided` with nothing left to look at.
  `ToolsJudgeAlike` compares the checks on one content. `OwnReportKeepsRules` follows a report
  from the receipts through `Domain` to the checks of the cockpit report, and
  `CheckedOrderIsIngests` is `SortedIsKept` with the key of the check shown to order findings
  with lines as ingest's key does.
- `HistoryProofs`. Everything `history_jobs` checks. The properties speak of what is in sight, so
  the invariant `Kept` says where it comes from: `TypeOK`; the report is `build_cockpit_report` of
  the job's receipts and configuration, and the outputs are those of this report and the baseline
  (`Gathered`); the baseline is the report of some receipts and configuration (`Remembered`).
  - `NothingDropsSilently`: a finding of a receipt survives the cap of its sensor or the row is
    truncated (`FoundIsShown`), and survives the selection or the list is at its cap.
  - `TrendBalance`, `FixedOrCut`, `QuietIsQuiet`: in a report of `select_highlights` fingerprints
    are distinct (`ReportIsDistinct`), so matching by fingerprint pairs findings one to one, and
    what is unmatched on either side is what the trend lists (`UnmatchedAre`).
  - `ReadersAgree`: both exports map the highlights one by one (`AnnotationsAre`, `SarifIs`), and
    the annotations' key puts the lighter finding first (`LighterFirst`), so a cap cuts from below.
  - `ReportIsExplained`: the configuration read back from the snapshot gives every sensor its
    policy (`AttestedIs`), so the verdict is the same, and the sort finds its list in order.
  - `SectionsInOrder`: the rows of one section are an interval of the sorted table, and the
    intervals of the sections in their order adjoin, so what they list is a prefix of it.

Only model-checked: `Terminates`, `RunsEnd` and `PatientCommandsReturn`, which are liveness under
fairness and beyond this prover, as is `ENABLED`. Induction over data is beyond it too; where a
recursive function of the library is needed (`FlattenSeq` of the sections), the proof takes the
least counterexample among the natural numbers instead.

## Findings

Each is a run in which TLC violates one sentence of the repository.

| run | the sentence | what the code does |
|---|---|---|
| `ingest_doc_inconsistent` | `docs/reference/finding-codes.md`: `receipt_inconsistent` means that claimed counts do not match | claimed counts are compared with the capped findings |
| `subprocess_doc_timeout` | `docs/reference/config.md`: `timeout_ms` is the timeout | the payload is written before anything reads the output and before the timeout starts |
| `buildfix_doc_preconditions` | `crates/cockpitctl-types`: preconditions "must hold before applying a fix" | nobody looks at them, and the request does not carry them |
| `conform_doc_ordering` | `contracts/docs/determinism.md`: an absent line sorts as `u32::MAX` | `check_ordering` sorts it as 0 and fails receipts in the documented order |

### Further divergences

Seen while modelling; the definition named shows each, without a run of its own.

Receipts and sensors:

- Label-gated sensors that do not match still emit `path_traversal`: the id and `comment.md` are
  looked at before the gate (`contracts/docs/presence-and-missingness.md` says they emit nothing).
  A non-blocking sensor rejected so is `blocked` all the same (`synthesize_path_traversal_sensor`).
- A receipt deleted between `exists` and `canonicalize` is reported as `path_traversal`
  (`Canonicalize`), which `docs/reference/finding-codes.md` reserves for ids and paths that escape.
- "Maximum 100 sensors processed" (`docs/explanation/trust-boundaries.md`) applies to discovery only;
  sensors declared in `cockpit.toml` are all processed (`LoadConfig`).
- When sensors are declared, a receipt of any other is ignored; taking a sensor out of `cockpit.toml`
  makes its findings "fixed" in the trend (`Expected`, `compute_trend`).
- "Errors from blocking sensors appear first" (`docs/explanation/composition-model.md`): duplicates
  go before the sort, so a warning with the same fingerprint that comes first hides the error
  (`select_highlights`).

Files and options:

- A run that does not sign leaves the `policy.signature.json` of an earlier one, which
  `docs/reference/cli.md` lists only "when policy signing is enabled" (`SigningNotRequested`). The
  same goes for `buildfix.apply.json` beside a run that finds no fixes (`BuildfixNotEvaluated`),
  also with the feature disabled.
- The two readings of `cockpit.toml` in one run may differ (`pre_cfg`, `report.config`), which a
  comment in `cockpitctl-cli` calls idempotent.
- `snapshot_policy` leaves `schema_validation` out, so the signed policy does not tell in which
  mode receipts were judged.

Buildfix:

- `select_auto_apply_fixes` is documented to keep one order (safe, guarded, unsafe); the plans of
  several sensors are each sorted and then concatenated (`all_fixes`).
- Fix ids are not told apart by sensor in the request and the evidence.
- An actuator that answers nothing is recorded as `applied`, and one that answers is believed: the
  ids it calls applied are compared neither with the request nor with the tree (`ActuatorAnswers`).
- A fix about a finding that `max_per_sensor_findings` cut counts as "unmatched", in the words used
  for a fix about nothing (`match_buildfix_plan` over capped highlights).

Outputs:

- `max_highlights = 0` shows "No highlights" whatever was found (`render_comment`), against "No
  silent truncation" in `contracts/docs/comment-abi.md`.
- Annotations sort a finding without a line first, highlights last (`annotation_sort_key`).
- Sensors of a section that is not in `section_order` appear under no heading (`Sections`).
- A SARIF rule names the first sensor that used its code only (`cockpit_report_to_sarif`).
- A kept finding that changes its severity is no change to the trend but for the counts.

Conformance:

- `check-dir` leaves out directory entries that cannot be read (`ScanDir`), and knows no size limit.
- A report that goes between `exists` and the read fails even with `--allow-missing-report`.
- A cockpit report that cannot be read ends the run before the table is printed (`ReadCockpit`).
- A receipt whose field `schema` says `cockpit.report.v1` passes the checks and fails
  `validate --strict`, which in turn never parses what it passes.

## Not modelled

- Layout and formats: Markdown, JSON and TOML parsing, the commands `init` (writes one file if
  there is none) and `explain` (prints a constant table).
- Cryptography: HMAC-SHA256 over canonical bytes and fingerprint hashes are injective operators.
- The evaluation of a JSON schema: a library's; its verdict on a receipt is an input independent of serde's.
- Configuration of hooks and the serde attributes of the types; base64 and JSON in a hook's answer.
- The grid of feature scenarios (`cockpitctl-feature-grid`), a table for the BDD tests; its
  contract of markers and sidecars is in `Options`.
- Development tooling: schema synchronisation and example checks of `xtask`, `scripts`, `fuzz`;
  the GitHub action, which is shell around the binary; the facade crate, which re-exports.
- A sensor's directory named like the output directory: discovery skips it.
- The reason tokens of `run.capabilities` (`check_cockpit_reason_tokens` reads them too); and a path
  that is present but empty, which the sort of the annotations orders after an absent one.

More than half of the lines of the crates are unit tests kept in the same files as the code they
test; the models stand for the other half only.

## Plan

Modelled, in this order: `Ordering`, `CockpitTypes`, `Domain`, `Ingest` with `Gate`, `Publish`,
`Subprocess`, then `Options`, `Buildfix`, `Render`, `Trend`, `History`, `Conform`, `Conformctl`.

Proved, in this order: the sort, `Ingest`, its refinement of `Gate`, `Publish`, `Subprocess`,
`Buildfix`, `Conformctl`, `History`. Nothing that the runs check and the prover can reach is left
open. What may follow:

1. Action properties of `Publish` and `Buildfix` (what a killed run may never take back), by the
   invariants proved already.
2. The parts under [not modelled](#not-modelled) that have state of their own, first the grid of
   feature scenarios against `Options`.
