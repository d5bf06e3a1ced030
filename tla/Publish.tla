------------------------------ MODULE Publish -------------------------------
(***************************************************************************)
(* cmd_ingest (crates/cockpitctl-cli/src/main.rs): what one invocation     *)
(* after another leaves in artifacts/cockpit/.                             *)
(*                                                                         *)
(* An invocation judges the receipts (IngestUseCase::execute, module       *)
(* Ingest, one step here), writes report.json and comment.md, and then     *)
(* rewrites both each time a later phase adds evidence to the report:      *)
(* buildfix auto-apply, policy signing, and, for the comment alone, hooks. *)
(* No write is atomic (fs::write truncates, then fills), any of them may   *)
(* fail, and the process may be killed between or inside any two; the next *)
(* invocation starts over what is left.                                    *)
(***************************************************************************)
EXTENDS Options

CONSTANTS
  Invocations, \* the command lines and configurations of an invocation
  MaxRuns,     \* BOUND: number of invocations
  MaxCrashes,  \* BOUND: how many of them are killed
  Torn         \* a file truncated and not yet filled

Files == {"report.json", "comment.md", "sarif.json", "buildfix.apply.json",
          "policy.signature.json", "extra"}

DataKeys == {"_buildfix", "_buildfix_apply", "_policy_signature"}

(* Hooks: what one hook's command returns.  `fails` stands for every way   *)
(* run_single_hook can return Err.                                         *)
HookOutcome ==
  [fails : BOOLEAN, files : Seq(Files \cup {"unsafe"}), sections : BOOLEAN]

(* One invocation: what cockpit.toml and the command line ask for, the key *)
(* files and variables there are, and how the actuator, if it is started,  *)
(* and the hooks will answer.                                              *)
Invocation ==
  [buildfix    : BuildfixPolicy,
   signing     : PolicySigning,
   cli         : CommandLine,
   files       : UNION {[K -> Nat] : K \in SUBSET (Nat \ {0})},
   environment : UNION {[K -> Nat] : K \in SUBSET (Nat \ {0})},
   answer      : {"ok", "errors", "fails"},
   hooks       : Seq(HookOutcome),
   sarif       : BOOLEAN,
   baseline    : {"none", "good", "unreadable"}]

(* What the files hold. *)
ReportContent == [run : 1 .. MaxRuns, verdict : {"pass", "fail"}, config : {0, 1}, data : SUBSET DataKeys]
CommentContent == [run : 1 .. MaxRuns, data : SUBSET DataKeys, config : {0, 1}, hooks : BOOLEAN]
HookContent == [run : 1 .. MaxRuns, by : {"hook"}]

(* What each file may hold at any moment, crashes included. *)
Content(file) ==
  HookContent \cup
  CASE file = "report.json"           -> ReportContent
    [] file = "comment.md"            -> CommentContent
    [] file = "buildfix.apply.json"   -> [run : 1 .. MaxRuns, status : {"skipped", "applied", "failed"}]
    [] file = "policy.signature.json" -> [run : 1 .. MaxRuns, config : {0, 1}, key : Nat]
    [] OTHER                          -> [run : 1 .. MaxRuns]

ASSUME PublishAssumption ==
  /\ \A o \in Invocations :
       /\ o.buildfix \in BuildfixPolicy /\ o.signing \in PolicySigning /\ o.cli \in CommandLine
       /\ \A source \in {o.files, o.environment} :
            DOMAIN source \subseteq Nat \ {0} /\ \A name \in DOMAIN source : source[name] \in Nat
       /\ o.answer \in {"ok", "errors", "fails"} /\ o.hooks \in Seq(HookOutcome)
       /\ o.sarif \in BOOLEAN /\ o.baseline \in {"none", "good", "unreadable"}
  /\ MaxRuns \in Nat \ {0} /\ MaxCrashes \in Nat
  /\ None # Torn /\ \A f \in Files : {None, Torn} \cap Content(f) = {}

VARIABLES
  disk,      \* artifacts/cockpit/: None, Torn or the content of each file
  run,       \* the number of the current (or last) invocation
  opts,      \* what it was asked for, one of Invocations
  pc,        \* its next phase, "idle" between invocations
  config,    \* version of cockpit.toml; a developer may edit it at any time
  pre_cfg,   \* the version cmd_ingest read first
  report,    \* IngestResult::report
  fixes,     \* the plans found hold fixes / some are eligible for auto-apply
  comment,   \* IngestResult::comment_md: the report it renders and under which config
  hook,      \* hooks run so far
  sections,  \* some hook returned comment sections
  queue,     \* writes this phase still has to do, in order
  exit,      \* exit code of the last invocation, None while running or killed
  applied,   \* HISTORY: invocations whose actuator was started
  stuck,     \* HISTORY: sidecars the current invocation failed to remove
  crashes

vars == <<disk, run, opts, pc, config, pre_cfg, report, fixes, comment, hook, sections, queue,
          exit, applied, stuck, crashes>>

memory == <<report, fixes, comment, hook, sections>>

Put(file, content) == [file |-> file, content |-> content]
Remove(file) == [file |-> file, content |-> None]

Rendered(rep, cfg) == [run |-> rep.run, data |-> rep.data, config |-> cfg, hooks |-> FALSE]

\* Mutant: the comment is written before its report.
CommentThenReport(rep, com) == <<Put("comment.md", com), Put("report.json", rep)>>

\* Mutant: the report is not written.
CommentAlone(rep, com) == <<Put("comment.md", com)>>

\* Mutant: each is written where the other belongs.
Exchanged(rep, com) == <<Put("report.json", com), Put("comment.md", rep)>>

(* write_cockpit_report, then write_cockpit_comment. *)
Both(rep, com) == <<Put("report.json", rep), Put("comment.md", com)>>

Init ==
  /\ disk = [f \in Files |-> None]
  /\ run = 0 /\ opts \in Invocations /\ pc = "idle"
  /\ config = 0 /\ pre_cfg = 0
  /\ report = None /\ fixes = "none" /\ comment = None /\ hook = 0 /\ sections = FALSE
  /\ queue = << >> /\ exit = None /\ applied = {} /\ stuck = {} /\ crashes = 0

(* What the options come to. *)
Buildfix == effective_buildfix(opts.buildfix, opts.cli)
Signing == effective_policy_signing(opts.signing, opts.cli)
Key == load_policy_signing_key(Signing, opts.files, opts.environment)

Quit(code) == pc' = "idle" /\ exit' = code /\ queue' = << >>

(***************************************************************************)
(* Start: first reading of cockpit.toml, option checks.                    *)
(***************************************************************************)
Start ==
  /\ pc = "idle" /\ run < MaxRuns
  /\ run' = run + 1
  /\ opts' \in Invocations
  /\ exit' = None
  /\ pre_cfg' = config
  /\ report' = None /\ fixes' = "none" /\ comment' = None /\ hook' = 0 /\ sections' = FALSE
  /\ pc' = "check" /\ stuck' = {}
  /\ UNCHANGED <<disk, config, queue, applied, crashes>>

(* An unreadable config, or an override that leaves the actuator without a *)
(* command (anyhow::bail!), ends the run before anything is touched.       *)
CheckOptions ==
  /\ pc = "check"
  /\ \/ Quit(1)
     \/ /\ ~ActuatorUnnamed(opts.buildfix, opts.cli)
        /\ pc' = "execute" /\ UNCHANGED <<exit, queue>>
  /\ UNCHANGED <<disk, run, opts, config, pre_cfg, memory, applied, stuck, crashes>>

(***************************************************************************)
(* execute: reads cockpit.toml a second time, judges the receipts, renders *)
(* the comment and writes both files.  The plans it found hold no fixes,   *)
(* fixes that are not eligible, or eligible ones.                          *)
(***************************************************************************)
Execute ==
  /\ pc = "execute" /\ queue = << >>
  /\ \/ /\ Quit(1)
        /\ UNCHANGED memory
     \/ /\ fixes' \in {"none", "ineligible", "eligible"}
        /\ \E verdict \in {"pass", "fail"} :
             report' = [run |-> run, verdict |-> verdict, config |-> config,
                        data |-> IF fixes' = "none" THEN {} ELSE {"_buildfix"}]
        /\ comment' = Rendered(report', config)
        /\ queue' = Both(report', comment')
        /\ pc' = "sarif"
        /\ UNCHANGED <<hook, sections, exit>>
  /\ UNCHANGED <<disk, run, opts, config, pre_cfg, applied, stuck, crashes>>

WriteSarif ==
  /\ pc = "sarif" /\ queue = << >>
  /\ queue' = IF opts.sarif THEN <<Put("sarif.json", [run |-> run])>> ELSE << >>
  /\ pc' = "baseline"
  /\ UNCHANGED <<disk, run, opts, config, pre_cfg, memory, exit, applied, stuck, crashes>>

(* The trend goes to stderr only. *)
ReadBaseline ==
  /\ pc = "baseline" /\ queue = << >>
  /\ IF opts.baseline = "unreadable" THEN Quit(1)
     ELSE pc' = "buildfix" /\ UNCHANGED <<exit, queue>>
  /\ UNCHANGED <<disk, run, opts, config, pre_cfg, memory, applied, stuck, crashes>>

\* Mutant: the files keep what execute wrote.
NotRewritten(rep, before, after) ==
  /\ report' = rep
  /\ comment' = Rendered(rep, pre_cfg)
  /\ queue' = before \o after

(* Every later phase renders the comment anew - under the configuration    *)
(* read first - and rewrites both files.                                   *)
Rewrite(rep, before, after) ==
  /\ report' = rep
  /\ comment' = Rendered(rep, pre_cfg)
  /\ queue' = before \o Both(rep, Rendered(rep, pre_cfg)) \o after

(***************************************************************************)
(* Buildfix auto-apply.                                                    *)
(***************************************************************************)
Actuated == fixes = "eligible" /\ Buildfix.auto_apply /\ Buildfix.actuator # None

(* A blank command is refused by the adapter before anything is started. *)
Spawned == Actuated /\ Buildfix.actuator.command # 0

(* The apply summary's status and reason. *)
ApplyStatus ==
  IF ~Actuated THEN "skipped" ELSE IF Spawned /\ opts.answer = "ok" THEN "applied" ELSE "failed"

BuildfixEvaluated == fixes # "none" \/ buildfix_apply_requested(opts.buildfix, opts.cli)

(* The actuator works on the tree before its evidence is written anywhere. *)
RunActuator ==
  /\ pc = "buildfix" /\ queue = << >> /\ FeatureEnabled(opts.cli, "buildfix") /\ BuildfixEvaluated
  /\ applied' = IF Spawned THEN applied \cup {run} ELSE applied
  /\ pc' = "record_apply"
  /\ UNCHANGED <<disk, run, opts, config, pre_cfg, memory, queue, exit, stuck, crashes>>

\* Mutant: the sidecar is not written.
RecordInReportOnly ==
  /\ pc = "record_apply"
  /\ Rewrite([report EXCEPT !.data = @ \cup {"_buildfix_apply"}], << >>, << >>)
  /\ pc' = "signing"
  /\ UNCHANGED <<disk, run, opts, config, pre_cfg, fixes, hook, sections, exit, applied, stuck, crashes>>

RecordApply ==
  /\ pc = "record_apply"
  /\ Rewrite([report EXCEPT !.data = @ \cup {"_buildfix_apply"}],
             <<Put("buildfix.apply.json", [run |-> run, status |-> ApplyStatus])>>, << >>)
  /\ pc' = "signing"
  /\ UNCHANGED <<disk, run, opts, config, pre_cfg, fixes, hook, sections, exit, applied, stuck, crashes>>

\* Mutant: an earlier run's sidecar is not removed.
SidecarStays ==
  /\ pc = "buildfix" /\ queue = << >> /\ ~FeatureEnabled(opts.cli, "buildfix") /\ BuildfixEvaluated
  /\ Rewrite([report EXCEPT !.data = @ \ {"_buildfix", "_buildfix_apply"}], << >>, << >>)
  /\ pc' = "signing"
  /\ UNCHANGED <<disk, run, opts, config, pre_cfg, fixes, hook, sections, exit, applied, stuck, crashes>>

BuildfixDisabled ==
  /\ pc = "buildfix" /\ queue = << >> /\ ~FeatureEnabled(opts.cli, "buildfix") /\ BuildfixEvaluated
  /\ Rewrite([report EXCEPT !.data = @ \ {"_buildfix", "_buildfix_apply"}],
             << >>, <<Remove("buildfix.apply.json")>>)
  /\ pc' = "signing"
  /\ UNCHANGED <<disk, run, opts, config, pre_cfg, fixes, hook, sections, exit, applied, stuck, crashes>>

BuildfixNotEvaluated ==
  /\ pc = "buildfix" /\ queue = << >> /\ ~BuildfixEvaluated
  /\ pc' = "signing"
  /\ UNCHANGED <<disk, run, opts, config, pre_cfg, memory, queue, exit, applied, stuck, crashes>>

(***************************************************************************)
(* Policy signing.                                                         *)
(***************************************************************************)

(* sign_policy_snapshot (crates/cockpitctl-domain-signing): an HMAC over    *)
(* the canonical bytes of the policy the report was judged under.  Other   *)
(* policies and other keys give other signatures.                          *)
sign_policy_snapshot(policy, key) == [run |-> run, config |-> policy, key |-> key]

Sign ==
  /\ pc = "signing" /\ queue = << >> /\ Signing.enabled /\ FeatureEnabled(opts.cli, "policy-signing")
  /\ IF Key = None
     THEN Quit(1) /\ UNCHANGED <<report, comment>>
     ELSE /\ Rewrite([report EXCEPT !.data = @ \cup {"_policy_signature"}],
                     <<Put("policy.signature.json", sign_policy_snapshot(report.config, Key))>>, << >>)
          /\ pc' = "hooks" /\ UNCHANGED exit
  /\ UNCHANGED <<disk, run, opts, config, pre_cfg, fixes, hook, sections, applied, stuck, crashes>>

SigningDisabled ==
  /\ pc = "signing" /\ queue = << >> /\ Signing.enabled /\ ~FeatureEnabled(opts.cli, "policy-signing")
  /\ Rewrite([report EXCEPT !.data = @ \ {"_policy_signature"}],
             << >>, <<Remove("policy.signature.json")>>)
  /\ pc' = "hooks"
  /\ UNCHANGED <<disk, run, opts, config, pre_cfg, fixes, hook, sections, exit, applied, stuck, crashes>>

SigningNotRequested ==
  /\ pc = "signing" /\ queue = << >> /\ ~Signing.enabled
  /\ pc' = "hooks"
  /\ UNCHANGED <<disk, run, opts, config, pre_cfg, memory, queue, exit, applied, stuck, crashes>>

(***************************************************************************)
(* Hooks, one at a time; then the sections they returned.                  *)
(***************************************************************************)
HooksLeft == FeatureEnabled(opts.cli, "hooks") /\ hook < Len(opts.hooks)

(* A hook that fails is skipped.  The files of the others are written as   *)
(* they are named; write_extra_file refuses an unsafe name, which ends the *)
(* run (WriteError) and loses the sections collected so far.               *)
RunHook ==
  /\ pc = "hooks" /\ queue = << >> /\ HooksLeft
  /\ hook' = hook + 1
  /\ LET outcome == opts.hooks[hook + 1]
     IN  IF outcome.fails THEN UNCHANGED <<sections, queue>>
         ELSE /\ sections' = (sections \/ outcome.sections)
              /\ queue' = [i \in DOMAIN outcome.files |->
                            Put(outcome.files[i], [run |-> run, by |-> "hook"])]
  /\ UNCHANGED <<disk, run, opts, pc, config, pre_cfg, report, fixes, comment, exit, applied, stuck,
                 crashes>>

AppendSections ==
  /\ pc = "hooks" /\ queue = << >> /\ ~HooksLeft
  /\ queue' = IF sections THEN <<Put("comment.md", [comment EXCEPT !.hooks = TRUE])>> ELSE << >>
  /\ pc' = "exit"
  /\ UNCHANGED <<disk, run, opts, config, pre_cfg, memory, exit, applied, stuck, crashes>>

Exit ==
  /\ pc = "exit" /\ queue = << >>
  /\ Quit(IF report.verdict = "fail" THEN 2 ELSE 0)
  /\ UNCHANGED <<disk, run, opts, config, pre_cfg, memory, applied, stuck, crashes>>

(***************************************************************************)
(* Files.                                                                  *)
(***************************************************************************)

(* fs::write opens with O_TRUNC; until the data is there the file is Torn. *)
OpenTruncate ==
  /\ queue # << >> /\ Head(queue).content # None
  /\ Head(queue).file \in Files /\ disk[Head(queue).file] # Torn
  /\ disk' = [disk EXCEPT ![Head(queue).file] = Torn]
  /\ UNCHANGED <<run, opts, pc, config, pre_cfg, memory, queue, exit, applied, stuck, crashes>>

FillFile ==
  /\ queue # << >> /\ Head(queue).content # None
  /\ Head(queue).file \in Files /\ disk[Head(queue).file] = Torn
  /\ disk' = [disk EXCEPT ![Head(queue).file] = Head(queue).content]
  /\ queue' = Tail(queue)
  /\ UNCHANGED <<run, opts, pc, config, pre_cfg, memory, exit, applied, stuck, crashes>>

(* let _ = fs::remove_file(..): it may fail, which is ignored. *)
RemoveFile ==
  /\ queue # << >> /\ Head(queue).content = None
  /\ \/ disk' = [disk EXCEPT ![Head(queue).file] = None] /\ UNCHANGED stuck
     \/ disk[Head(queue).file] # None /\ stuck' = stuck \cup {Head(queue).file} /\ UNCHANGED disk
  /\ queue' = Tail(queue)
  /\ UNCHANGED <<run, opts, pc, config, pre_cfg, memory, exit, applied, crashes>>

\* Mutant: a failed write is tried again for ever.
WriteErrorRetried ==
  /\ queue # << >> /\ Head(queue).content # None
  /\ UNCHANGED vars

(* The open or the write fails: ? carries the error to main_entry. *)
WriteError ==
  /\ queue # << >> /\ Head(queue).content # None
  /\ Quit(1)
  /\ UNCHANGED <<disk, run, opts, config, pre_cfg, memory, applied, stuck, crashes>>

(***************************************************************************)
(* Outside the program.                                                    *)
(***************************************************************************)
Crash ==
  /\ pc # "idle" /\ crashes < MaxCrashes
  /\ crashes' = crashes + 1
  /\ pc' = "idle" /\ queue' = << >>
  /\ UNCHANGED <<disk, run, opts, config, pre_cfg, memory, exit, applied, stuck>>

(* BOUND: cockpit.toml is edited at most once. *)
EditConfig ==
  /\ pc # "idle" /\ config = 0 /\ config' = 1
  /\ UNCHANGED <<disk, run, opts, pc, pre_cfg, memory, queue, exit, applied, stuck, crashes>>

Program ==
  \/ CheckOptions \/ Execute \/ WriteSarif \/ ReadBaseline
  \/ RunActuator \/ RecordApply \/ BuildfixDisabled \/ BuildfixNotEvaluated
  \/ Sign \/ SigningDisabled \/ SigningNotRequested
  \/ RunHook \/ AppendSections \/ Exit
  \/ OpenTruncate \/ FillFile \/ RemoveFile \/ WriteError

Next == Start \/ Program \/ Crash \/ EditConfig

(* A started invocation keeps running unless it is killed. *)
Spec == Init /\ [][Next]_vars /\ WF_vars(Program)

(***************************************************************************)
(* Correctness.                                                            *)
(***************************************************************************)

(* The files and the variables of cmd_ingest keep their types; no file ever *)
(* holds another file's content.                                           *)
TypeOK ==
  /\ \A f \in Files : disk[f] \in {None, Torn} \cup Content(f)
  /\ run \in 0 .. MaxRuns /\ opts \in Invocations
  /\ pc \in {"idle", "check", "execute", "sarif", "baseline", "buildfix", "record_apply",
             "signing", "hooks", "exit"}
  /\ config \in {0, 1} /\ pre_cfg \in {0, 1}
  /\ report \in ReportContent \cup {None}
  /\ fixes \in {"none", "ineligible", "eligible"}
  /\ comment \in CommentContent \cup {None}
  /\ hook \in 0 .. Len(opts.hooks) /\ sections \in BOOLEAN
  /\ \A i \in DOMAIN queue : queue[i].file \in Files \cup {"unsafe"}
  /\ exit \in {None, 0, 1, 2}
  /\ applied \subseteq 1 .. run /\ stuck \subseteq {"buildfix.apply.json", "policy.signature.json"}
  /\ crashes \in 0 .. MaxCrashes

Whole(file) == disk[file] \notin {None, Torn}

(* A hook of this invocation named the file itself. *)
HookNamed(file) ==
  \E i \in DOMAIN opts.hooks : \E j \in DOMAIN opts.hooks[i].files : opts.hooks[i].files[j] = file

Ended == pc = "idle" /\ exit \in {0, 2}

(* Exit codes 0 and 2 stand for two complete files of this run: report.json *)
(* is the final report with all its evidence, whatever the phases or an     *)
(* earlier, killed run left; comment.md shows that report; and the code is  *)
(* the report's verdict.                                                    *)
ExitMatchesFiles ==
  Ended =>
    /\ ~HookNamed("report.json") =>
         disk["report.json"] = report /\ (exit = 2 <=> disk["report.json"].verdict = "fail")
    /\ ~HookNamed("comment.md") =>
         /\ Whole("comment.md")
         /\ disk["comment.md"].run = run /\ disk["comment.md"].data = report.data
         /\ disk["comment.md"].hooks = sections

(* At every moment, after a kill and between two writes too, a complete     *)
(* comment.md is of the same run as report.json or of an earlier one, except *)
(* while report.json is cut short.  (Which of one run's rewrites the two    *)
(* are of is not compared here; ExitMatchesFiles says how a run ends.)      *)
CommentNeverAhead ==
  Whole("comment.md") =>
    disk["report.json"] = Torn \/ (Whole("report.json") /\ disk["comment.md"].run <= disk["report.json"].run)

(* An earlier run's sidecar, beside a report that does not mention it,      *)
(* stands only if this run had nothing to do with the feature or could not  *)
(* remove the file.                                                         *)
LeftOver(sidecar, evaluated) ==
  disk[sidecar] # None =>
    /\ Whole(sidecar) => disk[sidecar].run < run
    /\ ~evaluated \/ sidecar \in stuck

(* Evidence and report agree when a run ends normally.  If the report tells *)
(* of evidence, the sidecar is complete, of this run and about the policy   *)
(* the report was judged under, and an actuator that was started is not     *)
(* recorded as skipped.  If it does not, any sidecar is a LeftOver.         *)
EvidenceMatchesReport ==
  Ended =>
    /\ ~HookNamed("buildfix.apply.json") =>
         LET sidecar == disk["buildfix.apply.json"]
         IN  IF "_buildfix_apply" \in report.data
             THEN /\ Whole("buildfix.apply.json") /\ sidecar.run = run
                  /\ run \in applied => sidecar.status # "skipped"
             ELSE run \notin applied /\ LeftOver("buildfix.apply.json", BuildfixEvaluated)
    /\ ~HookNamed("policy.signature.json") =>
         IF "_policy_signature" \in report.data
         THEN disk["policy.signature.json"] = [run |-> run, config |-> report.config, key |-> Key]
         ELSE LeftOver("policy.signature.json", Signing.enabled)

(* Features keep their contract (the rows "Absent" of FEATURE_TOGGLE_GRID): *)
(* a run with a disabled feature ends without that feature's key in the     *)
(* report and without its section in the comment, whatever was found or     *)
(* configured; and the sidecar an earlier run left is gone too if this run  *)
(* was asked for the feature (or found fixes), unless it cannot be removed. *)
DisabledFeaturesLeaveNothing ==
  Ended =>
    \A row \in {<<"buildfix", contract.buildfix, BuildfixEvaluated>>,
                <<"policy-signing", contract.signing, Signing.enabled>>} :
      ~FeatureEnabled(opts.cli, row[1]) =>
        LET key == row[2].report_data_key
            sidecar == row[2].sidecar_file
        IN  /\ key \notin report.data
            /\ ~HookNamed("report.json") => key \notin disk["report.json"].data
            /\ ~HookNamed("comment.md") => key \notin disk["comment.md"].data
            /\ ~HookNamed(sidecar) => LeftOver(sidecar, row[3])

(* The policy is signed with the key the user named last: the one of the    *)
(* command line if there is one, a configured file before a configured      *)
(* variable otherwise; a key that was replaced never signs.                 *)
SignedWithTheNamedKey ==
  LET sidecar == disk["policy.signature.json"]
  IN  (Ended /\ Whole("policy.signature.json") /\ ~HookNamed("policy.signature.json") /\ sidecar.run = run) =>
        sidecar.key = IF opts.cli.key_path # None THEN opts.files[opts.cli.key_path]
                      ELSE IF opts.cli.key_env # None THEN opts.environment[opts.cli.key_env]
                      ELSE IF opts.signing.key_path # None THEN opts.files[opts.signing.key_path]
                      ELSE opts.environment[opts.signing.key_env]

(* The actuator changes the tree only when this run's verdict and comment   *)
(* are already on disk, whatever phases and failures came before.           *)
ActuatorAfterVerdict ==
  [][applied' # applied =>
       /\ Whole("report.json") /\ disk["report.json"].run = run
       /\ Whole("comment.md") /\ disk["comment.md"].run = run]_vars

(* An invocation that is not killed comes to an exit code. *)
RunsEnd == pc # "idle" ~> pc = "idle"
=============================================================================
