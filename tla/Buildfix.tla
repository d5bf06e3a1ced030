------------------------------ MODULE Buildfix ------------------------------
(***************************************************************************)
(* Buildfix from plan to tree: the last loop of IngestUseCase::execute     *)
(* reads artifacts/<sensor>/plan.json of every discovered sensor and       *)
(* matches the fixes with the highlights of the report                     *)
(* (crates/cockpitctl-domain-buildfix); cmd_ingest then selects the fixes  *)
(* it may apply, hands them to the actuator and records what came of it.   *)
(*                                                                         *)
(* The sensors' jobs may replace a plan between any two of the calls that  *)
(* look at it, and any of these calls may fail.                            *)
(***************************************************************************)
EXTENDS Domain, Options, SequencesExt

CONSTANTS
  Sensors,       \* valid sensor ids
  PlanFiles,     \* the contents a plan.json may have
  MaxPlanBytes,  \* FsLayout::max_receipt_bytes, which bounds plans too
  Inputs,        \* what an invocation starts from, besides the plans
  Elsewhere,     \* what a plan's path may lead to besides a file: None, Escape
  Escape,        \* a path that resolves outside the artifacts root
  AnswerIds,     \* the ids an actuator may print as applied
  EnvBudget      \* BOUND: how often a plan may change during the run

FindingRef ==
  [sensor_id : Nat, fingerprint : Fingerprint \cup {None}, code : Nat \cup {None}]

(* Of a fix's preconditions the commit it was made for is kept. *)
Fix ==
  [id : Nat, safety : SafetyLevel, finding_refs : Seq(FindingRef), repo_head : Nat \cup {None}]

(* fixes = None: not a plan serde can parse. *)
PlanFile == [size : Nat, fixes : Seq(Fix) \cup {None}]

FixSummary ==
  [fix_id : Nat, sensor_id : Sensors, safety : SafetyLevel, matched : SUBSET Nat, unmatched : BOOLEAN]

(* Why an evaluated run starts no actuator.                                *)
SkipReasons ==
  {"no_buildfix_plans", "auto_apply_disabled", "no_eligible_fixes", "no_actuator_configured"}

SensorReport ==
  [status : VerdictStatus, counts : VerdictCounts, reasons : SUBSET SensorReasons, findings : Seq(Finding)]

(* The judged sensors are those in the domain of `receipts`; None stands    *)
(* for a receipt that could not be used.                                   *)
Input ==
  [config         : BuildfixPolicy,
   cli            : CommandLine,
   discovered     : SUBSET Sensors,
   receipts       : UNION {[ids -> SensorReport \cup {None}] : ids \in SUBSET Sensors},
   max_per_sensor_findings : Nat,
   max_highlights : Nat,
   blocking       : SUBSET Nat,
   head           : Nat]

ASSUME BuildfixAssumption ==
  /\ Sensors \subseteq Nat /\ IsFiniteSet(Sensors)
  /\ PlanFiles \subseteq PlanFile /\ None \notin PlanFiles /\ Escape \notin PlanFiles
  /\ None # Escape /\ Elsewhere \subseteq {None, Escape}
  /\ None \notin Seq(FixSummary) /\ None \notin SkipReasons
  /\ \A in \in Inputs :
       /\ in.config \in BuildfixPolicy /\ in.cli \in CommandLine
       /\ in.discovered \subseteq Sensors
       /\ DOMAIN in.receipts \subseteq Sensors
       /\ \A s \in DOMAIN in.receipts : in.receipts[s] = None \/ in.receipts[s] \in SensorReport
       /\ {in.max_per_sensor_findings, in.max_highlights, in.head} \subseteq Nat
       /\ in.blocking \subseteq Nat
  /\ AnswerIds \subseteq Nat
  /\ MaxPlanBytes \in Nat /\ EnvBudget \in Nat

(***************************************************************************)
(* The candidates of the highlights (module Ingest has the steps of this). *)
(* A receipt that cannot be used is shown as one off the schema; what      *)
(* cockpitctl says under its own name is left out.  The highlights depend  *)
(* neither on a sensor's policy nor on its comment.                        *)
(***************************************************************************)
HighlightsOf(in, s) ==
  IF in.receipts[s] = None
  THEN synthesize_schema_violation_sensor(s, DefaultSensorPolicy, FALSE).highlights
  ELSE summarize_sensor_report(s, FALSE, DefaultSensorPolicy, in.receipts[s],
                               in.max_per_sensor_findings).highlights

Candidates(in) ==
  LET ids == Ascending(DOMAIN in.receipts)
  IN  FlattenSeq([k \in DOMAIN ids |-> HighlightsOf(in, ids[k])])

(***************************************************************************)
(* Matching and selection.                                                 *)
(***************************************************************************)

\* Mutant: a reference without a code hits nothing.
RefHitsByCode(sensor_id, ref, h) ==
  /\ ref.sensor_id = sensor_id /\ h.sensor_id = sensor_id
  /\ ref.fingerprint # None => h.finding.fingerprint = ref.fingerprint
  /\ h.finding.code = ref.code

(* A reference hits a highlight of the plan's own sensor in everything it  *)
(* names; one that names neither fingerprint nor code hits all of them.    *)
RefHits(sensor_id, ref, h) ==
  /\ ref.sensor_id = sensor_id /\ h.sensor_id = sensor_id
  /\ ref.fingerprint # None => h.finding.fingerprint = ref.fingerprint
  /\ ref.code # None => h.finding.code = ref.code

(* The matched findings of a fix, as indices of the highlights (the list   *)
(* the code keeps repeats one that several references hit).                *)
Matched(sensor_id, fix, highlights) ==
  {k \in DOMAIN highlights :
     \E r \in DOMAIN fix.finding_refs : RefHits(sensor_id, fix.finding_refs[r], highlights[k])}

SummarizeFix(sensor_id, fix, highlights) ==
  [fix_id    |-> fix.id, sensor_id |-> sensor_id, safety |-> fix.safety,
   matched   |-> Matched(sensor_id, fix, highlights),
   unmatched |-> Matched(sensor_id, fix, highlights) = {}]

FixKey(f) == <<safety_level_rank[f.safety], f.sensor_id, f.fix_id>>

match_buildfix_plan(sensor_id, fixes, highlights) ==
  LET found == [i \in DOMAIN fixes |-> SummarizeFix(sensor_id, fixes[i], highlights)]
  IN  SortByKey(found, [i \in DOMAIN found |-> FixKey(found[i])])

\* Mutant: require_matched_finding is forgotten.
WithinSafety(f, gate) ==
  safety_level_rank[f.safety] <= safety_level_rank[gate.max_auto_apply_safety]

Eligible(f, gate) ==
  /\ safety_level_rank[f.safety] <= safety_level_rank[gate.max_auto_apply_safety]
  /\ gate.require_matched_finding => ~f.unmatched

select_auto_apply_fixes(fixes, gate) ==
  Pick(fixes, {i \in DOMAIN fixes : Eligible(fixes[i], gate)})

VARIABLES
  plans,      \* what artifacts/<sensor>/plan.json is, per sensor
  budget,     \* changes the sensors' jobs may still make
  input,      \* configuration, command line, commit, the judged receipts
  pc,         \* the program's next step
  policy,     \* effective_buildfix
  highlights, \* the report's highlights
  todo,       \* discovered sensors whose plan is still to be read, in order
  all_fixes,  \* the fix summaries of the plans read so far: BuildfixSummary::fixes
  asked,      \* the fixes of the request sent to the actuator, None if there is none
  tree,       \* indices of the asked fixes the actuator has applied to the working tree
  evidence,   \* BuildfixApplySummary, None until it is recorded
  exit,       \* 1 when the run gave up, None otherwise
  checked,    \* HISTORY: what plan.json was when its size was checked
  taken       \* HISTORY: the fixes as they stood in the plans, None for a plan not used

program == <<policy, highlights, todo, all_fixes, asked, tree, evidence, exit, checked, taken>>
vars == <<plans, budget, input, pc, program>>

Init ==
  /\ plans \in [Sensors -> PlanFiles \cup Elsewhere]
  /\ budget = EnvBudget
  /\ input \in Inputs
  /\ pc = "options"
  /\ policy = input.config /\ highlights = << >>
  /\ todo = Ascending(input.discovered)
  /\ all_fixes = << >>
  /\ asked = None /\ tree = {} /\ evidence = None /\ exit = None
  /\ checked = [s \in Sensors |-> None]
  /\ taken = [s \in Sensors |-> None]

(* ? or bail!: the run ends with code 1. *)
GiveUp ==
  /\ pc' = "failed" /\ exit' = 1
  /\ UNCHANGED <<plans, budget, input, policy, highlights, todo, all_fixes, asked, tree, evidence,
                 checked, taken>>

MergeOptions ==
  /\ pc = "options" /\ ~ActuatorUnnamed(input.config, input.cli)
  /\ policy' = effective_buildfix(input.config, input.cli)
  /\ highlights' = select_highlights(Candidates(input), input.max_highlights, input.blocking)
  /\ pc' = "exists"
  /\ UNCHANGED <<plans, budget, input, todo, all_fixes, asked, tree, evidence, exit, checked, taken>>

RefuseOptions == pc = "options" /\ ActuatorUnnamed(input.config, input.cli) /\ GiveUp

(***************************************************************************)
(* read_plan_bytes, call by call.  (The id check that comes first passes:  *)
(* discovery let only valid ids through.)  Whatever speaks against a plan  *)
(* drops it without a word.                                                *)
(***************************************************************************)
Sensor == Head(todo)

Goto(step) ==
  /\ pc' = step
  /\ UNCHANGED <<plans, budget, input, program>>

NextPlan ==
  /\ pc' = "exists" /\ todo' = Tail(todo)
  /\ UNCHANGED <<plans, budget, input, policy, highlights, all_fixes, asked, tree, evidence, exit,
                 checked, taken>>

PlanExists ==
  /\ pc = "exists" /\ todo # << >>
  /\ IF plans[Sensor] = None THEN NextPlan ELSE Goto("canonicalize")

(* A plan that is gone by now cannot be canonicalized, which counts as     *)
(* unsafe like one outside the root.                                       *)
CanonicalizePlan ==
  /\ pc = "canonicalize"
  /\ IF plans[Sensor] \in {None, Escape} THEN NextPlan ELSE Goto("metadata")

(* A path that leads out of the root since it was checked is followed.     *)
PlanContents(s) == IF plans[s] = Escape THEN PlanFiles ELSE {plans[s]}

\* Mutant: the size of a plan is not checked.
AnySize ==
  /\ pc = "metadata"
  /\ \E file \in PlanContents(Sensor) :
       /\ pc' = "read" /\ checked' = [checked EXCEPT ![Sensor] = plans[Sensor]]
       /\ UNCHANGED <<plans, budget, input, policy, highlights, todo, all_fixes, asked, tree,
                      evidence, exit, taken>>

CheckPlanSize ==
  /\ pc = "metadata"
  /\ \/ plans[Sensor] = None /\ GiveUp
     \/ /\ plans[Sensor] # None
        /\ \E file \in PlanContents(Sensor) :
             IF file.size > MaxPlanBytes THEN NextPlan
             ELSE /\ pc' = "read" /\ checked' = [checked EXCEPT ![Sensor] = plans[Sensor]]
                  /\ UNCHANGED <<plans, budget, input, policy, highlights, todo, all_fixes, asked,
                                 tree, evidence, exit, taken>>

ReadPlan ==
  /\ pc = "read"
  /\ \/ plans[Sensor] = None /\ GiveUp
     \/ /\ plans[Sensor] # None
        /\ \E file \in PlanContents(Sensor) :
             IF file.fixes = None THEN NextPlan
             ELSE /\ all_fixes' = all_fixes \o match_buildfix_plan(Sensor, file.fixes, highlights)
                  /\ taken' = [taken EXCEPT ![Sensor] = file.fixes]
                  /\ pc' = "exists" /\ todo' = Tail(todo)
                  /\ UNCHANGED <<plans, budget, input, policy, highlights, asked, tree, evidence,
                                 exit, checked>>

(* fs::metadata or fs::read fails for another reason. *)
PlanIoError == pc \in {"metadata", "read"} /\ GiveUp

(***************************************************************************)
(* Auto-apply.  Between the plans and here execute publishes the report    *)
(* and the comment (module Publish).                                       *)
(***************************************************************************)
Selected == select_auto_apply_fixes(all_fixes, policy)

FixIds(fixes) == [k \in DOMAIN fixes |-> fixes[k].fix_id]

Evidence(status, reason, applied, errors) ==
  [status |-> status, reason |-> reason, candidates |-> FixIds(all_fixes),
   selected |-> FixIds(Selected), applied |-> applied, errors |-> errors]

Record(entry) ==
  /\ evidence' = entry /\ pc' = "done"
  /\ UNCHANGED <<plans, budget, input, policy, highlights, todo, all_fixes, asked, tree, exit,
                 checked, taken>>

(* What the comment says of it: render_buildfix_section and                 *)
(* render_buildfix_apply_section (crates/cockpitctl-render).  The counts    *)
(* are those of the summary execute puts together; what the actuator says  *)
(* it skipped is not shown.                                                *)
BuildfixSummary(fixes) ==
  LET unmatched == Cardinality({i \in DOMAIN fixes : fixes[i].unmatched})
  IN  [fixes |-> fixes, total_fixes |-> Len(fixes), matched_count |-> Len(fixes) - unmatched,
       unmatched_count |-> unmatched]

render_buildfix_section(summary) ==
  [total |-> summary.total_fixes, matched |-> summary.matched_count,
   unmatched |-> summary.unmatched_count,
   rows  |-> [k \in DOMAIN summary.fixes |->
               [fix_id |-> summary.fixes[k].fix_id, safety |-> summary.fixes[k].safety,
                matched |-> ~summary.fixes[k].unmatched]]]

render_buildfix_apply_section(summary) ==
  [status |-> summary.status, reason |-> summary.reason, selected |-> summary.selected,
   applied |-> summary.applied, errors |-> summary.errors]

(* Why no actuator is started, the first reason that holds; None if it is. *)
SkipReason ==
  IF all_fixes = << >> THEN "no_buildfix_plans"
  ELSE IF ~policy.auto_apply THEN "auto_apply_disabled"
  ELSE IF Selected = << >> THEN "no_eligible_fixes"
  ELSE IF policy.actuator = None THEN "no_actuator_configured"
  ELSE None

PlansRead == pc = "exists" /\ todo = << >>

Evaluated ==
  /\ FeatureEnabled(input.cli, "buildfix")
  /\ all_fixes # << >> \/ buildfix_apply_requested(input.config, input.cli)

NotEvaluated == PlansRead /\ ~Evaluated /\ Goto("done")

SkipApply == PlansRead /\ Evaluated /\ SkipReason # None /\ Record(Evidence("skipped", SkipReason, {}, FALSE))

StartActuator ==
  /\ PlansRead /\ Evaluated /\ SkipReason = None
  /\ asked' = Selected /\ pc' = "actuator"
  /\ UNCHANGED <<plans, budget, input, policy, highlights, todo, all_fixes, tree, evidence, exit,
                 checked, taken>>

(* run_buildfix_actuator returns Ok: the ids the actuator prints are taken  *)
(* over as they are, with or without errors.  Empty output says nothing.   *)
ActuatorAnswers ==
  /\ pc = "actuator" /\ policy.actuator.command # 0
  /\ \E applied \in SUBSET AnswerIds, errors \in BOOLEAN :
       Record(IF errors THEN Evidence("failed", "actuator_reported_errors", applied, TRUE)
              ELSE Evidence("applied", None, applied, FALSE))

\* Mutant: an actuator that did not answer counts as not run.
ErrsUnrecorded ==
  /\ pc = "actuator"
  /\ Record(Evidence("skipped", "actuator_error", {}, TRUE))

(* It returns Err: a blank command, a timeout, an exit code, bad output.    *)
ActuatorErrs ==
  /\ pc = "actuator"
  /\ Record(Evidence("failed", "actuator_error", {}, TRUE))

(***************************************************************************)
(* Outside the program: an actuator that keeps to its request, and jobs    *)
(* that still write plans.                                                 *)
(***************************************************************************)
ActuatorApplies ==
  /\ pc = "actuator" /\ policy.actuator.command # 0
  /\ \E i \in DOMAIN asked \ tree : tree' = tree \cup {i}
  /\ UNCHANGED <<plans, budget, input, pc, policy, highlights, todo, all_fixes, asked, evidence,
                 exit, checked, taken>>

PlanWritten ==
  /\ pc \in {"exists", "canonicalize", "metadata", "read"} /\ todo # << >> /\ budget > 0
  /\ budget' = budget - 1
  /\ \E s \in Sensors : \E file \in (PlanFiles \cup Elsewhere) \ {plans[s]} :
       plans' = [plans EXCEPT ![s] = file]
  /\ UNCHANGED <<input, pc, program>>

Next ==
  \/ MergeOptions \/ RefuseOptions
  \/ PlanExists \/ CanonicalizePlan \/ CheckPlanSize \/ ReadPlan \/ PlanIoError
  \/ NotEvaluated \/ SkipApply \/ StartActuator \/ ActuatorAnswers \/ ActuatorErrs
  \/ ActuatorApplies \/ PlanWritten

Spec == Init /\ [][Next]_vars

(***************************************************************************)
(* Correctness.                                                            *)
(***************************************************************************)
BuildfixApplyStatus == {"skipped", "applied", "failed"}

BuildfixApplySummary ==
  [status     : BuildfixApplyStatus,
   reason     : SkipReasons \cup {"actuator_reported_errors", "actuator_error", None},
   candidates : Seq(Nat), selected : Seq(Nat), applied : SUBSET Nat, errors : BOOLEAN]

(* The variables of the run keep their types, and the actuator has applied  *)
(* no more than it was asked for.                                          *)
TypeOK ==
  /\ plans \in [Sensors -> PlanFiles \cup Elsewhere]
  /\ budget \in 0 .. EnvBudget /\ input \in Inputs
  /\ pc \in {"options", "exists", "canonicalize", "metadata", "read", "actuator", "done", "failed"}
  /\ policy \in BuildfixPolicy
  /\ highlights \in Seq(Highlight)
  /\ todo \in Seq(Sensors) /\ (pc \in {"canonicalize", "metadata", "read"} => todo # << >>)
  /\ all_fixes \in Seq(FixSummary)
  /\ asked = None \/ (asked \in Seq(FixSummary) /\ tree \subseteq DOMAIN asked)
  /\ asked = None => tree = {}
  /\ evidence \in BuildfixApplySummary \cup {None}
  /\ exit \in {None, 1}

(* What a receipt said, as far as a reference names it: an independent      *)
(* reading of the matching rule, over what was found instead of what is    *)
(* shown.                                                                  *)
Concerns(fix, sensor_id, found) ==
  \E r \in DOMAIN fix.finding_refs :
    LET ref == fix.finding_refs[r]
    IN  /\ ref.sensor_id = sensor_id /\ found.sensor_id = sensor_id
        /\ ref.fingerprint \in {None, fingerprint_of(found)}
        /\ ref.code \in {None, found.finding.code}

AsShown(found) == [found EXCEPT !.finding.fingerprint = fingerprint_of(found)]

Surfaced(found) == \E k \in DOMAIN highlights : highlights[k] = AsShown(found)

(* The actuator is asked only for what the user allowed and the reader of   *)
(* the comment can see: buildfix is not disabled; auto-apply is on, in the *)
(* file or on the command line; the level is within the gate the command line sets, or else the    *)
(* file; the fix stands in a plan read in this run; and, where the policy   *)
(* requires it, a finding of that very sensor that the fix is about is one  *)
(* of the highlights.                                                      *)
OnlyJustifiedFixesAreAsked ==
  asked # None =>
    /\ "buildfix" \notin input.cli.disabled
    /\ input.config.auto_apply \/ input.cli.auto_apply
    /\ \A i \in DOMAIN asked :
         LET level == IF input.cli.max_safety = None THEN input.config.max_auto_apply_safety
                      ELSE input.cli.max_safety
         IN  /\ asked[i].safety = "unsafe" => level = "unsafe"
             /\ asked[i].safety = "guarded" => level # "safe"
             /\ \E j \in DOMAIN taken[asked[i].sensor_id] :
                  LET fix == taken[asked[i].sensor_id][j]
                  IN  /\ fix.id = asked[i].fix_id /\ fix.safety = asked[i].safety
                      /\ input.config.require_matched_finding =>
                           \E c \in DOMAIN Candidates(input) :
                             /\ Concerns(fix, asked[i].sensor_id, Candidates(input)[c])
                             /\ Surfaced(Candidates(input)[c])

(* The findings a sensor's receipt reports, and those of them that are not  *)
(* less severe than the n-th.                                              *)
Reported(s) ==
  IF s \in DOMAIN input.receipts /\ input.receipts[s] # None THEN input.receipts[s].findings ELSE << >>

NotLighter(findings, n) ==
  {m \in DOMAIN findings \ {n} :
     severity_rank[findings[m].severity] <= severity_rank[findings[n].severity]}

(* Why the n-th finding of a sensor is not one of the highlights.           *)
LeftOut(s, n) ==
  LET found == [sensor_id |-> s, finding |-> Reported(s)[n]]
  IN  \/ Cardinality(NotLighter(Reported(s), n)) >= input.max_per_sensor_findings
      \/ Len(highlights) = input.max_highlights
      \/ \E k \in DOMAIN highlights :
           highlights[k].finding.fingerprint = fingerprint_of(found) /\ highlights[k] # AsShown(found)

(* A fix counts as unmatched although the receipt reports what it is about  *)
(* only for one of three reasons: max_per_sensor_findings is used up by    *)
(* findings of that sensor that are no less severe; the highlights are     *)
(* full; or another finding is shown under the same fingerprint.           *)
UnmatchedIsExplained ==
  \A i \in DOMAIN all_fixes : all_fixes[i].unmatched =>
    \E j \in DOMAIN taken[all_fixes[i].sensor_id] :
      LET sensor_id == all_fixes[i].sensor_id
          fix == taken[sensor_id][j]
      IN  /\ fix.id = all_fixes[i].fix_id /\ fix.safety = all_fixes[i].safety
          /\ \A n \in DOMAIN Reported(sensor_id) :
               Concerns(fix, sensor_id, [sensor_id |-> sensor_id, finding |-> Reported(sensor_id)[n]])
                 => LeftOut(sensor_id, n)

(* Whatever the actuator did, and however it ended, the comment accounts    *)
(* for the tree: skipped means that nothing was asked for and nothing was  *)
(* changed; a changed tree is recorded with the ids that were handed out,  *)
(* each in a row of the table that tells the level it was applied at; it   *)
(* is recorded as failed exactly if errors are listed; and the table's     *)
(* rows are as many as its head line counts.  (The ids listed as applied   *)
(* are the actuator's own word, which nothing compares with the request or *)
(* the tree, and when its answer is lost none are listed.)                 *)
EvidenceCoversTree ==
  evidence # None =>
    LET apply == render_buildfix_apply_section(evidence)
        table == render_buildfix_section(BuildfixSummary(all_fixes))
    IN  /\ apply.status = "skipped" <=> asked = None
        /\ asked = None => tree = {}
        /\ asked # None => apply.selected = FixIds(asked)
        /\ \A i \in tree :
             /\ \E k \in DOMAIN apply.selected : apply.selected[k] = asked[i].fix_id
             /\ \E k \in DOMAIN table.rows :
                  table.rows[k] = [fix_id |-> asked[i].fix_id, safety |-> asked[i].safety,
                                   matched |-> ~asked[i].unmatched]
        /\ apply.status = "failed" <=> apply.errors
        /\ table.matched = Cardinality({k \in DOMAIN table.rows : table.rows[k].matched})
        /\ table.total = table.matched + table.unmatched

(* The limit on the size and the root are kept for every plan that did not  *)
(* change under the program's hands: one that is used although it is larger *)
(* or lies elsewhere was replaced after the check.                         *)
PlanUsedAsChecked ==
  [][\A s \in Sensors : taken'[s] # taken[s] =>
       IF plans[s] = checked[s] /\ plans[s] \in PlanFiles
       THEN plans[s].size <= MaxPlanBytes
       ELSE budget < EnvBudget]_vars

(***************************************************************************)
(* Statements of the documentation the code does not keep.                 *)
(***************************************************************************)

(* cockpitctl-types says of Preconditions that they must hold before a fix  *)
(* is applied; the one kept here is the commit the fix was made for.  (The  *)
(* request does not carry them, so the actuator cannot look either.)       *)
PreconditionsHold ==
  asked # None =>
    \A i \in DOMAIN asked : \A j \in DOMAIN taken[asked[i].sensor_id] :
      LET fix == taken[asked[i].sensor_id][j]
      IN  fix.id = asked[i].fix_id => fix.repo_head \in {None, input.head}
=============================================================================
