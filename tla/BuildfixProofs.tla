--------------------------- MODULE BuildfixProofs ---------------------------
(***************************************************************************)
(* Safety of the way from the plans to the tree, for any plans, receipts,  *)
(* configurations and command lines, and any number of changes of the      *)
(* plans while they are read.                                              *)
(***************************************************************************)
EXTENDS Buildfix, DomainProofs

(***************************************************************************)
(* Matching and selecting.                                                 *)
(***************************************************************************)

(* The summary of a fix that stands in a plan of a sensor.                  *)
LEMMA SummarizeType ==
  ASSUME NEW sensor_id \in Sensors, NEW fix \in Fix, NEW shown \in Seq(Highlight)
  PROVE  SummarizeFix(sensor_id, fix, shown) \in FixSummary
<1>1. Matched(sensor_id, fix, shown) \in SUBSET Nat
  BY DEF Matched
<1>2. fix.id \in Nat /\ fix.safety \in SafetyLevel
  BY DEF Fix
<1> QED
  BY <1>1, <1>2 DEF SummarizeFix, FixSummary

(* Matching a plan gives a summary of each of its fixes, and only those.    *)
LEMMA MatchType ==
  ASSUME NEW sensor_id \in Sensors, NEW fixes \in Seq(Fix), NEW shown \in Seq(Highlight)
  PROVE  LET found == match_buildfix_plan(sensor_id, fixes, shown)
         IN  /\ found \in Seq(FixSummary)
             /\ \A k \in DOMAIN found : \E j \in DOMAIN fixes :
                  found[k] = SummarizeFix(sensor_id, fixes[j], shown)
<1> DEFINE found == [i \in DOMAIN fixes |-> SummarizeFix(sensor_id, fixes[i], shown)]
           key == [i \in DOMAIN found |-> FixKey(found[i])]
<1>1. found \in Seq(FixSummary) /\ DOMAIN found = DOMAIN fixes
  <2>1. \A i \in DOMAIN fixes : SummarizeFix(sensor_id, fixes[i], shown) \in FixSummary
    BY SummarizeType
  <2> QED
    BY <2>1
<1>2. \A i \in DOMAIN found : found[i] = SummarizeFix(sensor_id, fixes[i], shown)
  OBVIOUS
<1>3. match_buildfix_plan(sensor_id, fixes, shown) = SortByKey(found, key)
  BY DEF match_buildfix_plan
<1> HIDE DEF found
<1>4. key \in [DOMAIN found -> Keys(3)]
  <2>1. ASSUME NEW f \in FixSummary
        PROVE  FixKey(f) \in Keys(3)
    <3>1. f.sensor_id \in Sensors /\ f.fix_id \in Nat /\ f.safety \in SafetyLevel
      BY DEF FixSummary
    <3>2. Sensors \subseteq Nat
      BY BuildfixAssumption
    <3>3. safety_level_rank[f.safety] \in Nat
      BY <3>1 DEF SafetyLevel, safety_level_rank
    <3>4. f.sensor_id \in Nat
      BY <3>1, <3>2
    <3> QED
      BY <3>1, <3>3, <3>4 DEF FixKey, Keys
  <2> QED
    BY <1>1, <2>1
<1> HIDE DEF key
<1>5. /\ SortByKey(found, key) \in Seq(FixSummary) /\ Len(SortByKey(found, key)) = Len(found)
      /\ \E p \in Bijection(DOMAIN found, DOMAIN found) :
           SortByKey(found, key) = [k \in DOMAIN found |-> found[p[k]]]
  BY <1>1, <1>4, SortByKeySorts
<1>6. PICK p \in Bijection(DOMAIN found, DOMAIN found) :
        SortByKey(found, key) = [k \in DOMAIN found |-> found[p[k]]]
  BY <1>5
<1>7. p \in [DOMAIN found -> DOMAIN found]
  BY <1>6, Fun_BijectionProperties
<1> DEFINE sorted == SortByKey(found, key)
<1>8. DOMAIN sorted = DOMAIN found
  BY <1>6
<1> HIDE DEF sorted
<1>9. \A k \in DOMAIN sorted : p[k] \in DOMAIN fixes /\ sorted[k] = found[p[k]]
  BY <1>1, <1>6, <1>7, <1>8 DEF sorted
<1>10. \A k \in DOMAIN sorted : sorted[k] = SummarizeFix(sensor_id, fixes[p[k]], shown)
  BY <1>1, <1>2, <1>9
<1> QED
  BY <1>3, <1>5, <1>9, <1>10 DEF sorted

(* The selected fixes are fixes of the list that pass the gate.             *)
LEMMA SelectFixesType ==
  ASSUME NEW fixes \in Seq(FixSummary), NEW gate
  PROVE  LET chosen == select_auto_apply_fixes(fixes, gate)
         IN  /\ chosen \in Seq(FixSummary)
             /\ \A k \in DOMAIN chosen : \E i \in DOMAIN fixes :
                  chosen[k] = fixes[i] /\ Eligible(fixes[i], gate)
<1> DEFINE K == {i \in DOMAIN fixes : Eligible(fixes[i], gate)}
<1>1. K \in SUBSET DOMAIN fixes /\ \A i \in K : Eligible(fixes[i], gate)
  OBVIOUS
<1>2. select_auto_apply_fixes(fixes, gate) = Pick(fixes, K)
  BY DEF select_auto_apply_fixes
<1> HIDE DEF K
<1> QED
  BY <1>1, <1>2, PickType

(* The policy in force is a policy.                                        *)
LEMMA EffectiveType ==
  ASSUME NEW cfg \in BuildfixPolicy, NEW cli \in CommandLine
  PROVE  effective_buildfix(cfg, cli) \in BuildfixPolicy
<1> DEFINE base == IF cfg.actuator = None THEN [command |-> 0, timeout_ms |-> 30000] ELSE cfg.actuator
<1>1. /\ cfg.auto_apply \in BOOLEAN /\ cfg.max_auto_apply_safety \in SafetyLevel
      /\ cfg.require_matched_finding \in BOOLEAN /\ cfg.actuator \in Actuator \cup {None}
  BY DEF BuildfixPolicy
<1>2. /\ cli.auto_apply \in BOOLEAN /\ cli.max_safety \in SafetyLevel \cup {None}
      /\ cli.actuator \in Nat \cup {None} /\ cli.timeout_ms \in Nat \cup {None}
  BY DEF CommandLine
<1>3. base.command \in Nat /\ base.timeout_ms \in Nat
  BY <1>1 DEF Actuator
<1> HIDE DEF base
<1>4. /\ Or(cli.max_safety, cfg.max_auto_apply_safety) \in SafetyLevel
      /\ Or(cli.actuator, base.command) \in Nat /\ Or(cli.timeout_ms, base.timeout_ms) \in Nat
  BY <1>1, <1>2, <1>3 DEF Or
<1>5. [command |-> Or(cli.actuator, base.command), timeout_ms |-> Or(cli.timeout_ms, base.timeout_ms)]
        \in Actuator
  BY <1>4 DEF Actuator
<1>6. effective_buildfix(cfg, cli) =
        [auto_apply |-> cfg.auto_apply \/ cli.auto_apply,
         max_auto_apply_safety |-> Or(cli.max_safety, cfg.max_auto_apply_safety),
         require_matched_finding |-> cfg.require_matched_finding,
         actuator |-> IF ActuatorOverridden(cli)
                      THEN [command |-> Or(cli.actuator, base.command),
                            timeout_ms |-> Or(cli.timeout_ms, base.timeout_ms)]
                      ELSE cfg.actuator]
  BY DEF effective_buildfix, base
<1>7. (cfg.auto_apply \/ cli.auto_apply) \in BOOLEAN
  OBVIOUS
<1> QED
  BY <1>1, <1>4, <1>5, <1>6, <1>7 DEF BuildfixPolicy

(***************************************************************************)
(* Types.  Besides TypeOK: the types of the history variables, and that    *)
(* nothing is asked of the actuator before it is started.                  *)
(***************************************************************************)
Early == {"options", "exists", "canonicalize", "metadata", "read", "failed"}

TypeInv ==
  /\ TypeOK
  /\ taken \in [Sensors -> Seq(Fix) \cup {None}]
  /\ checked \in [Sensors -> PlanFiles \cup {None, Escape}]
  /\ pc \in Early => asked = None
  /\ pc = "actuator" => asked # None

(* What an invocation starts from.                                         *)
LEMMA InputType ==
  ASSUME input \in Inputs
  PROVE  /\ input.config \in BuildfixPolicy /\ input.cli \in CommandLine
         /\ input.discovered \in SUBSET Sensors /\ IsFiniteSet(input.discovered)
         /\ input.discovered \in SUBSET Nat
         /\ DOMAIN input.receipts \in SUBSET Sensors /\ DOMAIN input.receipts \in SUBSET Nat
         /\ IsFiniteSet(DOMAIN input.receipts)
         /\ \A s \in DOMAIN input.receipts : input.receipts[s] = None \/ input.receipts[s] \in SensorReport
         /\ input.max_per_sensor_findings \in Nat /\ input.max_highlights \in Nat
BY BuildfixAssumption, FS_Subset

(* What one receipt adds to the candidates.                                *)
LEMMA HighlightsType ==
  ASSUME input \in Inputs, NEW s \in DOMAIN input.receipts
  PROVE  HighlightsOf(input, s) \in Seq(Highlight)
<1>1. s \in Nat /\ input.max_per_sensor_findings \in Nat /\ FALSE \in BOOLEAN
  BY InputType
<1>2. DefaultSensorPolicy \in SensorPolicy
  BY DEF DefaultSensorPolicy, SensorPolicy, MissingPolicy
<1>3. CASE input.receipts[s] = None
  <2>1. synthesize_schema_violation_sensor(s, DefaultSensorPolicy, FALSE) \in Outcome
    BY <1>1, <1>2, UnusableType DEF synthesize_schema_violation_sensor, SCHEMA_VIOLATION, Reason
  <2> QED
    BY <1>3, <2>1 DEF HighlightsOf, Outcome
<1>4. CASE input.receipts[s] # None
  <2> DEFINE report == input.receipts[s]
  <2>1. report \in SensorReport
    BY <1>4, InputType
  <2>2. /\ report.status \in VerdictStatus /\ report.counts \in VerdictCounts
        /\ report.reasons \in SUBSET Reason /\ report.findings \in Seq(Finding)
    BY <2>1 DEF SensorReport, Reason
  <2> HIDE DEF report
  <2>3. summarize_sensor_report(s, FALSE, DefaultSensorPolicy, report, input.max_per_sensor_findings)
          \in Outcome
    BY <1>1, <1>2, <2>2, ReportOutcomeType
  <2> QED
    BY <1>4, <2>3 DEF HighlightsOf, Outcome, report
<1> QED
  BY <1>3, <1>4

(* The candidates are highlights, those of every judged sensor among them.  *)
HasAllOf(list, part) == \A i \in DOMAIN part : \E j \in DOMAIN list : list[j] = part[i]

LEMMA CandidatesType ==
  ASSUME input \in Inputs
  PROVE  /\ Candidates(input) \in Seq(Highlight)
         /\ \A s \in DOMAIN input.receipts : HasAllOf(Candidates(input), HighlightsOf(input, s))
<1> DEFINE D == DOMAIN input.receipts
           ids == Ascending(D)
           lists == [k \in DOMAIN ids |-> HighlightsOf(input, ids[k])]
<1>1. D \in SUBSET Nat /\ IsFiniteSet(D)
  BY InputType
<1>2. \A s \in D : HighlightsOf(input, s) \in Seq(Highlight)
  BY HighlightsType
<1>3. Candidates(input) = FlattenSeq(lists)
  BY DEF Candidates
<1> HIDE DEF D
<1>4. ids \in Seq(D) /\ \A s \in D : \E k \in DOMAIN ids : ids[k] = s
  BY <1>1, AscendingOrder
<1> HIDE DEF ids
<1>5. /\ lists \in Seq(Seq(Highlight)) /\ DOMAIN lists = DOMAIN ids
      /\ \A k \in DOMAIN ids : lists[k] = HighlightsOf(input, ids[k])
  <2>1. \A k \in DOMAIN ids : HighlightsOf(input, ids[k]) \in Seq(Highlight)
    BY <1>2, <1>4
  <2> QED
    BY <1>4, <2>1
<1> HIDE DEF lists
<1>6. /\ FlattenSeq(lists) \in Seq(Highlight)
      /\ \A k \in DOMAIN lists : \A i \in DOMAIN lists[k] :
           \E j \in DOMAIN FlattenSeq(lists) : FlattenSeq(lists)[j] = lists[k][i]
  BY <1>5, FlattenHolds, Zenon
<1>7. ASSUME NEW s \in D
      PROVE  HasAllOf(Candidates(input), HighlightsOf(input, s))
  <2>1. PICK k \in DOMAIN ids : ids[k] = s
    BY <1>4
  <2>2. k \in DOMAIN lists /\ lists[k] = HighlightsOf(input, s)
    BY <1>5, <2>1
  <2>3. \A i \in DOMAIN lists[k] : \E j \in DOMAIN Candidates(input) : Candidates(input)[j] = lists[k][i]
    BY <1>3, <1>6, <2>2
  <2> QED
    BY <2>2, <2>3 DEF HasAllOf
<1> QED
  BY <1>3, <1>6, <1>7 DEF D

(* The discovered sensors in order: each is one of them, and stands once.   *)
LEMMA TodoType ==
  ASSUME input \in Inputs
  PROVE  LET ids == Ascending(input.discovered)
         IN  /\ ids \in Seq(Sensors)
             /\ \A k, l \in DOMAIN ids : ids[k] = ids[l] => k = l
<1> DEFINE D == input.discovered
           ids == Ascending(D)
<1>1. D \in SUBSET Sensors /\ IsFiniteSet(D) /\ D \in SUBSET Nat
  BY InputType
<1> HIDE DEF D
<1>2. /\ ids \in Seq(D) /\ Len(ids) = Cardinality(D)
      /\ \A k, l \in 1 .. Cardinality(D) : ids[k] = ids[l] => k = l
  BY <1>1, AscendingType
<1> HIDE DEF ids
<1>3. DOMAIN ids = 1 .. Cardinality(D)
  BY <1>2
<1>4. ids \in Seq(Sensors)
  <2>1. Len(ids) \in Nat /\ ids = [k \in 1 .. Len(ids) |-> ids[k]]
    BY <1>2
  <2>2. \A k \in 1 .. Len(ids) : ids[k] \in D
    BY <1>2
  <2>3. \A k \in 1 .. Len(ids) : ids[k] \in Sensors
    BY <1>1, <2>2
  <2> QED
    BY <2>1, <2>3
<1> QED
  BY <1>2, <1>3, <1>4 DEF ids, D

(* Whatever is found where a plan is, is a plan file.                      *)
LEMMA PlanContentsType ==
  ASSUME plans \in [Sensors -> PlanFiles \cup Elsewhere], NEW s \in Sensors, plans[s] # None,
         NEW file \in PlanContents(s)
  PROVE  /\ file \in PlanFiles
         /\ file.size \in Nat /\ file.fixes \in Seq(Fix) \cup {None}
<1>1. file \in PlanFiles
  BY BuildfixAssumption DEF PlanContents
<1>2. file \in PlanFile
  BY <1>1, BuildfixAssumption
<1> QED
  BY <1>1, <1>2 DEF PlanFile

(* The evidence is of its type when what is applied are ids.                *)
LEMMA EvidenceType ==
  ASSUME all_fixes \in Seq(FixSummary), NEW status \in BuildfixApplyStatus,
         NEW reason \in SkipReasons \cup {"actuator_reported_errors", "actuator_error", None},
         NEW applied \in SUBSET Nat, NEW errors \in BOOLEAN
  PROVE  Evidence(status, reason, applied, errors) \in BuildfixApplySummary
<1>1. \A fixes \in Seq(FixSummary) : FixIds(fixes) \in Seq(Nat)
  <2>1. ASSUME NEW fixes \in Seq(FixSummary)
        PROVE  FixIds(fixes) \in Seq(Nat)
    <3>1. \A k \in DOMAIN fixes : fixes[k] \in FixSummary
      OBVIOUS
    <3>2. \A k \in DOMAIN fixes : fixes[k].fix_id \in Nat
      BY <3>1 DEF FixSummary
    <3> QED
      BY <3>2 DEF FixIds
  <2> QED
    BY <2>1
<1>2. Selected \in Seq(FixSummary)
  BY SelectFixesType DEF Selected
<1> HIDE DEF Selected
<1>3. FixIds(Selected) \in Seq(Nat) /\ FixIds(all_fixes) \in Seq(Nat)
  BY <1>1, <1>2
<1> QED
  BY <1>3 DEF Evidence, BuildfixApplySummary

(* The first states are typed.                                             *)
LEMMA InitTyped == Init => TypeInv
<1> SUFFICES ASSUME Init PROVE TypeInv
  OBVIOUS
<1>1. input.config \in BuildfixPolicy
  BY InputType DEF Init
<1>2. todo \in Seq(Sensors)
  BY TodoType DEF Init
<1> QED
  BY <1>1, <1>2, BuildfixAssumption DEF Init, TypeInv, TypeOK, Early

(* Every step keeps the types.                                             *)
LEMMA StepTyped == TypeInv /\ [Next]_vars => TypeInv'
<1> SUFFICES ASSUME TypeInv, [Next]_vars PROVE TypeInv'
  OBVIOUS
<1> USE DEF TypeInv, TypeOK, Early, program
<1>0. todo # << >> => Sensor \in Sensors /\ Tail(todo) \in Seq(Sensors)
  BY DEF Sensor
<1>1. CASE MergeOptions
  <2>1. effective_buildfix(input.config, input.cli) \in BuildfixPolicy
    BY InputType, EffectiveType
  <2>2. select_highlights(Candidates(input), input.max_highlights, input.blocking) \in Seq(Highlight)
    BY InputType, CandidatesType, SelectType
  <2> QED
    BY <1>1, <2>1, <2>2 DEF MergeOptions
<1>2. CASE RefuseOptions
  BY <1>2 DEF RefuseOptions, GiveUp
<1>3. CASE PlanExists
  BY <1>0, <1>3 DEF PlanExists, NextPlan, Goto
<1>4. CASE CanonicalizePlan
  BY <1>0, <1>4 DEF CanonicalizePlan, NextPlan, Goto
<1>5. CASE CheckPlanSize
  <2>1. plans[Sensor] \in PlanFiles \cup {None, Escape}
    BY <1>0, <1>5, BuildfixAssumption DEF CheckPlanSize
  <2> QED
    BY <1>0, <1>5, <2>1 DEF CheckPlanSize, NextPlan, GiveUp
<1>6. CASE ReadPlan
  <2>1. CASE plans[Sensor] = None /\ GiveUp
    BY <2>1, <1>6 DEF ReadPlan, GiveUp
  <2>2. CASE NextPlan
    BY <1>0, <1>6, <2>2 DEF ReadPlan, NextPlan
  <2>3. ASSUME plans[Sensor] # None, NEW file \in PlanContents(Sensor), file.fixes # None,
               all_fixes' = all_fixes \o match_buildfix_plan(Sensor, file.fixes, highlights),
               taken' = [taken EXCEPT ![Sensor] = file.fixes],
               pc' = "exists", todo' = Tail(todo),
               UNCHANGED <<plans, budget, input, policy, highlights, asked, tree, evidence, exit, checked>>
        PROVE  TypeInv'
    <3>1. todo # << >> /\ Sensor \in Sensors
      BY <1>0, <1>6 DEF ReadPlan
    <3>2. file.fixes \in Seq(Fix)
      BY <2>3, <3>1, PlanContentsType
    <3>3. all_fixes' \in Seq(FixSummary)
      BY <2>3, <3>1, <3>2, MatchType
    <3> QED
      BY <1>0, <1>6, <2>3, <3>1, <3>2, <3>3 DEF ReadPlan
  <2> QED
    BY <1>6, <2>1, <2>2, <2>3 DEF ReadPlan
<1>7. CASE PlanIoError
  BY <1>7 DEF PlanIoError, GiveUp
<1>8. CASE NotEvaluated
  BY <1>8 DEF NotEvaluated, PlansRead, Goto
<1>9. CASE SkipApply
  <2>1. SkipReason \in SkipReasons \cup {None}
    BY DEF SkipReason, SkipReasons
  <2>2. Evidence("skipped", SkipReason, {}, FALSE) \in BuildfixApplySummary
    BY <2>1, EvidenceType DEF BuildfixApplyStatus
  <2> QED
    BY <1>9, <2>2 DEF SkipApply, PlansRead, Record
<1>10. CASE StartActuator
  <2>1. Selected \in Seq(FixSummary)
    BY SelectFixesType DEF Selected
  <2>2. Selected # None
    BY <2>1, BuildfixAssumption
  <2> HIDE DEF Selected
  <2> QED
    BY <1>10, <2>1, <2>2 DEF StartActuator, PlansRead
<1>11. CASE ActuatorAnswers
  <2>1. ASSUME NEW applied \in SUBSET AnswerIds
        PROVE  /\ Evidence("failed", "actuator_reported_errors", applied, TRUE) \in BuildfixApplySummary
               /\ Evidence("applied", None, applied, FALSE) \in BuildfixApplySummary
    <3>1. applied \in SUBSET Nat
      BY BuildfixAssumption
    <3> QED
      BY <3>1, EvidenceType DEF BuildfixApplyStatus
  <2>2. evidence' \in BuildfixApplySummary
    BY <1>11, <2>1 DEF ActuatorAnswers, Record
  <2> QED
    BY <1>11, <2>2 DEF ActuatorAnswers, Record
<1>12. CASE ActuatorErrs
  <2>1. Evidence("failed", "actuator_error", {}, TRUE) \in BuildfixApplySummary
    BY EvidenceType DEF BuildfixApplyStatus
  <2> QED
    BY <1>12, <2>1 DEF ActuatorErrs, Record
<1>13. CASE ActuatorApplies
  BY <1>13 DEF ActuatorApplies
<1>14. CASE PlanWritten
  BY <1>14, BuildfixAssumption DEF PlanWritten
<1>15. CASE UNCHANGED vars
  BY <1>15 DEF vars
<1> QED
  BY <1>1, <1>2, <1>3, <1>4, <1>5, <1>6, <1>7, <1>8, <1>9, <1>10, <1>11, <1>12, <1>13, <1>14, <1>15
     DEF Next

(* The variables keep their types, and the actuator has applied no more    *)
(* than it was asked for.                                                  *)
THEOREM TypeCorrect == Spec => []TypeOK
<1>1. Init => TypeInv
  BY InitTyped
<1>2. TypeInv /\ [Next]_vars => TypeInv'
  BY StepTyped
<1>3. TypeInv => TypeOK
  BY DEF TypeInv
<1> QED
  BY <1>1, <1>2, <1>3, PTL DEF Spec

(***************************************************************************)
(* What the summaries come from.  The property about the request speaks    *)
(* of the plans and the receipts; the invariant says so of every summary   *)
(* from the moment it is made: it is that of a fix of a plan taken in this *)
(* run, which no later reading replaces, since its sensor is done.          *)
(***************************************************************************)
Stems(f) ==
  /\ \A k \in DOMAIN todo : todo[k] # f.sensor_id
  /\ \E j \in DOMAIN taken[f.sensor_id] : f = SummarizeFix(f.sensor_id, taken[f.sensor_id][j], highlights)

SourceInv ==
  /\ \A k, l \in DOMAIN todo : todo[k] = todo[l] => k = l
  /\ pc = "options" => all_fixes = << >>
  /\ all_fixes # << >> =>
       highlights = select_highlights(Candidates(input), input.max_highlights, input.blocking)
  /\ pc \notin {"options", "failed"} =>
       /\ highlights = select_highlights(Candidates(input), input.max_highlights, input.blocking)
       /\ policy = effective_buildfix(input.config, input.cli)
  /\ \A i \in DOMAIN all_fixes : Stems(all_fixes[i])
  /\ asked # None =>
       /\ asked = Selected /\ policy.auto_apply /\ pc \notin {"options", "failed"}
       /\ "buildfix" \notin input.cli.disabled

(* Of the first states.                                                    *)
LEMMA InitSourced == Init => SourceInv
<1> SUFFICES ASSUME Init PROVE SourceInv
  OBVIOUS
<1>1. \A k, l \in DOMAIN todo : todo[k] = todo[l] => k = l
  BY TodoType DEF Init
<1> QED
  BY <1>1 DEF Init, SourceInv

(* What is left to read stays free of repetitions, and of a sensor that    *)
(* was taken from its head.                                                *)
LEMMA TailFacts ==
  ASSUME todo \in Seq(Sensors), todo # << >>,
         \A k, l \in DOMAIN todo : todo[k] = todo[l] => k = l
  PROVE  LET rest == Tail(todo)
         IN  /\ \A k, l \in DOMAIN rest : rest[k] = rest[l] => k = l
             /\ \A k \in DOMAIN rest : rest[k] # Sensor
             /\ \A s : (\A k \in DOMAIN todo : todo[k] # s) => \A k \in DOMAIN rest : rest[k] # s
<1> DEFINE rest == Tail(todo)
<1>1. /\ Len(todo) \in Nat /\ Len(todo) >= 1 /\ DOMAIN todo = 1 .. Len(todo)
      /\ DOMAIN rest = 1 .. (Len(todo) - 1)
      /\ \A k \in DOMAIN rest : rest[k] = todo[k + 1]
      /\ Sensor = todo[1]
  BY DEF Sensor
<1> HIDE DEF rest
<1>2. \A k \in DOMAIN rest : k + 1 \in DOMAIN todo /\ k + 1 # 1
  BY <1>1
<1>3. \A k \in DOMAIN rest : rest[k] # Sensor
  BY <1>1, <1>2
<1>4. ASSUME NEW k \in DOMAIN rest, NEW l \in DOMAIN rest, rest[k] = rest[l]
      PROVE  k = l
  <2>1. k + 1 = l + 1
    BY <1>1, <1>2, <1>4
  <2> QED
    BY <1>1, <2>1
<1>5. ASSUME NEW s, \A k \in DOMAIN todo : todo[k] # s
      PROVE  \A k \in DOMAIN rest : rest[k] # s
  BY <1>1, <1>2, <1>5
<1> QED
  BY <1>3, <1>4, <1>5 DEF rest

(* A sensor that is passed over leaves every source as it was.             *)
LEMMA NextPlanSourced ==
  ASSUME TypeInv, SourceInv, NextPlan, todo # << >>, pc \notin {"options", "failed"}
  PROVE  SourceInv'
<1>1. /\ todo' = Tail(todo) /\ pc' = "exists"
      /\ UNCHANGED <<plans, budget, input, policy, highlights, all_fixes, asked, tree, evidence, exit,
                     checked, taken>>
  BY DEF NextPlan
<1>2. todo \in Seq(Sensors)
  BY DEF TypeInv, TypeOK
<1>3. /\ \A k, l \in DOMAIN todo' : todo'[k] = todo'[l] => k = l
      /\ \A s : (\A k \in DOMAIN todo : todo[k] # s) => \A k \in DOMAIN todo' : todo'[k] # s
  BY <1>1, <1>2, TailFacts DEF SourceInv
<1>4. \A i \in DOMAIN all_fixes' : Stems(all_fixes[i])'
  BY <1>1, <1>3 DEF SourceInv, Stems
<1>5. Selected' = Selected
  BY <1>1 DEF Selected
<1> QED
  BY <1>1, <1>3, <1>4, <1>5 DEF SourceInv

(* A step that leaves plans read, sources and request alone.               *)
LEMMA SameSources ==
  ASSUME SourceInv, UNCHANGED <<input, highlights, all_fixes, todo, taken, asked, policy>>,
         pc' # "options",
         pc' # "failed" => pc \notin {"options", "failed"},
         asked # None => pc' # "failed"
  PROVE  SourceInv'
<1>1. \A i \in DOMAIN all_fixes' : Stems(all_fixes[i])'
  BY DEF SourceInv, Stems
<1>2. Selected' = Selected
  BY DEF Selected
<1> QED
  BY <1>1, <1>2 DEF SourceInv

(* Every step keeps the sources.                                           *)
LEMMA StepSourced == TypeInv /\ SourceInv /\ [Next]_vars => SourceInv'
<1> SUFFICES ASSUME TypeInv, SourceInv, [Next]_vars PROVE SourceInv'
  OBVIOUS
<1> USE DEF program
<1>0. pc \in Early => asked = None
  BY DEF TypeInv
<1>1. CASE MergeOptions
  <2>1. /\ pc = "options" /\ pc' = "exists" /\ asked' = None /\ all_fixes' = << >>
        /\ policy' = effective_buildfix(input'.config, input'.cli)
        /\ highlights' = select_highlights(Candidates(input'), input'.max_highlights, input'.blocking)
        /\ todo' = todo
    BY <1>0, <1>1 DEF MergeOptions, SourceInv, Early
  <2> QED
    BY <2>1 DEF SourceInv
<1>2. CASE RefuseOptions
  <2>1. /\ pc = "options" /\ pc' = "failed" /\ asked' = None /\ all_fixes' = << >> /\ todo' = todo
    BY <1>0, <1>2 DEF RefuseOptions, GiveUp, SourceInv, Early
  <2> QED
    BY <2>1 DEF SourceInv
<1>3. CASE PlanExists
  <2>1. CASE NextPlan
    BY <1>3, <2>1, NextPlanSourced DEF PlanExists
  <2>2. CASE Goto("canonicalize")
    BY <1>3, <2>2, SameSources DEF PlanExists, Goto
  <2> QED
    BY <1>3, <2>1, <2>2 DEF PlanExists
<1>4. CASE CanonicalizePlan
  <2>1. CASE NextPlan
    BY <1>4, <2>1, NextPlanSourced DEF CanonicalizePlan, TypeInv, TypeOK
  <2>2. CASE Goto("metadata")
    BY <1>4, <2>2, SameSources DEF CanonicalizePlan, Goto
  <2> QED
    BY <1>4, <2>1, <2>2 DEF CanonicalizePlan
<1>5. CASE CheckPlanSize
  <2>1. CASE GiveUp
    BY <1>0, <1>5, <2>1, SameSources DEF CheckPlanSize, GiveUp, Early
  <2>2. CASE NextPlan
    BY <1>5, <2>2, NextPlanSourced DEF CheckPlanSize, TypeInv, TypeOK
  <2>3. CASE pc' = "read" /\ UNCHANGED <<plans, budget, input, policy, highlights, todo, all_fixes,
                                         asked, tree, evidence, exit, taken>>
    BY <1>5, <2>3, SameSources DEF CheckPlanSize
  <2> QED
    BY <1>5, <2>1, <2>2, <2>3 DEF CheckPlanSize
<1>6. CASE ReadPlan
  <2>1. CASE GiveUp
    BY <1>0, <1>6, <2>1, SameSources DEF ReadPlan, GiveUp, Early
  <2>2. CASE NextPlan
    BY <1>6, <2>2, NextPlanSourced DEF ReadPlan, TypeInv, TypeOK
  <2>3. ASSUME plans[Sensor] # None, NEW file \in PlanContents(Sensor), file.fixes # None,
               all_fixes' = all_fixes \o match_buildfix_plan(Sensor, file.fixes, highlights),
               taken' = [taken EXCEPT ![Sensor] = file.fixes],
               pc' = "exists", todo' = Tail(todo),
               UNCHANGED <<plans, budget, input, policy, highlights, asked, tree, evidence, exit, checked>>
        PROVE  SourceInv'
    <3> DEFINE found == match_buildfix_plan(Sensor, file.fixes, highlights)
    <3>1. pc = "read" /\ todo \in Seq(Sensors) /\ todo # << >> /\ asked = None
      BY <1>0, <1>6 DEF ReadPlan, TypeInv, TypeOK, Early
    <3>2. Sensor \in Sensors /\ Sensor = todo[1] /\ 1 \in DOMAIN todo
      BY <3>1 DEF Sensor
    <3>3. file.fixes \in Seq(Fix)
      BY <2>3, <3>2, PlanContentsType DEF TypeInv, TypeOK
    <3>4. /\ all_fixes \in Seq(FixSummary) /\ highlights \in Seq(Highlight) /\ DOMAIN taken = Sensors
      BY DEF TypeInv, TypeOK
    <3>5. /\ found \in Seq(FixSummary)
          /\ \A k \in DOMAIN found : \E j \in DOMAIN file.fixes :
               found[k] = SummarizeFix(Sensor, file.fixes[j], highlights)
      BY <3>2, <3>3, <3>4, MatchType
    <3>6. /\ \A k, l \in DOMAIN todo' : todo'[k] = todo'[l] => k = l
          /\ \A k \in DOMAIN todo' : todo'[k] # Sensor
          /\ \A s : (\A k \in DOMAIN todo : todo[k] # s) => \A k \in DOMAIN todo' : todo'[k] # s
      BY <2>3, <3>1, TailFacts DEF SourceInv
    <3>7. taken'[Sensor] = file.fixes /\ \A s \in Sensors \ {Sensor} : taken'[s] = taken[s]
      BY <2>3, <3>2, <3>4
    <3> HIDE DEF found
    <3>8. ASSUME NEW k \in DOMAIN found
          PROVE  /\ \A l \in DOMAIN todo' : todo'[l] # found[k].sensor_id
                 /\ \E j \in DOMAIN taken'[found[k].sensor_id] :
                      found[k] = SummarizeFix(found[k].sensor_id, taken'[found[k].sensor_id][j], highlights')
      <4>1. PICK j \in DOMAIN file.fixes : found[k] = SummarizeFix(Sensor, file.fixes[j], highlights)
        BY <3>5, <3>8
      <4>2. found[k].sensor_id = Sensor
        BY <4>1 DEF SummarizeFix
      <4> QED
        BY <2>3, <3>6, <3>7, <4>1, <4>2
    <3>9. ASSUME NEW i \in DOMAIN all_fixes
          PROVE  /\ \A l \in DOMAIN todo' : todo'[l] # all_fixes[i].sensor_id
                 /\ \E j \in DOMAIN taken'[all_fixes[i].sensor_id] :
                      all_fixes[i] = SummarizeFix(all_fixes[i].sensor_id,
                                                  taken'[all_fixes[i].sensor_id][j], highlights')
      <4>1. Stems(all_fixes[i])
        BY DEF SourceInv
      <4>2. all_fixes[i] \in FixSummary
        BY <3>4
      <4>3. all_fixes[i].sensor_id \in Sensors \ {Sensor}
        BY <3>2, <4>1, <4>2 DEF Stems, FixSummary
      <4> QED
        BY <2>3, <3>6, <3>7, <4>1, <4>3 DEF Stems
    <3>10. ASSUME NEW i \in DOMAIN all_fixes'
           PROVE  Stems(all_fixes[i])'
      <4>1. all_fixes' = all_fixes \o found
        BY <2>3 DEF found
      <4>2. \/ i \in DOMAIN all_fixes /\ all_fixes'[i] = all_fixes[i]
            \/ \E k \in DOMAIN found : all_fixes'[i] = found[k]
        <5>1. /\ Len(all_fixes) \in Nat /\ Len(found) \in Nat
              /\ DOMAIN all_fixes = 1 .. Len(all_fixes) /\ DOMAIN found = 1 .. Len(found)
              /\ DOMAIN all_fixes' = 1 .. (Len(all_fixes) + Len(found))
          BY <3>4, <3>5, <4>1
        <5>2. CASE i <= Len(all_fixes)
          BY <3>4, <3>5, <4>1, <5>1, <5>2
        <5>3. CASE i > Len(all_fixes)
          <6>1. i - Len(all_fixes) \in DOMAIN found /\ all_fixes'[i] = found[i - Len(all_fixes)]
            BY <3>4, <3>5, <4>1, <5>1, <5>3
          <6> QED
            BY <6>1
        <5> QED
          BY <5>1, <5>2, <5>3
      <4> QED
        BY <3>8, <3>9, <4>2 DEF Stems
    <3> QED
      BY <2>3, <3>1, <3>6, <3>10 DEF SourceInv
  <2> QED
    BY <1>6, <2>1, <2>2, <2>3 DEF ReadPlan
<1>7. CASE PlanIoError
  BY <1>0, <1>7, SameSources DEF PlanIoError, GiveUp, Early
<1>8. CASE NotEvaluated
  BY <1>8, SameSources DEF NotEvaluated, PlansRead, Goto
<1>9. CASE SkipApply
  BY <1>9, SameSources DEF SkipApply, PlansRead, Record
<1>10. CASE StartActuator
  <2>1. /\ pc = "exists" /\ pc' = "actuator" /\ asked' = Selected
        /\ UNCHANGED <<input, policy, highlights, todo, all_fixes, taken>>
    BY <1>10 DEF StartActuator, PlansRead
  <2>2. policy.auto_apply
    BY <1>10, BuildfixAssumption DEF StartActuator, SkipReason, SkipReasons
  <2>5. "buildfix" \notin input'.cli.disabled
    BY <1>10 DEF StartActuator, Evaluated, FeatureEnabled
  <2>3. Selected' = Selected
    BY <2>1 DEF Selected
  <2>4. \A i \in DOMAIN all_fixes' : Stems(all_fixes[i])'
    BY <2>1 DEF SourceInv, Stems
  <2> QED
    BY <2>1, <2>2, <2>3, <2>4, <2>5 DEF SourceInv
<1>11. CASE ActuatorAnswers
  BY <1>11, SameSources DEF ActuatorAnswers, Record
<1>12. CASE ActuatorErrs
  BY <1>12, SameSources DEF ActuatorErrs, Record
<1>13. CASE ActuatorApplies
  BY <1>13, SameSources DEF ActuatorApplies
<1>14. CASE PlanWritten
  BY <1>14, SameSources DEF PlanWritten
<1>15. CASE UNCHANGED vars
  <2>1. UNCHANGED <<pc, program, input>>
    BY <1>15 DEF vars
  <2>2. Selected' = Selected
    BY <2>1 DEF Selected
  <2> QED
    BY <2>1, <2>2 DEF SourceInv, Stems
<1> QED
  BY <1>1, <1>2, <1>3, <1>4, <1>5, <1>6, <1>7, <1>8, <1>9, <1>10, <1>11, <1>12, <1>13, <1>14, <1>15
     DEF Next

(* Every reachable state has its types and sources.                        *)
LEMMA Sourced == Spec => [](TypeInv /\ SourceInv)
<1>1. Init => TypeInv /\ SourceInv
  BY InitTyped, InitSourced
<1>2. TypeInv /\ SourceInv /\ [Next]_vars => (TypeInv /\ SourceInv)'
  BY StepTyped, StepSourced
<1> QED
  BY <1>1, <1>2, PTL DEF Spec

(* What is asked for comes from a fix of a plan and passes the gate.        *)
LEMMA AskedSource ==
  ASSUME TypeInv, SourceInv, asked # None, NEW i \in DOMAIN asked
  PROVE  \E f \in FixSummary :
           /\ asked[i] = f /\ Stems(f) /\ Eligible(f, policy)
           /\ \E k \in DOMAIN all_fixes : all_fixes[k] = f
<1>1. all_fixes \in Seq(FixSummary)
  BY DEF TypeInv, TypeOK
<1>2. asked = select_auto_apply_fixes(all_fixes, policy)
  BY DEF SourceInv, Selected
<1>3. PICK k \in DOMAIN all_fixes : asked[i] = all_fixes[k] /\ Eligible(all_fixes[k], policy)
  BY <1>1, <1>2, SelectFixesType
<1>4. all_fixes[k] \in FixSummary
  BY <1>1
<1> QED
  BY <1>3, <1>4 DEF SourceInv

(* A reference that hits a highlight is about the candidate it shows.       *)
LEMMA HitConcerns ==
  ASSUME NEW sensor_id, NEW fix, NEW c \in Highlight, NEW r \in DOMAIN fix.finding_refs
  PROVE  LET ref == fix.finding_refs[r]
         IN  RefHits(sensor_id, ref, Marked(c)) <=>
               /\ ref.sensor_id = sensor_id /\ c.sensor_id = sensor_id
               /\ ref.fingerprint \in {None, fingerprint_of(c)} /\ ref.code \in {None, c.finding.code}
<1> DEFINE ref == fix.finding_refs[r]
<1>1. Marked(c).finding.fingerprint = fingerprint_of(c)
  BY MarkedFacts
<1>2. c.finding \in Finding /\ c = [sensor_id |-> c.sensor_id, finding |-> c.finding]
  BY DEF Highlight
<1>3. Marked(c) = [sensor_id |-> c.sensor_id,
                   finding |-> [c.finding EXCEPT !.fingerprint = fingerprint_of(c)]]
  BY <1>2 DEF Marked
<1>4. [c.finding EXCEPT !.fingerprint = fingerprint_of(c)].code = c.finding.code
  BY <1>2 DEF Finding
<1> DEFINE marked == [c.finding EXCEPT !.fingerprint = fingerprint_of(c)]
<1> HIDE DEF marked
<1>5. Marked(c).sensor_id = c.sensor_id /\ Marked(c).finding = marked
  BY <1>3 DEF marked
<1>6. Marked(c).finding.code = c.finding.code
  BY <1>4, <1>5 DEF marked
<1> HIDE DEF ref
<1> QED
  BY <1>1, <1>5, <1>6 DEF RefHits, ref

(* The actuator is asked only for what the user allowed and the reader of   *)
(* the comment can see.                                                    *)
THEOREM RequestIsJustified == Spec => []OnlyJustifiedFixesAreAsked
<1>1. TypeInv /\ SourceInv => OnlyJustifiedFixesAreAsked
  <2> SUFFICES ASSUME TypeInv, SourceInv, asked # None PROVE OnlyJustifiedFixesAreAsked
    BY DEF OnlyJustifiedFixesAreAsked
  <2> DEFINE level == IF input.cli.max_safety = None THEN input.config.max_auto_apply_safety
                      ELSE input.cli.max_safety
  <2>1. /\ policy = effective_buildfix(input.config, input.cli) /\ policy.auto_apply
        /\ "buildfix" \notin input.cli.disabled
        /\ highlights = select_highlights(Candidates(input), input.max_highlights, input.blocking)
    BY DEF SourceInv
  <2>2. /\ input.config \in BuildfixPolicy /\ input.cli \in CommandLine
        /\ Candidates(input) \in Seq(Highlight) /\ input.max_highlights \in Nat
    BY InputType, CandidatesType DEF TypeInv, TypeOK
  <2>3. /\ policy.auto_apply = (input.config.auto_apply \/ input.cli.auto_apply)
        /\ policy.max_auto_apply_safety = level
        /\ policy.require_matched_finding = input.config.require_matched_finding
    <3> DEFINE allowed == input.config.auto_apply \/ input.cli.auto_apply
               configured == input.config.actuator
               base == IF configured = None THEN [command |-> 0, timeout_ms |-> 30000] ELSE configured
               actuator == IF ActuatorOverridden(input.cli)
                           THEN [command    |-> Or(input.cli.actuator, base.command),
                                 timeout_ms |-> Or(input.cli.timeout_ms, base.timeout_ms)]
                           ELSE configured
    <3>0. policy = [auto_apply              |-> allowed,
                    max_auto_apply_safety   |-> Or(input.cli.max_safety, input.config.max_auto_apply_safety),
                    require_matched_finding |-> input.config.require_matched_finding,
                    actuator                |-> actuator]
      BY <2>1 DEF effective_buildfix
    <3>1. policy.auto_apply = allowed
      BY <3>0
    <3>2. policy.max_auto_apply_safety = Or(input.cli.max_safety, input.config.max_auto_apply_safety)
      BY <2>1 DEF effective_buildfix
    <3>3. policy.require_matched_finding = input.config.require_matched_finding
      BY <2>1 DEF effective_buildfix
    <3> QED
      BY <3>1, <3>2, <3>3 DEF Or, allowed
  <2>4. level \in SafetyLevel
    BY <2>2 DEF BuildfixPolicy, CommandLine
  <2> HIDE DEF level
  <2>5. ASSUME NEW i \in DOMAIN asked
        PROVE  /\ asked[i].safety = "unsafe" => level = "unsafe"
               /\ asked[i].safety = "guarded" => level # "safe"
               /\ \E j \in DOMAIN taken[asked[i].sensor_id] :
                    LET fix == taken[asked[i].sensor_id][j]
                    IN  /\ fix.id = asked[i].fix_id /\ fix.safety = asked[i].safety
                        /\ input.config.require_matched_finding =>
                             \E c \in DOMAIN Candidates(input) :
                               /\ Concerns(fix, asked[i].sensor_id, Candidates(input)[c])
                               /\ Surfaced(Candidates(input)[c])
    <3>1. PICK f \in FixSummary : asked[i] = f /\ Stems(f) /\ Eligible(f, policy)
      BY <2>5, AskedSource
    <3>2. safety_level_rank[f.safety] <= safety_level_rank[level]
      BY <2>3, <3>1 DEF Eligible
    <3>3. /\ f.safety = "unsafe" => level = "unsafe"
          /\ f.safety = "guarded" => level # "safe"
      BY <2>4, <3>2 DEF safety_level_rank, SafetyLevel
    <3>4. PICK j \in DOMAIN taken[f.sensor_id] :
            f = SummarizeFix(f.sensor_id, taken[f.sensor_id][j], highlights)
      BY <3>1 DEF Stems
    <3> DEFINE fix == taken[f.sensor_id][j]
    <3>5. /\ f.fix_id = fix.id /\ f.safety = fix.safety
          /\ f.unmatched = (Matched(f.sensor_id, fix, highlights) = {})
      BY <3>4 DEF SummarizeFix
    <3>6. ASSUME input.config.require_matched_finding
          PROVE  \E c \in DOMAIN Candidates(input) :
                   /\ Concerns(fix, f.sensor_id, Candidates(input)[c])
                   /\ Surfaced(Candidates(input)[c])
      <4> HIDE DEF fix
      <4>1. Matched(f.sensor_id, fix, highlights) # {}
        BY <2>3, <3>1, <3>5, <3>6 DEF Eligible
      <4>2. PICK k \in DOMAIN highlights, r \in DOMAIN fix.finding_refs :
              RefHits(f.sensor_id, fix.finding_refs[r], highlights[k])
        BY <4>1 DEF Matched
      <4>3. PICK c \in Deduped(Candidates(input)) : highlights[k] = Marked(Candidates(input)[c])
        BY <2>1, <2>2, ShownIsKept
      <4>4. c \in DOMAIN Candidates(input) /\ Candidates(input)[c] \in Highlight
        BY <2>2 DEF Deduped
      <4>5. Concerns(fix, f.sensor_id, Candidates(input)[c])
        <5>1. RefHits(f.sensor_id, fix.finding_refs[r], Marked(Candidates(input)[c]))
          BY <4>2, <4>3
        <5> QED
          <6> DEFINE ref == fix.finding_refs[r]
                     c1 == Candidates(input)[c]
          <6>1. /\ ref.sensor_id = f.sensor_id /\ c1.sensor_id = f.sensor_id
                /\ ref.fingerprint \in {None, fingerprint_of(c1)} /\ ref.code \in {None, c1.finding.code}
            BY <4>2, <4>4, <5>1, HitConcerns
          <6> QED
            BY <4>2, <6>1 DEF Concerns
      <4>6. Surfaced(Candidates(input)[c])
        BY <4>2, <4>3 DEF Surfaced, AsShown, Marked
      <4> QED
        BY <4>4, <4>5, <4>6
    <3> QED
      BY <3>1, <3>3, <3>5, <3>6
  <2> QED
    BY <2>1, <2>3, <2>5 DEF OnlyJustifiedFixesAreAsked, level
<1> QED
  BY <1>1, Sourced, PTL

(* Severity comes first in the order of findings. *)
LEMMA SeverityFirst ==
  ASSUME NEW id, NEW f \in Finding, NEW g \in Finding,
         ~KeyLess(finding_sort_key(id, f), finding_sort_key(id, g))
  PROVE  severity_rank[g.severity] <= severity_rank[f.severity]
<1> DEFINE a == finding_sort_key(id, f)
           b == finding_sort_key(id, g)
           r == severity_rank[f.severity]
           q == severity_rank[g.severity]
<1>1. r \in Nat /\ q \in Nat
  BY RankTypes DEF Finding
<1>2. a[1] = r /\ b[1] = q /\ 1 \in DOMAIN a
  BY DEF finding_sort_key
<1>3. ~KeyLess(a, b)
  OBVIOUS
<1> HIDE DEF a, b, r, q
<1>4. ~(r < q)
  BY <1>2, <1>3 DEF KeyLess
<1>5. q <= r
  BY <1>1, <1>4
<1> QED
  BY <1>5 DEF r, q

(* A finding is surfaced, or the receipt has as many others that are not   *)
(* less severe as the limit allows.                                        *)
LEMMA CutBehindOthers ==
  ASSUME NEW id \in Nat, NEW findings \in Seq(Finding), NEW max \in Nat, NEW n \in DOMAIN findings
  PROVE  \/ LET surfaced == cap_findings(sort_findings(id, findings), max).surfaced
            IN  \E k \in DOMAIN surfaced : surfaced[k] = findings[n]
         \/ Cardinality(NotLighter(findings, n)) >= max
<1> DEFINE D == DOMAIN findings
           key == [i \in D |-> finding_sort_key(id, findings[i])]
           sorted == SortByKey(findings, key)
           surfaced == Truncate(sorted, max)
<1>1. key \in [D -> Keys(6)] /\ \A i \in D : key[i] = finding_sort_key(id, findings[i])
  BY FindingKeyType
<1>2. cap_findings(sort_findings(id, findings), max).surfaced = surfaced
  BY DEF cap_findings, sort_findings
<1> HIDE DEF key
<1>3. /\ sorted \in Seq(Finding) /\ Len(sorted) = Len(findings)
      /\ \E p \in Bijection(D, D) :
           /\ sorted = [k \in D |-> findings[p[k]]]
           /\ \A k, l \in D : k < l => ~KeyLess(key[p[l]], key[p[k]])
  BY <1>1, SortByKeySorts
<1>4. PICK p \in Bijection(D, D) : /\ sorted = [k \in D |-> findings[p[k]]]
                                   /\ \A k, l \in D : k < l => ~KeyLess(key[p[l]], key[p[k]])
  BY <1>3
<1> HIDE DEF sorted
<1> HIDE DEF D
<1>5. /\ p \in [D -> D]
      /\ \A a, b \in D : p[a] = p[b] => a = b
      /\ \A i \in D : \E k \in D : p[k] = i
  BY Fun_BijectionProperties
<1>6. D = 1 .. Len(findings) /\ Len(findings) \in Nat /\ IsFiniteSet(D) /\ n \in D
  BY DomainFinite DEF D
<1>7. PICK l \in D : p[l] = n
  BY <1>5, <1>6
<1>8. CASE l <= max
  <2>1. l \in DOMAIN surfaced /\ surfaced[l] = sorted[l]
    BY <1>3, <1>6, <1>8 DEF Truncate
  <2>2. sorted[l] = findings[n]
    BY <1>4, <1>7
  <2> HIDE DEF surfaced
  <2> QED
    BY <1>2, <2>1, <2>2
<1>9. CASE ~(l <= max)
  <2> DEFINE K == {i \in D : \E k \in 1 .. max : p[k] = i}
             R == NotLighter(findings, n)
  <2>1. \A k \in 1 .. max : k \in D /\ k < l
    BY <1>6, <1>9
  <2>2. ASSUME NEW k \in 1 .. max
        PROVE  p[k] \in R
    <3>1. k \in D /\ k < l /\ p[k] \in D /\ p[k] # n
      BY <1>5, <1>7, <2>1
    <3>2. ~KeyLess(finding_sort_key(id, findings[n]), finding_sort_key(id, findings[p[k]]))
      BY <1>1, <1>4, <1>6, <1>7, <3>1
    <3>3. findings[n] \in Finding /\ findings[p[k]] \in Finding
      BY <3>1 DEF D
    <3>4. severity_rank[findings[p[k]].severity] <= severity_rank[findings[n].severity]
      BY <3>2, <3>3, SeverityFirst
    <3> QED
      BY <3>1, <3>4 DEF NotLighter, D
  <2>3. K \in SUBSET R /\ K \in SUBSET D
    BY <2>2
  <2>4. R \in SUBSET D
    BY DEF NotLighter, D
  <2>5. {k \in D : p[k] \in K} = 1 .. max
    <3>1. ASSUME NEW k \in D, p[k] \in K
          PROVE  k \in 1 .. max
      BY <1>5, <2>1, <3>1
    <3>2. ASSUME NEW k \in 1 .. max
          PROVE  k \in D /\ p[k] \in K
      BY <1>5, <2>1
    <3> HIDE DEF K
    <3> QED
      BY <3>1, <3>2
  <2>6. Cardinality(1 .. max) = max
    BY FS_Interval
  <2> HIDE DEF K, R
  <2>7. Cardinality(K) = max
    BY <1>4, <1>6, <2>3, <2>5, <2>6, ReorderedSize
  <2>8. IsFiniteSet(R) /\ Cardinality(K) <= Cardinality(R) /\ Cardinality(R) \in Nat
    BY <1>6, <2>3, <2>4, FS_Subset, FS_CardinalityType
  <2> QED
    BY <2>7, <2>8 DEF R
<1> QED
  BY <1>6, <1>8, <1>9

(* A finding that is shown as it was found is one a fix about it hits.      *)
LEMMA ShownIsHit ==
  ASSUME NEW sensor_id, NEW fix, NEW found \in Highlight, Concerns(fix, sensor_id, found),
         NEW k \in DOMAIN highlights, highlights[k] = AsShown(found)
  PROVE  k \in Matched(sensor_id, fix, highlights)
<1>1. highlights[k] = Marked(found)
  BY DEF AsShown, Marked
<1>2. \E r \in DOMAIN fix.finding_refs : RefHits(sensor_id, fix.finding_refs[r], highlights[k])
  BY <1>1, HitConcerns DEF Concerns
<1> QED
  BY <1>2 DEF Matched

(* A reported finding is among the candidates, or the limit per sensor is   *)
(* used up by others.                                                      *)
LEMMA ReportedIsCandidate ==
  ASSUME TypeInv, NEW s, NEW n \in DOMAIN Reported(s),
         ~(Cardinality(NotLighter(Reported(s), n)) >= input.max_per_sensor_findings)
  PROVE  LET found == [sensor_id |-> s, finding |-> Reported(s)[n]]
         IN  /\ found \in Highlight
             /\ \E c \in DOMAIN Candidates(input) : Candidates(input)[c] = found
<1> DEFINE found == [sensor_id |-> s, finding |-> Reported(s)[n]]
           report == input.receipts[s]
           max == input.max_per_sensor_findings
           surfaced == cap_findings(sort_findings(s, report.findings), max).surfaced
<1>1. input \in Inputs
  BY DEF TypeInv, TypeOK
<1>2. s \in DOMAIN input.receipts /\ report # None /\ Reported(s) = report.findings
  <2>1. CASE s \in DOMAIN input.receipts /\ input.receipts[s] # None
    BY <2>1 DEF Reported
  <2>2. CASE ~(s \in DOMAIN input.receipts /\ input.receipts[s] # None)
    <3>1. Reported(s) = << >>
      BY <2>2 DEF Reported
    <3>2. FALSE
      BY <3>1
    <3> QED
      BY <3>2
  <2> QED
    BY <2>1, <2>2
<1>3. s \in Nat /\ max \in Nat /\ report \in SensorReport /\ HasAllOf(Candidates(input), HighlightsOf(input, s))
  BY <1>1, <1>2, InputType, CandidatesType
<1>4. report.counts \in VerdictCounts /\ report.findings \in Seq(Finding)
  BY <1>3 DEF SensorReport
<1>5. HighlightsOf(input, s) = summarize_sensor_report(s, FALSE, DefaultSensorPolicy, report, max).highlights
  BY <1>2 DEF HighlightsOf
<1>6. DefaultSensorPolicy \in SensorPolicy
  BY DEF DefaultSensorPolicy, SensorPolicy, MissingPolicy
<1>7. ~(Cardinality(NotLighter(report.findings, n)) >= max) /\ n \in DOMAIN report.findings
  BY <1>2
<1> HIDE DEF report, max
<1>8. Lists(HighlightsOf(input, s), s, surfaced)
  BY <1>3, <1>4, <1>5, <1>6, SurfacedAreCandidates
<1>9. \E k \in DOMAIN surfaced : surfaced[k] = report.findings[n]
  BY <1>3, <1>4, <1>7, CutBehindOthers
<1>10. PICK k \in DOMAIN surfaced : surfaced[k] = report.findings[n]
  BY <1>9
<1> HIDE DEF surfaced
<1>11. PICK j \in DOMAIN HighlightsOf(input, s) : HighlightsOf(input, s)[j] = found
  BY <1>2, <1>8, <1>10 DEF Lists
<1>12. \E c \in DOMAIN Candidates(input) : Candidates(input)[c] = found
  BY <1>3, <1>11 DEF HasAllOf
<1>13. found \in Highlight
  BY <1>2, <1>3, <1>4, <1>7 DEF Highlight
<1> QED
  BY <1>12, <1>13

(* A reported finding that no fix about it hits is left out for one of the  *)
(* three reasons.                                                          *)
LEMMA LeftOutForAReason ==
  ASSUME TypeInv, highlights = select_highlights(Candidates(input), input.max_highlights, input.blocking),
         NEW s, NEW fix, NEW n \in DOMAIN Reported(s),
         Concerns(fix, s, [sensor_id |-> s, finding |-> Reported(s)[n]]),
         Matched(s, fix, highlights) = {}
  PROVE  LeftOut(s, n)
<1> DEFINE found == [sensor_id |-> s, finding |-> Reported(s)[n]]
           candidates == Candidates(input)
<1>1. CASE Cardinality(NotLighter(Reported(s), n)) >= input.max_per_sensor_findings
  BY <1>1 DEF LeftOut
<1>2. CASE ~(Cardinality(NotLighter(Reported(s), n)) >= input.max_per_sensor_findings)
  <2>1. found \in Highlight /\ \E c \in DOMAIN candidates : candidates[c] = found
    BY <1>2, ReportedIsCandidate
  <2>2. Concerns(fix, s, found)
    OBVIOUS
  <2>3. candidates \in Seq(Highlight) /\ input.max_highlights \in Nat
    BY InputType, CandidatesType DEF TypeInv, TypeOK
  <2>4. highlights = select_highlights(candidates, input.max_highlights, input.blocking)
    OBVIOUS
  <2> HIDE DEF candidates
  <2>5. PICK c \in DOMAIN candidates : candidates[c] = found
    BY <2>1
  <2>6. PICK d \in Deduped(candidates) : fingerprint_of(candidates[d]) = fingerprint_of(found)
    BY <2>3, <2>5, OneIsKept
  <2>7. d \in DOMAIN candidates /\ candidates[d] \in Highlight
    BY <2>3 DEF Deduped
  <2>8. CASE Len(highlights) = input.max_highlights
    BY <2>8 DEF LeftOut
  <2>9. CASE \E k \in DOMAIN highlights : highlights[k] = Marked(candidates[d])
    <3>1. PICK k \in DOMAIN highlights : highlights[k] = Marked(candidates[d])
      BY <2>9
    <3>2. highlights[k].finding.fingerprint = fingerprint_of(found)
      BY <2>6, <2>7, <3>1, MarkedFacts
    <3>3. highlights[k] # AsShown(found)
      BY <2>1, <2>2, <3>1, ShownIsHit
    <3> QED
      BY <3>1, <3>2, <3>3 DEF LeftOut
  <2>10. \/ \E k \in DOMAIN highlights : highlights[k] = Marked(candidates[d])
         \/ Len(highlights) = input.max_highlights
    <3> DEFINE selected == select_highlights(candidates, input.max_highlights, input.blocking)
    <3>1. \/ \E k \in DOMAIN selected : selected[k] = Marked(candidates[d])
          \/ Len(selected) = input.max_highlights
      BY <2>3, <2>6, KeptIsShown
    <3>2. highlights = selected
      BY <2>4
    <3> HIDE DEF selected
    <3> QED
      BY <3>1, <3>2
  <2> QED
    BY <2>8, <2>9, <2>10
<1> QED
  BY <1>1, <1>2

(* A fix that counts as unmatched although a receipt reports what it is     *)
(* about lost it to one of the two caps or to another finding of the same  *)
(* fingerprint.                                                            *)
THEOREM UnmatchedHasAReason == Spec => []UnmatchedIsExplained
<1>1. TypeInv /\ SourceInv => UnmatchedIsExplained
  <2> SUFFICES ASSUME TypeInv, SourceInv, NEW i \in DOMAIN all_fixes, all_fixes[i].unmatched
               PROVE  \E j \in DOMAIN taken[all_fixes[i].sensor_id] :
                        LET sensor_id == all_fixes[i].sensor_id
                            fix == taken[sensor_id][j]
                        IN  /\ fix.id = all_fixes[i].fix_id /\ fix.safety = all_fixes[i].safety
                            /\ \A n \in DOMAIN Reported(sensor_id) :
                                 Concerns(fix, sensor_id, [sensor_id |-> sensor_id,
                                                           finding |-> Reported(sensor_id)[n]])
                                   => LeftOut(sensor_id, n)
    BY DEF UnmatchedIsExplained
  <2> DEFINE f == all_fixes[i]
             s == f.sensor_id
  <2>1. all_fixes # << >> /\ Stems(f)
    BY DEF SourceInv
  <2>2. highlights = select_highlights(Candidates(input), input.max_highlights, input.blocking)
    BY <2>1 DEF SourceInv
  <2>3. PICK j \in DOMAIN taken[s] : f = SummarizeFix(s, taken[s][j], highlights)
    BY <2>1 DEF Stems
  <2> DEFINE fix == taken[s][j]
  <2>4. fix.id = f.fix_id /\ fix.safety = f.safety /\ Matched(s, fix, highlights) = {}
    <3>1. f.unmatched
      OBVIOUS
    <3>2. /\ f.fix_id = fix.id /\ f.safety = fix.safety
          /\ f.unmatched = (Matched(s, fix, highlights) = {})
      <4> HIDE DEF f
      <4> QED
        BY <2>3 DEF SummarizeFix
    <3> QED
      BY <3>1, <3>2
  <2>5. ASSUME NEW n \in DOMAIN Reported(s),
               Concerns(fix, s, [sensor_id |-> s, finding |-> Reported(s)[n]])
        PROVE  LeftOut(s, n)
    <3> HIDE DEF f, s, fix
    <3> QED
      BY <2>2, <2>4, <2>5, LeftOutForAReason
  <2> QED
    BY <2>3, <2>4, <2>5
<1> QED
  BY <1>1, Sourced, PTL

(***************************************************************************)
(* The evidence.                                                           *)
(***************************************************************************)
TrueEvidence(entry) ==
  /\ entry.status = "skipped" <=> asked = None
  /\ entry.selected = FixIds(Selected)
  /\ entry.status = "failed" <=> entry.errors

EvidenceInv ==
  /\ pc # "done" => evidence = None
  /\ evidence # None => TrueEvidence(evidence)

(* The evidence of a run whose actuator was started, or was not.            *)
LEMMA RecordTrue ==
  ASSUME NEW status, NEW reason, NEW applied, NEW errors,
         Record(Evidence(status, reason, applied, errors)),
         status = "skipped" <=> asked = None,
         \/ status = "failed" /\ errors
         \/ status # "failed" /\ ~errors
  PROVE  EvidenceInv'
<1>1. /\ evidence' = Evidence(status, reason, applied, errors) /\ pc' = "done"
      /\ UNCHANGED <<policy, all_fixes, asked, tree>>
  BY DEF Record
<1>2. Selected' = Selected
  BY <1>1 DEF Selected
<1>3. /\ evidence'.status = status /\ evidence'.selected = FixIds(Selected)
      /\ evidence'.applied = applied /\ evidence'.errors = errors
  BY <1>1 DEF Evidence
<1> QED
  BY <1>1, <1>2, <1>3 DEF EvidenceInv, TrueEvidence

(* A step before the evidence is recorded.                                 *)
LEMMA NothingRecorded ==
  ASSUME EvidenceInv, pc # "done", evidence' = evidence
  PROVE  EvidenceInv'
BY DEF EvidenceInv

(* Every step keeps the evidence true.                                     *)
LEMMA StepRecorded == TypeInv /\ SourceInv /\ EvidenceInv /\ [Next]_vars => EvidenceInv'
<1> SUFFICES ASSUME TypeInv, SourceInv, EvidenceInv, [Next]_vars PROVE EvidenceInv'
  OBVIOUS
<1> USE DEF program
<1>1. CASE MergeOptions
  BY <1>1, NothingRecorded DEF MergeOptions
<1>2. CASE RefuseOptions
  BY <1>2, NothingRecorded DEF RefuseOptions, GiveUp
<1>3. CASE PlanExists
  BY <1>3, NothingRecorded DEF PlanExists, NextPlan, Goto
<1>4. CASE CanonicalizePlan
  BY <1>4, NothingRecorded DEF CanonicalizePlan, NextPlan, Goto
<1>5. CASE CheckPlanSize
  BY <1>5, NothingRecorded DEF CheckPlanSize, NextPlan, GiveUp
<1>6. CASE ReadPlan
  BY <1>6, NothingRecorded DEF ReadPlan, NextPlan, GiveUp
<1>7. CASE PlanIoError
  BY <1>7, NothingRecorded DEF PlanIoError, GiveUp
<1>8. CASE NotEvaluated
  <2>1. evidence = None /\ evidence' = evidence
    BY <1>8 DEF NotEvaluated, PlansRead, Goto, EvidenceInv
  <2> QED
    BY <2>1 DEF EvidenceInv
<1>9. CASE SkipApply
  <2>1. asked = None
    BY <1>9 DEF SkipApply, PlansRead, TypeInv, Early
  <2> DEFINE nothing == {}
  <2>2. Record(Evidence("skipped", SkipReason, nothing, FALSE))
    BY <1>9 DEF SkipApply
  <2> HIDE DEF nothing
  <2> QED
    BY <2>1, <2>2, RecordTrue
<1>10. CASE StartActuator
  BY <1>10, NothingRecorded DEF StartActuator, PlansRead
<1>11. CASE ActuatorAnswers
  <2>1. asked # None
    BY <1>11 DEF ActuatorAnswers, TypeInv
  <2>2. PICK applied \in SUBSET AnswerIds, errors \in BOOLEAN :
          Record(IF errors THEN Evidence("failed", "actuator_reported_errors", applied, TRUE)
                 ELSE Evidence("applied", None, applied, FALSE))
    BY <1>11 DEF ActuatorAnswers
  <2>3. CASE errors
    <3>1. Record(Evidence("failed", "actuator_reported_errors", applied, TRUE))
      BY <2>2, <2>3
    <3> QED
      BY <2>1, <3>1, RecordTrue
  <2>4. CASE ~errors
    <3>1. Record(Evidence("applied", None, applied, FALSE))
      BY <2>2, <2>4
    <3> QED
      BY <2>1, <3>1, RecordTrue
  <2> QED
    BY <2>3, <2>4
<1>12. CASE ActuatorErrs
  <2> DEFINE nothing == {}
  <2>1. asked # None /\ Record(Evidence("failed", "actuator_error", nothing, TRUE))
    BY <1>12 DEF ActuatorErrs, TypeInv
  <2> HIDE DEF nothing
  <2> QED
    BY <2>1, RecordTrue
<1>13. CASE ActuatorApplies
  BY <1>13, NothingRecorded DEF ActuatorApplies
<1>14. CASE PlanWritten
  BY <1>14, NothingRecorded DEF PlanWritten
<1>15. CASE UNCHANGED vars
  <2>1. UNCHANGED <<pc, policy, all_fixes, asked, tree, evidence>>
    BY <1>15 DEF vars
  <2>2. Selected' = Selected
    BY <2>1 DEF Selected
  <2> QED
    BY <2>1, <2>2 DEF EvidenceInv, TrueEvidence
<1> QED
  BY <1>1, <1>2, <1>3, <1>4, <1>5, <1>6, <1>7, <1>8, <1>9, <1>10, <1>11, <1>12, <1>13, <1>14, <1>15
     DEF Next

(* The head line of the table counts its rows.                             *)
LEMMA TableCounts ==
  ASSUME NEW fixes \in Seq(FixSummary)
  PROVE  LET table == render_buildfix_section(BuildfixSummary(fixes))
         IN  /\ table.matched = Cardinality({k \in DOMAIN table.rows : table.rows[k].matched})
             /\ table.total = table.matched + table.unmatched
<1> DEFINE table == render_buildfix_section(BuildfixSummary(fixes))
           U == {i \in DOMAIN fixes : fixes[i].unmatched}
           M == {i \in DOMAIN fixes : ~fixes[i].unmatched}
           n == Len(fixes)
<1>1. U \in SUBSET DOMAIN fixes /\ M \in SUBSET DOMAIN fixes /\ U \cup M = DOMAIN fixes /\ U \cap M = {}
  OBVIOUS
<1>2. {k \in DOMAIN table.rows : table.rows[k].matched} = M
  BY DEF render_buildfix_section, BuildfixSummary
<1>3. /\ table.total = n /\ table.matched = n - Cardinality(U) /\ table.unmatched = Cardinality(U)
  BY DEF render_buildfix_section, BuildfixSummary
<1> HIDE DEF table, U, M
<1>4. IsFiniteSet(U) /\ IsFiniteSet(M) /\ n \in Nat /\ Cardinality(DOMAIN fixes) = n
  BY <1>1, DomainFinite, IndicesFinite
<1>5. Cardinality(U \cup M) = Cardinality(U) + Cardinality(M) - Cardinality(U \cap M)
  BY <1>4, FS_Union
<1>6. Cardinality(U) \in Nat /\ Cardinality(M) \in Nat
  BY <1>4, FS_CardinalityType
<1> HIDE DEF n
<1>7. Cardinality(U \cap M) = 0
  BY <1>1, FS_EmptySet
<1>8. n = Cardinality(U) + Cardinality(M)
  BY <1>1, <1>4, <1>5, <1>6, <1>7
<1>9. table.matched = Cardinality(M) /\ table.total = table.matched + table.unmatched
  BY <1>3, <1>4, <1>6, <1>8
<1> QED
  BY <1>2, <1>9 DEF table

(* Nothing changes in the tree that the comment does not account for,      *)
(* however the actuator ended.                                             *)
THEOREM EvidenceAboutTree == Spec => []EvidenceCoversTree
<1>1. Init => EvidenceInv
  BY DEF Init, EvidenceInv
<1>2. TypeInv /\ SourceInv /\ EvidenceInv => EvidenceCoversTree
  <2> SUFFICES ASSUME TypeInv, SourceInv, EvidenceInv, evidence # None PROVE EvidenceCoversTree
    BY DEF EvidenceCoversTree
  <2> DEFINE apply == render_buildfix_apply_section(evidence)
             table == render_buildfix_section(BuildfixSummary(all_fixes))
  <2>1. TrueEvidence(evidence)
    BY DEF EvidenceInv
  <2>2. /\ apply.status = evidence.status /\ apply.selected = evidence.selected
        /\ apply.errors = evidence.errors
    BY DEF render_buildfix_apply_section
  <2> HIDE DEF apply
  <2>3. /\ apply.status = "skipped" <=> asked = None
        /\ apply.status = "failed" <=> apply.errors
        /\ apply.selected = FixIds(Selected)
    BY <2>1, <2>2 DEF TrueEvidence
  <2>4. asked # None => apply.selected = FixIds(asked)
    BY <2>3 DEF SourceInv
  <2>5. all_fixes \in Seq(FixSummary)
    BY DEF TypeInv, TypeOK
  <2>6. /\ table.matched = Cardinality({k \in DOMAIN table.rows : table.rows[k].matched})
        /\ table.total = table.matched + table.unmatched
    BY <2>5, TableCounts
  <2>7. ASSUME NEW i \in tree
        PROVE  /\ \E k \in DOMAIN apply.selected : apply.selected[k] = asked[i].fix_id
               /\ \E k \in DOMAIN table.rows :
                    table.rows[k] = [fix_id |-> asked[i].fix_id, safety |-> asked[i].safety,
                                     matched |-> ~asked[i].unmatched]
    <3>1. asked # None /\ i \in DOMAIN asked
      BY <2>7 DEF TypeInv, TypeOK
    <3>2. i \in DOMAIN apply.selected /\ apply.selected[i] = asked[i].fix_id
      BY <2>4, <3>1 DEF FixIds
    <3>3. PICK k \in DOMAIN all_fixes : all_fixes[k] = asked[i]
      BY <3>1, AskedSource
    <3>4. k \in DOMAIN table.rows
          /\ table.rows[k] = [fix_id |-> all_fixes[k].fix_id, safety |-> all_fixes[k].safety,
                              matched |-> ~all_fixes[k].unmatched]
      BY DEF render_buildfix_section, BuildfixSummary
    <3> HIDE DEF table
    <3> QED
      BY <3>2, <3>3, <3>4
  <2>8. asked = None => tree = {}
    BY DEF TypeInv, TypeOK
  <2> HIDE DEF table
  <2> QED
    BY <2>3, <2>4, <2>6, <2>7, <2>8 DEF EvidenceCoversTree, apply, table
<1>3. Spec => []EvidenceInv
  BY <1>1, StepRecorded, Sourced, PTL DEF Spec
<1> QED
  BY <1>2, <1>3, Sourced, PTL

(***************************************************************************)
(* The plan that is used.  While the budget is untouched, what the size    *)
(* was checked of is still there.                                          *)
(***************************************************************************)
CheckInv ==
  /\ pc = "metadata" => todo # << >> /\ (plans[Sensor] \notin {None, Escape} \/ budget < EnvBudget)
  /\ pc = "read" =>
       /\ todo # << >>
       /\ \/ budget < EnvBudget
          \/ checked[Sensor] = plans[Sensor] /\ plans[Sensor] \notin {None, Escape}
       /\ checked[Sensor] \in PlanFiles => checked[Sensor].size <= MaxPlanBytes

(* Every step keeps what the checks found.                                 *)
LEMMA StepChecked == TypeInv /\ CheckInv /\ [Next]_vars => CheckInv'
<1> SUFFICES ASSUME TypeInv, CheckInv, [Next]_vars PROVE CheckInv'
  OBVIOUS
<1> USE DEF program
<1>1. CASE MergeOptions
  BY <1>1 DEF MergeOptions, CheckInv
<1>2. CASE RefuseOptions
  BY <1>2 DEF RefuseOptions, GiveUp, CheckInv
<1>3. CASE PlanExists
  BY <1>3 DEF PlanExists, NextPlan, Goto, CheckInv
<1>4. CASE CanonicalizePlan
  BY <1>4 DEF CanonicalizePlan, NextPlan, Goto, CheckInv, Sensor, TypeInv, TypeOK
<1>5. CASE CheckPlanSize
  <2>1. CASE GiveUp
    BY <2>1 DEF GiveUp, CheckInv
  <2>2. CASE NextPlan
    BY <2>2 DEF NextPlan, CheckInv
  <2>3. ASSUME plans[Sensor] # None, NEW file \in PlanContents(Sensor), ~(file.size > MaxPlanBytes),
               pc' = "read", checked' = [checked EXCEPT ![Sensor] = plans[Sensor]],
               UNCHANGED <<plans, budget, todo>>
        PROVE  CheckInv'
    <3>1. todo # << >> /\ todo \in Seq(Sensors) /\ Sensor' = Sensor
      BY <1>5, <2>3 DEF CheckPlanSize, TypeInv, TypeOK, Sensor
    <3>2. Sensor \in Sensors
      BY <3>1 DEF Sensor
    <3>3. checked'[Sensor] = plans[Sensor]
      BY <2>3, <3>2 DEF TypeInv
    <3>4. file \in PlanFiles /\ file.size \in Nat
      BY <2>3, <3>2, PlanContentsType DEF TypeInv, TypeOK
    <3>5. plans[Sensor] \in PlanFiles => plans[Sensor].size <= MaxPlanBytes
      BY <2>3, <3>4, BuildfixAssumption DEF PlanContents
    <3>6. plans[Sensor] \notin {None, Escape} \/ budget < EnvBudget
      BY <1>5 DEF CheckPlanSize, CheckInv
    <3> QED
      BY <2>3, <3>1, <3>3, <3>5, <3>6 DEF CheckInv
  <2> QED
    BY <1>5, <2>1, <2>2, <2>3 DEF CheckPlanSize
<1>6. CASE ReadPlan
  BY <1>6 DEF ReadPlan, NextPlan, GiveUp, CheckInv
<1>7. CASE PlanIoError
  BY <1>7 DEF PlanIoError, GiveUp, CheckInv
<1>8. CASE NotEvaluated
  BY <1>8 DEF NotEvaluated, Goto, CheckInv
<1>9. CASE SkipApply
  BY <1>9 DEF SkipApply, Record, CheckInv
<1>10. CASE StartActuator
  BY <1>10 DEF StartActuator, CheckInv
<1>11. CASE ActuatorAnswers
  BY <1>11 DEF ActuatorAnswers, Record, CheckInv
<1>12. CASE ActuatorErrs
  BY <1>12 DEF ActuatorErrs, Record, CheckInv
<1>13. CASE ActuatorApplies
  BY <1>13 DEF ActuatorApplies, CheckInv
<1>14. CASE PlanWritten
  <2>1. budget \in 0 .. EnvBudget /\ budget' = budget - 1 /\ budget > 0 /\ EnvBudget \in Nat
    BY <1>14, BuildfixAssumption DEF PlanWritten, TypeInv, TypeOK
  <2>2. budget' < EnvBudget
    BY <2>1
  <2>3. UNCHANGED <<pc, todo, checked>> /\ Sensor' = Sensor
    BY <1>14 DEF PlanWritten, Sensor
  <2> QED
    BY <2>2, <2>3 DEF CheckInv
<1>15. CASE UNCHANGED vars
  BY <1>15 DEF vars, CheckInv, Sensor
<1> QED
  BY <1>1, <1>2, <1>3, <1>4, <1>5, <1>6, <1>7, <1>8, <1>9, <1>10, <1>11, <1>12, <1>13, <1>14, <1>15
     DEF Next

(* Only ReadPlan takes a plan, and only that of the sensor in hand.         *)
LEMMA OnlyReadTakes ==
  ASSUME TypeInv, [Next]_vars, NEW s \in Sensors, taken'[s] # taken[s]
  PROVE  pc = "read" /\ s = Sensor
<1> USE DEF program
<1>1. CASE ReadPlan
  <2>1. pc = "read"
    BY <1>1 DEF ReadPlan
  <2>2. taken' = taken \/ \E fixes : taken' = [taken EXCEPT ![Sensor] = fixes]
    BY <1>1 DEF ReadPlan, GiveUp, NextPlan
  <2>3. DOMAIN taken = Sensors
    BY DEF TypeInv
  <2>4. s = Sensor
    BY <2>2, <2>3
  <2> QED
    BY <2>1, <2>4
<1>2. taken' = taken \/ ReadPlan
  BY DEF Next, MergeOptions, RefuseOptions, PlanExists, CanonicalizePlan, CheckPlanSize, PlanIoError,
         NotEvaluated, SkipApply, StartActuator, ActuatorAnswers, ActuatorErrs, ActuatorApplies, PlanWritten,
         GiveUp, NextPlan, Goto, Record, vars
<1> QED
  BY <1>1, <1>2

(* A plan is used within the limit and the root, unless it was replaced     *)
(* after the check.                                                        *)
THEOREM PlansAreChecked == Spec => PlanUsedAsChecked
<1> DEFINE Kept == \A s \in Sensors : taken'[s] # taken[s] =>
                     IF plans[s] = checked[s] /\ plans[s] \in PlanFiles
                     THEN plans[s].size <= MaxPlanBytes
                     ELSE budget < EnvBudget
<1>1. Init => CheckInv
  BY DEF Init, CheckInv
<1>2. TypeInv /\ CheckInv /\ [Next]_vars => Kept
  <2> SUFFICES ASSUME TypeInv, CheckInv, [Next]_vars, NEW s \in Sensors, taken'[s] # taken[s]
               PROVE  IF plans[s] = checked[s] /\ plans[s] \in PlanFiles
                      THEN plans[s].size <= MaxPlanBytes
                      ELSE budget < EnvBudget
    OBVIOUS
  <2>1. pc = "read" /\ s = Sensor
    BY OnlyReadTakes
  <2>2. plans[s] \in PlanFiles \cup {None, Escape}
    BY BuildfixAssumption DEF TypeInv, TypeOK
  <2> QED
    BY <2>1, <2>2 DEF CheckInv
<1>3. Spec => [](TypeInv /\ CheckInv)
  BY <1>1, InitTyped, StepTyped, StepChecked, PTL DEF Spec
<1>4. Spec => [][Kept]_vars
  BY <1>2, <1>3, PTL DEF Spec
<1> QED
  BY <1>4 DEF PlanUsedAsChecked
=============================================================================
