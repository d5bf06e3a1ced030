---------------------------- MODULE IngestProofs ----------------------------
(***************************************************************************)
(* Theorems about Ingest, for every set of sensors, receipts,              *)
(* configurations and limits.                                              *)
(***************************************************************************)
EXTENDS Ingest, DomainProofs

(***************************************************************************)
(* Types.  The invariant adds to TypeOK that the configuration is loaded   *)
(* before the first sensor is looked at, and that a sensor whose files are *)
(* looked at has passed the check of its id: without them the policy and   *)
(* the receipt of a sensor have no type.                                   *)
(***************************************************************************)
Loaded == pc \notin {"discover", "failed"} => cfg \in Configs \cup {DefaultConfig}

AtFiles == pc \in {"comment", "gate", "canonicalize", "metadata", "read"}

IdChecked == AtFiles => \A id \in Ids : IsNext(id) => id \in Sensors

TypeInv == TypeOK /\ Loaded /\ IdChecked

(* The configuration of a run without cockpit.toml is a configuration.     *)
LEMMA ConfigTypes ==
  \A c \in Configs \cup {DefaultConfig} : IsConfig(c)
<1>1. IsConfig(DefaultConfig)
  BY DomainAssumption DEF IsConfig, DefaultConfig, SchemaValidation
<1> QED
  BY <1>1, IngestAssumption

(* Ids are numbers, and every set of them is finite.                       *)
LEMMA IdTypes ==
  /\ Ids \subseteq Nat /\ Sensors \subseteq Ids /\ UnsafeIds \subseteq Ids
  /\ \A S \in SUBSET Ids : IsFiniteSet(S) /\ Cardinality(S) \in Nat
<1>1. Ids \subseteq Nat /\ Sensors \subseteq Ids /\ UnsafeIds \subseteq Ids
  BY IngestAssumption DEF Ids
<1>2. \A S \in SUBSET Ids : IsFiniteSet(S)
  BY IngestAssumption, FS_Subset
<1> QED
  BY <1>1, <1>2, FS_CardinalityType

(* The invalid directory names become highlights, one each.                *)
LEMMA TraversalHighlightsType ==
  ASSUME NEW names \in SUBSET Ids
  PROVE  TraversalHighlights(names) \in Seq(Highlight)
<1> DEFINE key == [i \in names |-> <<i>>]
<1> DEFINE sorted == StableOrder(names, key)
<1> DEFINE c == Cardinality(names)
<1>1. names \in SUBSET Nat /\ IsFiniteSet(names) /\ c \in Nat
  BY IdTypes
<1>2. key \in [names -> Keys(1)]
  BY <1>1 DEF Keys
<1> HIDE DEF key
<1>3. sorted \in Bijection(1 .. c, names)
  BY <1>1, <1>2, StableOrderIsBijection
<1> HIDE DEF sorted, c
<1>4. sorted \in [1 .. c -> names]
  BY <1>3, Fun_BijectionProperties
<1>5. \A k \in 1 .. c : synthesize_path_traversal_highlight(sorted[k], 1)[1] \in Highlight
  BY <1>1, <1>4, TraversalHighlightType
<1>6. TraversalHighlights(names) =
        [k \in 1 .. c |-> synthesize_path_traversal_highlight(sorted[k], 1)[1]]
  BY <1>4 DEF TraversalHighlights, Ascending, sorted, key
<1> QED
  BY <1>1, <1>5, <1>6

(* Whatever handler a sensor's processing ends with, pushing what it       *)
(* returns keeps the types.                                                *)
LEMMA ConcludeTypes ==
  ASSUME TypeInv, pc \notin {"discover", "failed"},
         NEW id \in Ids, NEW result \in Outcome, NEW evidence \in Evidence,
         Conclude(id, result, evidence)
  PROVE  TypeInv'
<1>1. summaries' \in Seq(SensorSummary) /\ candidates' \in Seq(Highlight)
  BY DEF Conclude, TypeInv, TypeOK, Outcome
<1>2. seen' \in [Ids -> Evidence \cup {None}] /\ todo' \subseteq Ids
  BY DEF Conclude, TypeInv, TypeOK
<1>3. pc' = "sensor" /\ comment_path' = FALSE /\ cfg' = cfg
  BY DEF Conclude
<1>5. IdChecked'
  BY <1>3 DEF IdChecked, AtFiles
<1>4. overtaken' = {} /\ UNCHANGED <<store, comments, budget, input, scan, found, invalid, cfg, outvars>>
  BY DEF Conclude
<1> QED
  BY <1>1, <1>2, <1>3, <1>4, <1>5 DEF TypeInv, TypeOK, Loaded, outvars

(* Going on to a sensor's next filesystem call keeps the types.            *)
LEMMA ContinueTypes ==
  ASSUME TypeInv, pc \notin {"discover", "failed"}, NEW id \in Sensors, IsNext(id),
         NEW step \in {"gate", "comment", "canonicalize", "metadata", "read"}, Continue(step)
  PROVE  TypeInv'
<1>1. (TypeOK /\ Loaded)'
  BY DEF Continue, TypeInv, TypeOK, Loaded, envvars, outvars
<1>2. IdChecked'
  <2>1. todo' = todo
    BY DEF Continue
  <2>2. \A next \in Ids : IsNext(next) => next = id
    BY IdTypes DEF IsNext
  <2> QED
    BY <2>1, <2>2 DEF IdChecked, IsNext
<1> QED
  BY <1>1, <1>2 DEF TypeInv

(* So does giving up.                                                      *)
LEMMA StopTypes ==
  ASSUME TypeInv, Stop
  PROVE  TypeInv'
BY DEF Stop, Fail, TypeInv, TypeOK, Loaded, IdChecked, AtFiles, envvars

(* At a sensor, its policy has the type of a policy.                       *)
LEMMA PolicyTypes ==
  ASSUME TypeInv, pc \notin {"discover", "failed"}, NEW id \in Ids
  PROVE  policy_of(cfg, id) \in SensorPolicy
<1>1. IsConfig(cfg)
  BY ConfigTypes DEF TypeInv, Loaded
<1> QED
  BY <1>1, PolicyOfType DEF IsConfig

(* The initial states are typed.                                           *)
LEMMA InitTypes ==
  Init => TypeInv
<1> SUFFICES ASSUME Init PROVE TypeInv
  OBVIOUS
<1>1. EnvBudget \in 0 .. EnvBudget
  BY IngestAssumption
<1>2. scan \subseteq Ids
  <2>1. input.unsafe_dirs \subseteq UnsafeIds
    BY IngestAssumption DEF Init, Input
  <2> QED
    BY <2>1 DEF Init, Ids
<1>3. summaries \in Seq(SensorSummary) /\ candidates \in Seq(Highlight)
  BY DEF Init
<1>4. seen \in [Ids -> Evidence \cup {None}] /\ pc = "discover"
  BY DEF Init
<1>5. /\ store \in [Sensors -> Files \cup Elsewhere] /\ comments \in [Sensors -> Comments]
      /\ budget \in 0 .. EnvBudget /\ overtaken \in SUBSET {"root", "size"} /\ input \in Inputs
  BY <1>1 DEF Init
<1>6. found \subseteq Sensors /\ invalid \subseteq UnsafeIds /\ todo \subseteq Ids
  BY DEF Init
<1>7. cfg = None /\ comment_path = FALSE /\ built = None /\ report_file = None
      /\ comment_file = None /\ exit = None
  BY DEF Init
<1> QED
  BY <1>2, <1>3, <1>4, <1>5, <1>6, <1>7 DEF TypeInv, TypeOK, Loaded, IdChecked, AtFiles

(* Loading the configuration fixes the expected sensors and the first      *)
(* candidates.                                                             *)
LEMMA LoadConfigTypes ==
  ASSUME TypeInv, LoadConfig
  PROVE  TypeInv'
<1>1. CASE input.config = Broken
  BY <1>1 DEF LoadConfig, Fail, TypeInv, TypeOK, Loaded, IdChecked, AtFiles, envvars
<1>2. CASE input.config # Broken
  <2>1. cfg' \in Configs \cup {DefaultConfig} /\ IsConfig(cfg')
    <3>1. input.config \in Configs \cup {None, Broken}
      BY IngestAssumption DEF TypeInv, TypeOK, Input
    <3>2. cfg' \in Configs \cup {DefaultConfig}
      BY <1>2, <3>1 DEF LoadConfig
    <3> QED
      BY <3>2, ConfigTypes
  <2>2. todo' \subseteq Ids
    <3>1. discovered \subseteq Ids
      BY IdTypes DEF discovered, TypeInv, TypeOK
    <3> QED
      BY <1>2, <2>1, <3>1 DEF LoadConfig, IsConfig
  <2>3. candidates' \in Seq(Highlight)
    <3> DEFINE note == IF Cardinality(found) > MaxReceipts
                       THEN synthesize_sensors_truncated(MaxReceipts, Cardinality(found))
                       ELSE << >>
    <3>1. TraversalHighlights(invalid) \in Seq(Highlight)
      BY IdTypes, TraversalHighlightsType DEF TypeInv, TypeOK
    <3>2. Cardinality(found) \in Nat
      BY IdTypes DEF TypeInv, TypeOK
    <3>3. note \in Seq(Highlight)
      <4>1. synthesize_sensors_truncated(MaxReceipts, Cardinality(found)) \in Seq(Highlight)
        BY <3>2, TruncatedType, IngestAssumption
      <4> QED
        BY <4>1
    <3>4. candidates' = TraversalHighlights(invalid) \o note
      BY <1>2 DEF LoadConfig
    <3> HIDE DEF note
    <3> QED
      BY <3>1, <3>3, <3>4
  <2>4. pc' = "sensor"
    BY <1>2 DEF LoadConfig
  <2>5. UNCHANGED <<envvars, input, scan, found, invalid, comment_path, summaries, seen, outvars>>
    BY <1>2 DEF LoadConfig
  <2> QED
    BY <2>1, <2>2, <2>3, <2>4, <2>5
       DEF TypeInv, TypeOK, Loaded, IdChecked, AtFiles, envvars, outvars
<1> QED
  BY <1>1, <1>2

(* One sensor's processing keeps the types, whichever call it is at.       *)
LEMMA ProcessTypes ==
  ASSUME TypeInv, NEW id \in Ids, Process(id)
  PROVE  TypeInv'
<1> DEFINE policy == policy_of(cfg, id)
<1>1. pc \notin {"discover", "failed"}
  BY DEF Process, RejectId, CheckComment, CanonicalizeComment, SkipGated, CheckExists,
         Canonicalize, CheckSize, ReadReceipt
<1>2. policy \in SensorPolicy /\ id \in Nat
  BY <1>1, PolicyTypes, IdTypes
<1>3. comment_path \in BOOLEAN
  BY DEF TypeInv, TypeOK
<1>4. /\ "gated" \in Evidence /\ "missing" \in Evidence /\ "rejected" \in Evidence
      /\ VerdictStatus \subseteq Evidence
  BY DEF Evidence
<1>0. pc # "sensor" => id \in Sensors
  BY DEF Process, RejectId, CheckComment, CanonicalizeComment, SkipGated, CheckExists,
         Canonicalize, CheckSize, ReadReceipt, TypeInv, IdChecked, AtFiles
<1> HIDE DEF policy
<1>5. CASE RejectId(id)
  <2>1. synthesize_path_traversal_sensor(id, policy, FALSE) \in Outcome
    BY <1>2, TraversalType
  <2> QED
    BY <1>1, <1>4, <1>5, <2>1, ConcludeTypes DEF RejectId, policy
<1>6. CASE CheckComment(id)
  BY <1>1, <1>6, ContinueTypes DEF CheckComment
<1>7. CASE CanonicalizeComment(id)
  <2>1. synthesize_path_traversal_highlight(id, 2) \in Seq(Highlight)
    BY <1>2, TraversalHighlightType
  <2>2. candidates' \in Seq(Highlight)
    BY <1>7, <2>1 DEF CanonicalizeComment, TypeInv, TypeOK
  <2>3. comment_path' \in BOOLEAN
    BY <1>7 DEF CanonicalizeComment
  <2>4. /\ pc' = "gate" /\ AtFiles
        /\ UNCHANGED <<envvars, input, scan, found, invalid, cfg, todo, summaries, outvars, seen>>
    BY <1>7 DEF CanonicalizeComment, AtFiles
  <2>5. IdChecked'
    BY <2>4 DEF TypeInv, IdChecked, IsNext
  <2> QED
    BY <1>1, <2>2, <2>3, <2>4, <2>5 DEF TypeInv, TypeOK, Loaded, envvars, outvars
<1>8. CASE SkipGated(id)
  <2> DEFINE skipping == [policy EXCEPT !.missing = "skip"]
  <2>1. skipping \in SensorPolicy
    BY <1>2 DEF SensorPolicy, MissingPolicy
  <2> HIDE DEF skipping
  <2>2. synthesize_missing_sensor(id, skipping, comment_path) \in Outcome
    BY <1>2, <1>3, <2>1, MissingType
  <2> QED
    BY <1>1, <1>4, <1>8, <2>2, ConcludeTypes DEF SkipGated, policy, skipping
<1>9. CASE CheckExists(id)
  <2>1. synthesize_missing_sensor(id, policy, comment_path) \in Outcome
    BY <1>2, <1>3, MissingType
  <2>2. id \in Sensors /\ IsNext(id)
    BY <1>0, <1>9 DEF CheckExists
  <2> QED
    BY <1>1, <1>4, <1>9, <2>1, <2>2, ConcludeTypes, ContinueTypes DEF CheckExists, policy
<1>10. CASE Canonicalize(id)
  <2>1. synthesize_path_traversal_sensor(id, policy, comment_path) \in Outcome
    BY <1>2, <1>3, TraversalType
  <2>2. id \in Sensors /\ IsNext(id)
    BY <1>0, <1>10 DEF Canonicalize
  <2> QED
    BY <1>1, <1>4, <1>10, <2>1, <2>2, ConcludeTypes, ContinueTypes DEF Canonicalize, policy
<1>11. ASSUME store[id] # None, id \in Sensors
       PROVE  Contents(id) \subseteq Files
  BY <1>11, IngestAssumption DEF Contents, TypeInv, TypeOK
<1>12. \A file \in Files : /\ file.size \in Nat
                           /\ file.report # None => file.report \in SensorReport
  BY IngestAssumption DEF ReceiptFile
<1>13. CASE CheckSize(id)
  <2>1. CASE store[id] = None
    BY <1>13, <2>1, StopTypes DEF CheckSize
  <2>2. CASE store[id] # None
    <3>1. PICK file \in Contents(id) :
             IF file.size > MaxReceiptBytes
             THEN Conclude(id, synthesize_receipt_oversized_sensor(id, policy, comment_path,
                                 file.size), "rejected")
             ELSE Continue("read")
      BY <1>13, <2>2 DEF CheckSize, policy
    <3>2. id \in Sensors /\ IsNext(id)
      BY <1>0, <1>13 DEF CheckSize
    <3>3. file.size \in Nat
      BY <1>11, <1>12, <2>2, <3>1, <3>2
    <3>4. synthesize_receipt_oversized_sensor(id, policy, comment_path, file.size) \in Outcome
      BY <1>2, <1>3, <3>3, OversizedType
    <3> QED
      BY <1>1, <1>4, <3>1, <3>2, <3>4, ConcludeTypes, ContinueTypes
  <2> QED
    BY <2>1, <2>2
<1>14. CASE ReadReceipt(id)
  <2>1. CASE store[id] = None
    BY <1>14, <2>1, StopTypes DEF ReadReceipt
  <2>2. CASE store[id] # None
    <3>1. PICK file \in Contents(id) :
             IF Strict /\ ~file.schema_ok
             THEN Conclude(id, synthesize_schema_violation_sensor(id, policy, comment_path),
                           "rejected")
             ELSE IF file.report = None
             THEN Conclude(id, synthesize_invalid_sensor(id, policy, comment_path), "rejected")
             ELSE Conclude(id, summarize_sensor_report(id, comment_path, policy, file.report,
                                 cfg.max_per_sensor_findings), file.report.status)
      BY <1>14, <2>2 DEF ReadReceipt, policy
    <3>2. id \in Sensors
      BY <1>0, <1>14 DEF ReadReceipt
    <3>3. file \in Files
      BY <1>11, <2>2, <3>1, <3>2
    <3>4. synthesize_schema_violation_sensor(id, policy, comment_path) \in Outcome
      BY <1>2, <1>3, UnusableType
         DEF synthesize_schema_violation_sensor, SCHEMA_VIOLATION, Reason
    <3>5. synthesize_invalid_sensor(id, policy, comment_path) \in Outcome
      BY <1>2, <1>3, UnusableType DEF synthesize_invalid_sensor, INVALID_RECEIPT, Reason
    <3>6. ASSUME file.report # None
          PROVE  /\ summarize_sensor_report(id, comment_path, policy, file.report,
                                            cfg.max_per_sensor_findings) \in Outcome
                 /\ file.report.status \in VerdictStatus
      <4>1. file.report \in SensorReport
        BY <1>12, <3>3, <3>6
      <4>2. /\ file.report.status \in VerdictStatus /\ file.report.counts \in VerdictCounts
            /\ file.report.findings \in Seq(Finding) /\ file.report.reasons \in SUBSET Reason
        BY <4>1 DEF SensorReport, Reason
      <4>3. cfg.max_per_sensor_findings \in Nat
        BY <1>1, ConfigTypes DEF TypeInv, Loaded, IsConfig
      <4> QED
        BY <1>2, <1>3, <4>2, <4>3, ReportOutcomeType
    <3> QED
      BY <1>1, <1>4, <3>1, <3>4, <3>5, <3>6, ConcludeTypes
  <2> QED
    BY <2>1, <2>2
<1> QED
  BY <1>5, <1>6, <1>7, <1>8, <1>9, <1>10, <1>13, <1>14 DEF Process

(* The report in memory is a report.                                       *)
LEMMA BuildReportTypes ==
  ASSUME TypeInv, BuildReport
  PROVE  TypeInv' /\ built' \in Report
<1>1. pc = "sensor" /\ IsConfig(cfg)
  BY ConfigTypes DEF BuildReport, TypeInv, Loaded
<1>2. cfg.section_order \in Seq(Nat) /\ cfg.max_highlights \in Nat
  BY <1>1 DEF IsConfig
<1>3. summaries' \in Seq(SensorSummary)
  BY <1>2, SortSummariesSorts DEF BuildReport, TypeInv, TypeOK
<1>4. built' \in Report
  <2>1. overall_verdict(summaries', cfg) \in Verdicts
    BY <1>3, VerdictType
  <2>2. select_highlights(candidates, cfg.max_highlights, BlockingIds) \in Seq(Highlight)
    BY <1>2, SelectType DEF TypeInv, TypeOK
  <2>3. discovered \cap input.plans \in SUBSET Sensors
    BY DEF discovered, TypeInv, TypeOK
  <2>4. built' = [verdict    |-> overall_verdict(summaries', cfg),
                  sensors    |-> summaries',
                  highlights |-> select_highlights(candidates, cfg.max_highlights, BlockingIds),
                  buildfix   |-> discovered \cap input.plans]
    BY DEF BuildReport
  <2> QED
    BY <1>3, <2>1, <2>2, <2>3, <2>4 DEF Report, Verdicts
<1>5. /\ pc' = "write_report"
      /\ UNCHANGED <<envvars, input, scan, found, invalid, cfg, todo, comment_path, candidates,
                     report_file, comment_file, exit, seen>>
  BY DEF BuildReport
<1> QED
  BY <1>1, <1>3, <1>4, <1>5 DEF TypeInv, TypeOK, Loaded, IdChecked, AtFiles, envvars

(* Every step keeps the types.                                             *)
LEMMA StepTypes ==
  TypeInv /\ [Next]_vars => TypeInv'
<1> SUFFICES ASSUME TypeInv, [Next]_vars PROVE TypeInv'
  OBVIOUS
<1>1. ASSUME NEW name \in Ids, ScanEntry(name)
      PROVE  TypeInv'
  <2>1. scan' \subseteq Ids /\ found' \subseteq Sensors /\ invalid' \subseteq UnsafeIds
    BY <1>1 DEF ScanEntry, TypeInv, TypeOK, Ids
  <2>2. UNCHANGED <<envvars, input, pc, cfg, todo, comment_path, summaries, candidates, outvars,
                    seen>>
    BY <1>1 DEF ScanEntry
  <2> QED
    BY <2>1, <2>2 DEF TypeInv, TypeOK, Loaded, IdChecked, AtFiles, IsNext, envvars, outvars
<1>2. CASE LoadConfig
  BY <1>2, LoadConfigTypes
<1>3. ASSUME NEW id \in Ids, Process(id)
      PROVE  TypeInv'
  BY <1>3, ProcessTypes
<1>4. CASE BuildReport
  BY <1>4, BuildReportTypes
<1>5. CASE WriteReport
  BY <1>5 DEF WriteReport, TypeInv, TypeOK, Loaded, IdChecked, AtFiles, envvars
<1>6. CASE WriteComment
  BY <1>6 DEF WriteComment, TypeInv, TypeOK, Loaded, IdChecked, AtFiles, envvars
<1>7. CASE IoError
  <2>1. pc' = "failed" /\ exit' = 1
    BY <1>7 DEF IoError
  <2>2. report_file' \in Report \cup {None, Torn} /\ comment_file' \in Report \cup {None, Torn}
    BY <1>7 DEF IoError, TypeInv, TypeOK
  <2>3. UNCHANGED <<envvars, input, scan, found, invalid, cfg, todo, comment_path, summaries,
                    candidates, built, seen>>
    BY <1>7 DEF IoError
  <2> QED
    BY <2>1, <2>2, <2>3 DEF TypeInv, TypeOK, Loaded, IdChecked, AtFiles, envvars
<1>8. ASSUME NEW s \in Sensors, SensorWrites(s) \/ SensorComments(s)
      PROVE  TypeInv'
  <2>1. budget' \in 0 .. EnvBudget
    BY <1>8, IngestAssumption DEF SensorWrites, SensorComments, TypeInv, TypeOK
  <2>2. /\ store' \in [Sensors -> Files \cup Elsewhere]
        /\ comments' \in [Sensors -> Comments] /\ overtaken' \in SUBSET {"root", "size"}
    BY <1>8 DEF SensorWrites, SensorComments, Passed, TypeInv, TypeOK
  <2>3. UNCHANGED <<input, pc, scan, found, invalid, cfg, todo, comment_path, summaries,
                    candidates, outvars, seen>>
    BY <1>8 DEF SensorWrites, SensorComments
  <2> QED
    BY <2>1, <2>2, <2>3 DEF TypeInv, TypeOK, Loaded, IdChecked, AtFiles, IsNext, outvars
<1>9. CASE UNCHANGED vars
  BY <1>9 DEF vars, TypeInv, TypeOK, Loaded, IdChecked, AtFiles, IsNext
<1> QED
  BY <1>1, <1>2, <1>3, <1>4, <1>5, <1>6, <1>7, <1>8, <1>9 DEF Next, Program, Environment

(* The invariant always holds.                                             *)
LEMMA TypesAlways == Spec => []TypeInv
BY InitTypes, StepTypes, PTL DEF Spec

(* Every variable keeps its type, whatever the sensors leave in artifacts/ *)
(* and whatever happens to it while the run reads.                         *)
THEOREM TypeCorrect == Spec => []TypeOK
<1>1. TypeInv => TypeOK
  BY DEF TypeInv
<1> QED
  BY <1>1, TypesAlways, PTL

(***************************************************************************)
(* The two files and the exit code.  What is in memory, on disk and        *)
(* returned depends on how far the run is; an error keeps what the call    *)
(* that failed found, except for the file it was writing.                  *)
(***************************************************************************)
Before == pc \notin {"write_report", "write_comment", "done", "failed"} =>
  built = None /\ report_file = None /\ comment_file = None /\ exit = None

Between ==
  /\ pc = "write_report" =>
       built \in Report /\ report_file = None /\ comment_file = None /\ exit = None
  /\ pc = "write_comment" =>
       built \in Report /\ report_file = built /\ comment_file = None /\ exit = None

After ==
  /\ pc = "done" =>
       /\ built \in Report /\ report_file = built /\ comment_file = built
       /\ exit = IF built.verdict.status = "fail" THEN 2 ELSE 0
  /\ pc = "failed" =>
       exit = 1 /\ (comment_file # None => report_file = built /\ built # None)

FilesInv == Before /\ Between /\ After

(* The files are as far as the program is, in every step.                  *)
LEMMA StepFiles ==
  TypeInv /\ FilesInv /\ [Next]_vars => FilesInv'
<1> SUFFICES ASSUME TypeInv, FilesInv, [Next]_vars PROVE FilesInv'
  OBVIOUS
<1> USE DEF FilesInv, Before, Between, After
<1>1. ASSUME NEW name \in Ids, ScanEntry(name)
      PROVE  FilesInv'
  BY <1>1 DEF ScanEntry, outvars
<1>2. CASE LoadConfig
  BY <1>2, IngestAssumption DEF LoadConfig, Fail, outvars
<1>3. ASSUME NEW id \in Ids, Process(id)
      PROVE  FilesInv'
  <2>1. \/ /\ pc' \in {"sensor", "gate", "comment", "canonicalize", "metadata", "read"}
           /\ UNCHANGED outvars
        \/ Stop
    BY <1>3 DEF Process, RejectId, CheckComment, CanonicalizeComment, SkipGated, CheckExists,
                Canonicalize, CheckSize, ReadReceipt, Conclude, Continue
  <2>2. pc \notin {"write_report", "write_comment", "done", "failed"}
    BY <1>3 DEF Process, RejectId, CheckComment, CanonicalizeComment, SkipGated, CheckExists,
                Canonicalize, CheckSize, ReadReceipt
  <2> QED
    BY <2>1, <2>2 DEF Stop, Fail, outvars
<1>4. CASE BuildReport
  <2>1. built' \in Report
    BY <1>4, BuildReportTypes
  <2> QED
    BY <1>4, <2>1 DEF BuildReport
<1>5. CASE WriteReport
  BY <1>5 DEF WriteReport
<1>6. CASE WriteComment
  BY <1>6 DEF WriteComment
<1>7. CASE IoError
  BY <1>7, IngestAssumption DEF IoError, Fallible
<1>8. ASSUME NEW s \in Sensors, SensorWrites(s) \/ SensorComments(s)
      PROVE  FilesInv'
  BY <1>8 DEF SensorWrites, SensorComments, outvars
<1>9. CASE UNCHANGED vars
  BY <1>9 DEF vars
<1> QED
  BY <1>1, <1>2, <1>3, <1>4, <1>5, <1>6, <1>7, <1>8, <1>9 DEF Next, Program, Environment

(* So they always are.                                                     *)
LEMMA FilesAlways == Spec => [](TypeInv /\ FilesInv)
<1>1. Init => FilesInv
  BY DEF Init, FilesInv, Before, Between, After
<1> QED
  BY <1>1, InitTypes, StepTypes, StepFiles, PTL DEF Spec

(* comment.md is never written without the report it renders, not even by  *)
(* a run that fails, and an exit code other than 1 stands for two complete *)
(* files that agree with it.                                               *)
THEOREM CommentAfterReport == Spec => []CommentFollowsReport
<1>1. TypeInv /\ FilesInv => CommentFollowsReport
  <2> SUFFICES ASSUME TypeInv, FilesInv PROVE CommentFollowsReport
    OBVIOUS
  <2>1. exit = None => exit \notin {0, 2}
    BY TypesAssumption
  <2>2. CASE pc = "done"
    BY <2>2, IngestAssumption DEF FilesInv, After, CommentFollowsReport
  <2>3. CASE pc = "failed"
    BY <2>3 DEF FilesInv, After, CommentFollowsReport
  <2>4. CASE pc \notin {"done", "failed"}
    BY <2>1, <2>4 DEF FilesInv, Before, Between, CommentFollowsReport
  <2> QED
    BY <2>2, <2>3, <2>4
<1> QED
  BY <1>1, FilesAlways, PTL

(***************************************************************************)
(* One summary per expected sensor.                                        *)
(***************************************************************************)

(* A call of a sensor's processing either leaves the list of summaries and *)
(* the sensors to do alone, or takes the sensor off and adds its summary,  *)
(* under its id and with its policy.                                       *)
LEMMA ProcessEffect ==
  ASSUME TypeInv, NEW id \in Ids, Process(id)
  PROVE  /\ pc \notin {"discover", "failed"} /\ id \in todo
         /\ UNCHANGED <<input, found, cfg, built>>
         /\ \/ UNCHANGED <<summaries, todo>>
            \/ /\ todo' = todo \ {id}
               /\ \E s : /\ s.id = id /\ s.blocking = policy_of(cfg, id).blocking
                         /\ summaries' = Append(summaries, s)
<1> DEFINE policy == policy_of(cfg, id)
<1> DEFINE Pushed(r) == \E e : Conclude(id, r, e)
<1>1. pc \notin {"discover", "failed"} /\ IsNext(id)
  BY DEF Process, RejectId, CheckComment, CanonicalizeComment, SkipGated, CheckExists,
         Canonicalize, CheckSize, ReadReceipt
<1>2. policy \in SensorPolicy
  BY <1>1, PolicyTypes
<1> DEFINE skipping == [policy EXCEPT !.missing = "skip"]
<1>3. \A s : Names(s, id, skipping) => Names(s, id, policy)
  BY <1>2 DEF SensorPolicy, Names
<1>4. \/ UNCHANGED <<input, found, cfg, built, summaries, todo>>
      \/ \E r : Pushed(r) /\ Names(r.summary, id, policy)
  <2> HIDE DEF policy, skipping
  <2>1. CASE RejectId(id)
    <3>1. PICK c : Pushed(synthesize_path_traversal_sensor(id, policy, c))
      BY <2>1 DEF RejectId, policy
    <3> DEFINE r == synthesize_path_traversal_sensor(id, policy, c)
    <3>2. Names(r.summary, id, policy)
      BY OutcomesName
    <3> HIDE DEF Pushed, r
    <3> QED
      BY <3>1, <3>2 DEF r
  <2>2. CASE CheckComment(id) \/ CanonicalizeComment(id)
    BY <2>2 DEF CheckComment, Continue, CanonicalizeComment, outvars
  <2>3. CASE SkipGated(id)
    <3>1. Pushed(synthesize_missing_sensor(id, skipping, comment_path))
      BY <2>3 DEF SkipGated, policy, skipping
    <3> HIDE DEF Pushed
    <3> QED
      BY <1>3, <3>1, OutcomesName
  <2>4. CASE CheckExists(id)
    <3>1. CASE Continue("canonicalize")
      BY <3>1 DEF Continue, outvars
    <3>2. CASE Pushed(synthesize_missing_sensor(id, policy, comment_path))
      <4> HIDE DEF Pushed
      <4> QED
        BY <3>2, OutcomesName
    <3> QED
      BY <2>4, <3>1, <3>2 DEF CheckExists, policy
  <2>5. CASE Canonicalize(id)
    <3>1. CASE Continue("metadata")
      BY <3>1 DEF Continue, outvars
    <3>2. CASE Pushed(synthesize_path_traversal_sensor(id, policy, comment_path))
      <4> HIDE DEF Pushed
      <4> QED
        BY <3>2, OutcomesName
    <3> QED
      BY <2>5, <3>1, <3>2 DEF Canonicalize, policy
  <2>6. CASE CheckSize(id)
    <3>1. CASE Continue("read") \/ Stop
      BY <3>1 DEF Continue, Stop, Fail, outvars
    <3>2. CASE \E size :
                 Pushed(synthesize_receipt_oversized_sensor(id, policy, comment_path, size))
      <4> HIDE DEF Pushed
      <4>1. PICK size :
              Pushed(synthesize_receipt_oversized_sensor(id, policy, comment_path, size))
        BY <3>2
      <4> DEFINE r == synthesize_receipt_oversized_sensor(id, policy, comment_path, size)
      <4>2. Names(r.summary, id, policy)
        BY OversizedNames
      <4> HIDE DEF r
      <4> QED
        BY <4>1, <4>2 DEF r
    <3> QED
      BY <2>6, <3>1, <3>2 DEF CheckSize, policy
  <2>7. CASE ReadReceipt(id)
    <3>1. CASE Stop
      BY <3>1 DEF Stop, Fail, outvars
    <3>2. CASE \/ Pushed(synthesize_schema_violation_sensor(id, policy, comment_path))
               \/ Pushed(synthesize_invalid_sensor(id, policy, comment_path))
      <4> HIDE DEF Pushed
      <4> QED
        BY <3>2, OutcomesName
    <3>3. CASE \E report, max :
                 Pushed(summarize_sensor_report(id, comment_path, policy, report, max))
      <4> HIDE DEF Pushed
      <4>1. PICK report, max :
              Pushed(summarize_sensor_report(id, comment_path, policy, report, max))
        BY <3>3
      <4> DEFINE r == summarize_sensor_report(id, comment_path, policy, report, max)
      <4>2. Names(r.summary, id, policy)
        BY ReportNames
      <4> HIDE DEF r
      <4> QED
        BY <4>1, <4>2 DEF r
    <3> QED
      BY <2>7, <3>1, <3>2, <3>3 DEF ReadReceipt, policy
  <2> QED
    BY <2>1, <2>2, <2>3, <2>4, <2>5, <2>6, <2>7 DEF Process
<1> QED
  BY <1>1, <1>4 DEF Conclude, IsNext, Names, outvars

(* The sensors the configuration, or discovery, makes this run account for. *)
Wanted == IF DOMAIN cfg.sensors # {} THEN DOMAIN cfg.sensors ELSE discovered

SummaryIds == {summaries[i].id : i \in DOMAIN summaries}

(* While sensors are processed, each wanted one is still to do or has one  *)
(* summary, and not both.                                                  *)
Accounted ==
  (pc \notin {"discover", "failed"} /\ built = None) =>
    /\ todo \subseteq Wanted /\ Wanted \subseteq Ids
    /\ SummaryIds = Wanted \ todo
    /\ \A i, j \in DOMAIN summaries : summaries[i].id = summaries[j].id => i = j

NothingYet == pc = "discover" => summaries = << >>

ListInv == NothingYet /\ Accounted /\ EverySensorListed

(* Adding the summary of a sensor that was still to do keeps the account.  *)
LEMMA ProcessAccounts ==
  ASSUME TypeInv, FilesInv, ListInv, NEW id \in Ids, Process(id)
  PROVE  ListInv'
<1>1. /\ pc \notin {"discover", "failed"} /\ id \in todo
      /\ UNCHANGED <<input, found, cfg, built>>
  BY ProcessEffect
<1>2. built = None /\ pc' # "discover"
  BY DEF Process, RejectId, CheckComment, CanonicalizeComment, SkipGated, CheckExists,
         Canonicalize, CheckSize, ReadReceipt, Conclude, Continue, Stop, Fail, FilesInv, Before
<1>3. Wanted' = Wanted
  BY <1>1 DEF Wanted, discovered
<1>4. CASE UNCHANGED <<summaries, todo>>
  BY <1>1, <1>2, <1>3, <1>4
     DEF ListInv, NothingYet, Accounted, SummaryIds, EverySensorListed
<1>5. ASSUME todo' = todo \ {id}, NEW s, s.id = id, summaries' = Append(summaries, s)
      PROVE  ListInv'
  <2> DEFINE n == Len(summaries)
  <2>1. n \in Nat /\ DOMAIN summaries = 1 .. n
    BY DEF TypeInv, TypeOK
  <2>2. /\ DOMAIN summaries' = 1 .. (n + 1)
        /\ \A i \in 1 .. n : summaries'[i] = summaries[i]
        /\ summaries'[n + 1] = s
    BY <1>5 DEF TypeInv, TypeOK
  <2> HIDE DEF n
  <2>3. /\ todo \subseteq Wanted /\ Wanted \subseteq Ids /\ SummaryIds = Wanted \ todo
        /\ \A i, j \in DOMAIN summaries : summaries[i].id = summaries[j].id => i = j
    BY <1>1, <1>2 DEF ListInv, Accounted
  <2>4. SummaryIds' = SummaryIds \cup {id}
    <3>1. ASSUME NEW x \in SummaryIds'
          PROVE  x \in SummaryIds \cup {id}
      <4>1. PICK i \in 1 .. (n + 1) : x = summaries'[i].id
        BY <2>2 DEF SummaryIds
      <4>2. CASE i = n + 1
        BY <1>5, <2>2, <4>1, <4>2
      <4>3. CASE i # n + 1
        <5>1. i \in 1 .. n
          BY <2>1, <4>3
        <5> QED
          BY <2>1, <2>2, <4>1, <5>1 DEF SummaryIds
      <4> QED
        BY <4>2, <4>3
    <3>2. \A i \in 1 .. n : summaries[i].id \in SummaryIds'
      <4>1. \A i \in 1 .. n : i \in DOMAIN summaries' /\ summaries[i].id = summaries'[i].id
        BY <2>1, <2>2
      <4> QED
        BY <4>1 DEF SummaryIds
    <3>3. id \in SummaryIds'
      <4>1. n + 1 \in DOMAIN summaries' /\ summaries'[n + 1].id = id
        BY <1>5, <2>1, <2>2
      <4> QED
        BY <4>1 DEF SummaryIds
    <3>4. SummaryIds \subseteq SummaryIds'
      BY <2>1, <3>2 DEF SummaryIds
    <3> QED
      BY <3>1, <3>3, <3>4
  <2>5. SummaryIds' = Wanted' \ todo'
    BY <1>1, <1>3, <1>5, <2>3, <2>4
  <2>6. ASSUME NEW i \in DOMAIN summaries', NEW j \in DOMAIN summaries',
               summaries'[i].id = summaries'[j].id
        PROVE  i = j
    <3>1. \A k \in 1 .. n : summaries'[k].id # id
      <4>1. \A k \in 1 .. n : summaries[k].id \in SummaryIds
        BY <2>1 DEF SummaryIds
      <4> QED
        BY <1>1, <2>2, <2>3, <4>1
    <3>2. CASE i \in 1 .. n /\ j \in 1 .. n
      BY <2>1, <2>2, <2>3, <2>6, <3>2
    <3>3. CASE i = n + 1 \/ j = n + 1
      <4>1. summaries'[n + 1].id = id
        BY <1>5, <2>2
      <4>2. \A k \in DOMAIN summaries' : k # n + 1 => k \in 1 .. n
        BY <2>1, <2>2
      <4> QED
        BY <2>6, <3>1, <3>3, <4>1, <4>2
    <3> QED
      BY <2>1, <2>2, <3>2, <3>3
  <2>7. todo' \subseteq Wanted' /\ Wanted' \subseteq Ids
    BY <1>3, <1>5, <2>3
  <2> QED
    BY <1>1, <1>2, <2>5, <2>6, <2>7 DEF ListInv, NothingYet, Accounted, EverySensorListed
<1> QED
  BY <1>4, <1>5, ProcessEffect

(* The list the report is built with is the account, sorted: as many       *)
(* summaries as wanted sensors, the same ids, in the order of their keys.  *)
LEMMA BuildReportLists ==
  ASSUME TypeInv, FilesInv, ListInv, BuildReport
  PROVE  ListInv'
<1> DEFINE n == Len(summaries)
<1> DEFINE Key(s) == SummaryKey(cfg, s)
<1>1. /\ pc = "sensor" /\ todo = {} /\ pc' = "write_report"
      /\ UNCHANGED <<cfg, found>>
      /\ summaries' = sort_sensor_summaries(summaries, cfg) /\ built'.sensors = summaries'
  BY DEF BuildReport
<1>2. built = None /\ built' # None
  BY <1>1, BuildReportTypes, IngestAssumption DEF FilesInv, Before
<1>3. /\ SummaryIds = Wanted
      /\ \A i, j \in DOMAIN summaries : summaries[i].id = summaries[j].id => i = j
  BY <1>1, <1>2 DEF ListInv, Accounted
<1>4. n \in Nat /\ DOMAIN summaries = 1 .. n
  BY DEF TypeInv, TypeOK
<1>5. cfg.section_order \in Seq(Nat) /\ summaries \in Seq(SensorSummary)
  <2>1. IsConfig(cfg)
    BY <1>1, ConfigTypes DEF TypeInv, Loaded
  <2> QED
    BY <2>1 DEF IsConfig, TypeInv, TypeOK
<1>6. /\ summaries' \in Seq(SensorSummary) /\ Len(summaries') = n
      /\ \E p \in Bijection(DOMAIN summaries, DOMAIN summaries) :
           /\ summaries' = [k \in DOMAIN summaries |-> summaries[p[k]]]
           /\ \A k, l \in DOMAIN summaries : k < l =>
                ~KeyLess(Key(summaries[p[l]]), Key(summaries[p[k]]))
  BY <1>1, <1>5, SortSummariesSorts
<1>7. PICK p \in Bijection(1 .. n, 1 .. n) :
           /\ summaries' = [k \in 1 .. n |-> summaries[p[k]]]
           /\ \A k, l \in 1 .. n : k < l =>
                ~KeyLess(Key(summaries[p[l]]), Key(summaries[p[k]]))
  BY <1>4, <1>6
<1> HIDE DEF n
<1>8. /\ p \in [1 .. n -> 1 .. n]
      /\ \A a, b \in 1 .. n : p[a] = p[b] => a = b
      /\ \A t \in 1 .. n : \E k \in 1 .. n : p[k] = t
  BY <1>7, Fun_BijectionProperties
<1>9. DOMAIN summaries' = 1 .. n /\ \A k \in 1 .. n : summaries'[k] = summaries[p[k]]
  BY <1>7
<1>10. n = Cardinality(Wanted)
  <2> DEFINE ids == [i \in 1 .. n |-> summaries[i].id]
  <2>1. ids \in [1 .. n -> Wanted]
    BY <1>3, <1>4 DEF SummaryIds
  <2>2. \A a, b \in 1 .. n : ids[a] = ids[b] => a = b
    BY <1>3, <1>4
  <2>3. \A t \in Wanted : \E i \in 1 .. n : ids[i] = t
    BY <1>3, <1>4 DEF SummaryIds
  <2> HIDE DEF ids
  <2>4. ids \in Bijection(1 .. n, Wanted)
    BY <2>1, <2>2, <2>3, Fun_IsBij
  <2>5. ExistsBijection(1 .. n, Wanted)
    BY <2>4 DEF ExistsBijection
  <2> QED
    BY <1>4, <2>5, FS_CountingElements
<1>11. {summaries'[k].id : k \in 1 .. n} = Wanted
  <2>1. \A k \in 1 .. n : summaries'[k].id \in SummaryIds
    BY <1>4, <1>8, <1>9 DEF SummaryIds
  <2>2. ASSUME NEW x \in SummaryIds
        PROVE  \E k \in 1 .. n : x = summaries'[k].id
    <3>1. PICK i \in 1 .. n : x = summaries[i].id
      BY <1>4 DEF SummaryIds
    <3>2. PICK k \in 1 .. n : p[k] = i
      BY <1>8
    <3> QED
      BY <1>9, <3>1, <3>2
  <2> QED
    BY <1>3, <2>1, <2>2
<1>12. ASSUME NEW k \in 1 .. n, NEW l \in 1 .. n, k < l
       PROVE  KeyLess(Key(summaries'[k]), Key(summaries'[l]))
  <2>1. summaries'[k] = summaries[p[k]] /\ summaries'[l] = summaries[p[l]]
    BY <1>9
  <2>2. summaries'[k].id # summaries'[l].id
    <3>1. p[k] # p[l] /\ p[k] \in 1 .. n /\ p[l] \in 1 .. n
      BY <1>4, <1>8, <1>12
    <3> QED
      BY <1>3, <1>4, <2>1, <3>1
  <2>3. ~KeyLess(Key(summaries'[l]), Key(summaries'[k]))
    BY <1>7, <1>12, <2>1
  <2>4. ASSUME NEW i \in 1 .. n
        PROVE  Key(summaries'[i]) \in Keys(2)
    <3>1. summaries'[i] \in SensorSummary
      BY <1>6, <1>9
    <3>2. summaries'[i].id \in Nat
      BY <3>1 DEF SensorSummary
    <3>3. section_rank(cfg, summaries'[i].id) \in Nat
      BY <1>5, SectionRankType
    <3> QED
      BY <3>2, <3>3 DEF Keys, SummaryKey
  <2>5. Key(summaries'[k]) # Key(summaries'[l])
    BY <2>2 DEF SummaryKey
  <2> HIDE DEF Key
  <2> QED
    BY <2>3, <2>4, <2>5, KeyTotal
<1>13. EverySensorListed'
  <2>1. Wanted' = Wanted
    BY <1>1 DEF Wanted, discovered
  <2>2. Len(built'.sensors) = Cardinality(Wanted')
    BY <1>1, <1>6, <1>10, <2>1 DEF n
  <2>3. {built'.sensors[i].id : i \in DOMAIN built'.sensors} = Wanted'
    BY <1>1, <1>9, <1>11, <2>1
  <2>4. \A i, j \in DOMAIN built'.sensors : i < j =>
          KeyLess(<<section_rank(cfg', built'.sensors[i].id), built'.sensors[i].id>>,
                  <<section_rank(cfg', built'.sensors[j].id), built'.sensors[j].id>>)
    BY <1>1, <1>9, <1>12 DEF SummaryKey
  <2> QED
    BY <2>2, <2>3, <2>4 DEF EverySensorListed, Wanted
<1> QED
  BY <1>1, <1>2, <1>13 DEF ListInv, NothingYet, Accounted

(* Every step keeps the account.                                           *)
LEMMA StepList ==
  TypeInv /\ FilesInv /\ ListInv /\ [Next]_vars => ListInv'
<1> SUFFICES ASSUME TypeInv, FilesInv, ListInv, [Next]_vars PROVE ListInv'
  OBVIOUS
<1>0. ASSUME UNCHANGED <<cfg, found, built>>
      PROVE  Wanted' = Wanted /\ EverySensorListed'
  <2>1. discovered' = discovered
    BY <1>0 DEF discovered
  <2>2. EverySensorListed' <=> EverySensorListed
    BY <1>0, <2>1 DEF EverySensorListed
  <2> QED
    BY <1>0, <2>1, <2>2 DEF ListInv, Wanted
<1>1. ASSUME NEW name \in Ids, ScanEntry(name)
      PROVE  ListInv'
  <2>1. built = None /\ built' = None /\ pc = "discover" /\ pc' = pc /\ summaries' = summaries
    BY <1>1 DEF ScanEntry, FilesInv, Before, outvars
  <2> QED
    BY <2>1 DEF ListInv, NothingYet, Accounted, EverySensorListed
<1>2. CASE LoadConfig
  <2>1. /\ built' = None /\ summaries = << >> /\ summaries' = << >>
        /\ found' = found /\ pc' # "discover"
    BY <1>2 DEF LoadConfig, Fail, ListInv, NothingYet, FilesInv, Before, outvars
  <2>2. pc' # "failed" => todo' = Wanted'
    <3>1. discovered' = discovered
      BY <1>2 DEF LoadConfig, discovered
    <3> QED
      BY <1>2, <3>1 DEF LoadConfig, Fail, Wanted
  <2>3. todo' \subseteq Ids
    BY <1>2, LoadConfigTypes DEF TypeInv, TypeOK
  <2>4. SummaryIds' = {}
    BY <2>1 DEF SummaryIds
  <2>5. \A i, j \in DOMAIN summaries' : summaries'[i].id = summaries'[j].id => i = j
    BY <2>1
  <2> QED
    BY <2>1, <2>2, <2>3, <2>4, <2>5 DEF ListInv, NothingYet, Accounted, EverySensorListed
<1>3. ASSUME NEW id \in Ids, Process(id)
      PROVE  ListInv'
  BY <1>3, ProcessAccounts
<1>4. CASE BuildReport
  BY <1>4, BuildReportLists
<1>5. CASE WriteReport \/ WriteComment
  <2>1. UNCHANGED <<cfg, found, built>> /\ pc' \in {"write_comment", "done"}
    BY <1>5 DEF WriteReport, WriteComment
  <2>2. built # None
    BY <1>5, IngestAssumption DEF WriteReport, WriteComment, FilesInv, Between
  <2> QED
    BY <1>0, <2>1, <2>2 DEF ListInv, NothingYet, Accounted
<1>6. CASE IoError
  <2>1. UNCHANGED <<cfg, found, built>> /\ pc' = "failed"
    BY <1>6 DEF IoError
  <2> QED
    BY <1>0, <2>1 DEF ListInv, NothingYet, Accounted
<1>7. ASSUME \/ \E s \in Sensors : SensorWrites(s) \/ SensorComments(s)
             \/ UNCHANGED vars
      PROVE  ListInv'
  <2>1. UNCHANGED <<cfg, found, built, pc, summaries, todo>>
    BY <1>7 DEF SensorWrites, SensorComments, outvars, vars
  <2>2. SummaryIds' = SummaryIds
    BY <2>1 DEF SummaryIds
  <2> QED
    BY <1>0, <2>1, <2>2 DEF ListInv, NothingYet, Accounted
<1> QED
  BY <1>1, <1>2, <1>3, <1>4, <1>5, <1>6, <1>7 DEF Next, Program, Environment

(* No sensor is lost and none is listed twice, whichever way each one's    *)
(* processing ended and whatever changed under it; the list is strictly    *)
(* ordered by section and id.                                              *)
THEOREM SensorsListed == Spec => []EverySensorListed
<1>1. Init => ListInv
  BY DEF Init, ListInv, NothingYet, Accounted, EverySensorListed
<1>2. ListInv => EverySensorListed
  BY DEF ListInv
<1> QED
  BY <1>1, <1>2, InitTypes, StepTypes, StepFiles, StepList, FilesAlways, PTL DEF Spec

(***************************************************************************)
(* Without a configuration.                                                *)
(***************************************************************************)

(* Every sensor of a run without cockpit.toml has the default policy, so   *)
(* no summary blocks and the verdict is pass.                              *)
Advisory ==
  input.config = None =>
    /\ pc \notin {"discover", "failed"} => cfg = DefaultConfig
    /\ \A i \in DOMAIN summaries : ~summaries[i].blocking
    /\ built # None => built.verdict.status # "fail"

(* Every step keeps that so.                                               *)
LEMMA StepAdvisory ==
  TypeInv /\ FilesInv /\ ListInv /\ Advisory /\ [Next]_vars => Advisory'
<1> SUFFICES ASSUME TypeInv, FilesInv, ListInv, Advisory, [Next]_vars, input'.config = None
             PROVE  Advisory'
  BY DEF Advisory
<1>0. input' = input
  BY DEF Next, Program, Environment, vars, ScanEntry, LoadConfig, Process, RejectId, CheckComment,
         CanonicalizeComment, SkipGated, CheckExists, Canonicalize, CheckSize, ReadReceipt,
         Conclude, Continue, Stop, BuildReport, WriteReport, WriteComment, IoError, SensorWrites,
         SensorComments
<1>1. ASSUME NEW name \in Ids, ScanEntry(name)
      PROVE  Advisory'
  BY <1>0, <1>1 DEF ScanEntry, Advisory, outvars
<1>2. CASE LoadConfig
  <2>1. cfg' = DefaultConfig /\ UNCHANGED <<summaries, built>>
    BY <1>0, <1>2, IngestAssumption DEF LoadConfig, outvars
  <2> QED
    BY <1>0, <2>1 DEF Advisory
<1>3. ASSUME NEW id \in Ids, Process(id)
      PROVE  Advisory'
  <2>1. /\ pc \notin {"discover", "failed"} /\ UNCHANGED <<input, found, cfg, built>>
        /\ \/ UNCHANGED <<summaries, todo>>
           \/ \E s : s.blocking = policy_of(cfg, id).blocking /\ summaries' = Append(summaries, s)
    BY <1>3, ProcessEffect
  <2>2. CASE UNCHANGED <<summaries, todo>>
    BY <1>0, <2>1, <2>2 DEF Advisory
  <2>3. ASSUME NEW s, s.blocking = policy_of(cfg, id).blocking, summaries' = Append(summaries, s)
        PROVE  Advisory'
    <3>1. cfg = DefaultConfig
      BY <1>0, <2>1 DEF Advisory
    <3>2. ~s.blocking
      BY <2>3, <3>1 DEF policy_of, DefaultConfig, DefaultSensorPolicy
    <3>3. \A i \in DOMAIN summaries' : i \in DOMAIN summaries \/ summaries'[i] = s
      BY <2>3 DEF TypeInv, TypeOK
    <3>4. \A i \in DOMAIN summaries : summaries'[i] = summaries[i]
      BY <2>3 DEF TypeInv, TypeOK
    <3> QED
      BY <1>0, <2>1, <3>1, <3>2, <3>3, <3>4 DEF Advisory
  <2> QED
    BY <2>1, <2>2, <2>3
<1>4. CASE BuildReport
  <2>1. /\ pc = "sensor" /\ cfg = DefaultConfig /\ cfg' = cfg
        /\ summaries' = sort_sensor_summaries(summaries, cfg)
        /\ built'.verdict = overall_verdict(summaries', cfg)
    BY <1>0, <1>4 DEF BuildReport, Advisory
  <2>2. cfg.section_order \in Seq(Nat) /\ summaries \in Seq(SensorSummary)
    BY <2>1, DomainAssumption DEF DefaultConfig, TypeInv, TypeOK
  <2>3. PICK p \in Bijection(DOMAIN summaries, DOMAIN summaries) :
          summaries' = [k \in DOMAIN summaries |-> summaries[p[k]]]
    BY <2>1, <2>2, SortSummariesSorts
  <2>4. p \in [DOMAIN summaries -> DOMAIN summaries]
    BY <2>3, Fun_BijectionProperties
  <2>5. \A i \in DOMAIN summaries' : ~summaries'[i].blocking
    BY <1>0, <2>3, <2>4 DEF Advisory
  <2>6. overall_verdict(summaries', cfg).status = "pass"
    BY <2>5, AdvisoryVerdict
  <2> QED
    BY <1>0, <2>1, <2>5, <2>6 DEF Advisory
<1>5. CASE WriteReport \/ WriteComment
  BY <1>0, <1>5 DEF WriteReport, WriteComment, Advisory
<1>6. CASE IoError
  BY <1>0, <1>6 DEF IoError, Advisory
<1>7. ASSUME \/ \E s \in Sensors : SensorWrites(s) \/ SensorComments(s)
             \/ UNCHANGED vars
      PROVE  Advisory'
  BY <1>0, <1>7 DEF SensorWrites, SensorComments, vars, outvars, Advisory
<1> QED
  BY <1>1, <1>2, <1>3, <1>4, <1>5, <1>6, <1>7 DEF Next, Program, Environment

(* Without a cockpit.toml no evidence at all makes the run exit with the   *)
(* code that blocks: neither a failing receipt nor one that vanishes       *)
(* between two looks at it.                                                *)
THEOREM NothingBlocksUnasked == Spec => []NoConfigNeverBlocks
<1>1. Init => ListInv /\ Advisory
  BY DEF Init, ListInv, NothingYet, Accounted, EverySensorListed, Advisory
<1>2. TypeInv /\ FilesInv /\ Advisory => NoConfigNeverBlocks
  <2> SUFFICES ASSUME TypeInv, FilesInv, Advisory, input.config = None
               PROVE  exit # 2
    BY DEF NoConfigNeverBlocks
  <2>1. CASE pc = "done"
    BY <2>1, IngestAssumption DEF FilesInv, After, Advisory
  <2>2. CASE pc # "done"
    BY <2>2, TypesAssumption DEF FilesInv, Before, Between, After
  <2> QED
    BY <2>1, <2>2
<1> QED
  BY <1>1, <1>2, InitTypes, StepTypes, StepFiles, StepList, StepAdvisory, FilesAlways, PTL DEF Spec

(***************************************************************************)
(* The highlights.                                                         *)
(***************************************************************************)

(* The report's highlights are still the selection from what was found,    *)
(* although the summaries, from which it takes who blocks, were sorted.    *)
Chosen ==
  built # None =>
    /\ cfg.max_highlights \in Nat
    /\ built.highlights = select_highlights(candidates, cfg.max_highlights, BlockingIds)

(* Sorting the summaries does not change who blocks.                       *)
LEMMA SortKeepsBlocking ==
  ASSUME TypeInv, BuildReport
  PROVE  BlockingIds' = BlockingIds
<1>1. /\ pc = "sensor" /\ summaries' = sort_sensor_summaries(summaries, cfg)
  BY DEF BuildReport
<1>2. cfg.section_order \in Seq(Nat) /\ summaries \in Seq(SensorSummary)
  <2>1. IsConfig(cfg)
    BY <1>1, ConfigTypes DEF TypeInv, Loaded
  <2> QED
    BY <2>1 DEF IsConfig, TypeInv, TypeOK
<1>3. PICK p \in Bijection(DOMAIN summaries, DOMAIN summaries) :
        summaries' = [k \in DOMAIN summaries |-> summaries[p[k]]]
  BY <1>1, <1>2, SortSummariesSorts
<1>4. /\ p \in [DOMAIN summaries -> DOMAIN summaries]
      /\ \A t \in DOMAIN summaries : \E k \in DOMAIN summaries : p[k] = t
  BY <1>3, Fun_BijectionProperties
<1>5. BlockingIds' \subseteq BlockingIds
  <2> SUFFICES ASSUME NEW k \in DOMAIN summaries', summaries'[k].blocking
               PROVE  summaries'[k].id \in BlockingIds
    BY DEF BlockingIds
  <2>1. p[k] \in DOMAIN summaries /\ summaries'[k] = summaries[p[k]]
    BY <1>3, <1>4
  <2> QED
    BY <2>1 DEF BlockingIds
<1>6. BlockingIds \subseteq BlockingIds'
  <2> SUFFICES ASSUME NEW i \in DOMAIN summaries, summaries[i].blocking
               PROVE  summaries[i].id \in BlockingIds'
    BY DEF BlockingIds
  <2>1. PICK k \in DOMAIN summaries : p[k] = i
    BY <1>4
  <2>2. k \in DOMAIN summaries' /\ summaries'[k] = summaries[i]
    BY <1>3, <2>1
  <2> QED
    BY <2>2 DEF BlockingIds
<1> QED
  BY <1>5, <1>6

(* Every step keeps the selection.                                         *)
LEMMA StepChosen ==
  TypeInv /\ FilesInv /\ Chosen /\ [Next]_vars => Chosen'
<1> SUFFICES ASSUME TypeInv, FilesInv, Chosen, [Next]_vars PROVE Chosen'
  OBVIOUS
<1>1. ASSUME UNCHANGED <<cfg, candidates, summaries, built>>
      PROVE  Chosen'
  BY <1>1 DEF Chosen, BlockingIds
<1>2. ASSUME pc \in {"discover", "sensor", "comment", "gate", "canonicalize", "metadata", "read"},
             built' = built
      PROVE  Chosen'
  BY <1>2 DEF FilesInv, Before, Chosen
<1>3. ASSUME NEW name \in Ids, ScanEntry(name)
      PROVE  Chosen'
  BY <1>1, <1>3 DEF ScanEntry, outvars
<1>4. CASE LoadConfig
  BY <1>2, <1>4 DEF LoadConfig, Fail, outvars
<1>5. ASSUME NEW id \in Ids, Process(id)
      PROVE  Chosen'
  <2>1. built' = built
    BY <1>5, ProcessEffect
  <2>2. pc \in {"sensor", "comment", "gate", "canonicalize", "metadata", "read"}
    BY <1>5 DEF Process, RejectId, CheckComment, CanonicalizeComment, SkipGated, CheckExists,
                Canonicalize, CheckSize, ReadReceipt
  <2> QED
    BY <1>2, <2>1, <2>2
<1>6. CASE BuildReport
  <2>1. /\ pc = "sensor" /\ UNCHANGED <<cfg, candidates>>
        /\ built'.highlights = select_highlights(candidates, cfg.max_highlights, BlockingIds)
    BY <1>6 DEF BuildReport
  <2>2. cfg.max_highlights \in Nat
    <3>1. IsConfig(cfg)
      BY <2>1, ConfigTypes DEF TypeInv, Loaded
    <3> QED
      BY <3>1 DEF IsConfig
  <2>3. BlockingIds' = BlockingIds
    BY <1>6, SortKeepsBlocking
  <2> QED
    BY <2>1, <2>2, <2>3 DEF Chosen
<1>7. CASE WriteReport \/ WriteComment
  BY <1>1, <1>7 DEF WriteReport, WriteComment
<1>8. CASE IoError
  BY <1>1, <1>8 DEF IoError
<1>9. ASSUME \/ \E s \in Sensors : SensorWrites(s) \/ SensorComments(s)
             \/ UNCHANGED vars
      PROVE  Chosen'
  BY <1>1, <1>9 DEF SensorWrites, SensorComments, vars, outvars
<1> QED
  BY <1>3, <1>4, <1>5, <1>6, <1>7, <1>8, <1>9 DEF Next, Program, Environment

(* What is published as highlights is within the cap, without duplicates,  *)
(* in order, and no finding that the cap leaves out outranks one it keeps. *)
THEOREM TopHighlights == Spec => []HighlightsAreTheTop
<1>1. Init => Chosen
  BY DEF Init, Chosen
<1>2. TypeInv /\ Chosen => HighlightsAreTheTop
  <2> SUFFICES ASSUME TypeInv, Chosen, built # None PROVE HighlightsAreTheTop
    BY DEF HighlightsAreTheTop
  <2> DEFINE max == cfg.max_highlights
             shown == built.highlights
             Key(h) == HighlightKey(h, BlockingIds)
             Fps == {shown[k].finding.fingerprint : k \in DOMAIN shown}
  <2>1. /\ max \in Nat /\ candidates \in Seq(Highlight)
        /\ shown = select_highlights(candidates, max, BlockingIds)
    BY DEF Chosen, TypeInv, TypeOK
  <2>2. shown \in Seq(Highlight) /\ Len(shown) <= max
    BY <2>1, SelectType
  <2>3. DOMAIN shown = 1 .. Len(shown) /\ Len(shown) \in Nat
    BY <2>2
  <2>4. Cardinality(Fps) = Len(shown)
    <3> DEFINE n == Len(shown)
               fps == [k \in 1 .. n |-> shown[k].finding.fingerprint]
    <3>1. \A k, l \in 1 .. n : fps[k] = fps[l] => k = l
      BY <2>1, <2>3, ShownDiffer
    <3>2. fps \in [1 .. n -> Fps] /\ \A t \in Fps : \E k \in 1 .. n : fps[k] = t
      BY <2>3
    <3>3. n \in Nat
      BY <2>3
    <3> HIDE DEF fps, n, Fps
    <3>4. fps \in Bijection(1 .. n, Fps)
      BY <3>1, <3>2, Fun_IsBij
    <3>5. ExistsBijection(1 .. n, Fps)
      BY <3>4 DEF ExistsBijection
    <3> QED
      BY <3>3, <3>5, FS_CountingElements DEF n
  <2>5. \A k \in 1 .. (Len(shown) - 1) : ~KeyLess(Key(shown[k + 1]), Key(shown[k]))
    <3>1. \A k \in 1 .. (Len(shown) - 1) : k \in DOMAIN shown /\ k + 1 \in DOMAIN shown /\ k < k + 1
      BY <2>3
    <3> QED
      BY <2>1, <3>1, ShownAscends
  <2>6. ASSUME NEW i \in DOMAIN candidates, FirstOfItsKind(i), fingerprint_of(candidates[i]) \notin Fps
        PROVE  /\ Len(shown) = max
               /\ \A k \in DOMAIN shown : ~KeyLess(Key(candidates[i]), Key(shown[k]))
    <3>1. i \in Deduped(candidates)
      <4>1. \A j \in 1 .. (i - 1) : j \in DOMAIN candidates /\ ~(i <= j)
        BY <2>1
      <4> QED
        BY <2>6, <4>1 DEF FirstOfItsKind, Deduped
    <3>2. candidates[i] \in Highlight
      BY <2>1
    <3>3. ~ \E k \in DOMAIN shown : shown[k] = Marked(candidates[i])
      BY <2>6, <3>2, MarkedFacts
    <3> HIDE DEF shown
    <3> QED
      BY <2>1, <3>1, <3>3, KeptIsShown
  <2> QED
    BY <2>2, <2>4, <2>5, <2>6 DEF HighlightsAreTheTop
<1> QED
  BY <1>1, <1>2, InitTypes, StepTypes, StepFiles, StepChosen, FilesAlways, PTL DEF Spec
=============================================================================
