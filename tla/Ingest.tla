------------------------------- MODULE Ingest -------------------------------
(***************************************************************************)
(* IngestUseCase::execute (crates/cockpitctl-ingest) running over the      *)
(* filesystem adapters of crates/cockpitctl-io.                            *)
(*                                                                         *)
(* One process scans artifacts/, loads cockpit.toml, takes the expected    *)
(* sensors one by one in name order, and publishes report.json and then    *)
(* comment.md.  It holds no lock: the sensors' jobs may still create,      *)
(* replace or delete their files between any two of its filesystem calls   *)
(* (SensorWrites, SensorComments), and a call may fail (IoError).          *)
(***************************************************************************)
EXTENDS Domain

CONSTANTS
  Sensors,        \* valid sensor ids
  UnsafeIds,      \* names is_valid_sensor_id rejects
  Files,          \* the contents a report.json may have
  Configs,        \* the contents cockpit.toml may parse to
  Inputs,         \* what one invocation starts from, besides the artifacts
  Comments,       \* what may be at a sensor's comment.md
  MaxReceipts,    \* FsLayout::max_receipts
  MaxReceiptBytes,\* FsLayout::max_receipt_bytes
  EnvBudget,      \* BOUND: how often the sensors' jobs may change a file
  Elsewhere,      \* what a receipt's path may lead to besides a file: None, Escape
  Escape,         \* a path that resolves outside the artifacts root
  Broken,         \* a cockpit.toml that cannot be read or parsed
  Torn            \* a file whose write failed half-way

Ids == Sensors \cup UnsafeIds

SensorReport ==
  [status : VerdictStatus, counts : VerdictCounts, reasons : SUBSET SensorReasons, findings : Seq(Finding)]

(* report = None: serde cannot parse it.  The schema and serde are separate *)
(* judges and may disagree.                                                *)
ReceiptFile == [size : Nat, schema_ok : BOOLEAN, report : SensorReport \cup {None}]

IsConfig(c) ==
  /\ DOMAIN c.sensors \subseteq Ids
  /\ c.sensors \in [DOMAIN c.sensors -> SensorPolicy]
  /\ c.warn_is_fail \in BOOLEAN
  /\ c.max_highlights \in Nat
  /\ c.max_per_sensor_findings \in Nat
  /\ c.section_order \in Seq(Nat)
  /\ c.schema_validation \in SchemaValidation

Input ==
  [config      : Configs \cup {None, Broken},
   labels      : SUBSET Nat,
   override    : SchemaValidation \cup {None},
   unsafe_dirs : SUBSET UnsafeIds,
   plans       : SUBSET Sensors]

Report ==
  [verdict    : [status : VerdictStatus, counts : VerdictCounts, reasons : SUBSET Reason],
   sensors    : Seq(SensorSummary),
   highlights : Seq(Highlight),
   buildfix   : SUBSET Sensors]

ASSUME IngestAssumption ==
  /\ Sensors \subseteq Nat /\ UnsafeIds \subseteq Nat /\ Sensors \cap UnsafeIds = {}
  /\ IsFiniteSet(Ids) /\ CockpitId \notin Ids
  /\ Comments \subseteq {"absent", "inside", "outside"}
  /\ Files \subseteq ReceiptFile /\ Inputs \subseteq Input
  /\ \A c \in Configs : IsConfig(c)
  /\ MaxReceipts \in Nat /\ MaxReceiptBytes \in Nat /\ EnvBudget \in Nat
  /\ Elsewhere \subseteq {None, Escape}
  /\ None \notin Files /\ Escape \notin Files /\ None # Escape
  /\ None \notin Configs /\ Broken \notin Configs /\ None # Broken /\ None # Torn
  /\ None \notin Report /\ Torn \notin Report

(* What goes by a name under `cockpit.` is cockpitctl's own, a code as well *)
(* as a fingerprint.  Nothing refuses a receipt that borrows one: its      *)
(* finding would be taken for one of cockpitctl's.                         *)
ASSUME OwnNamesAssumption ==
  \A file \in Files : file.report # None =>
    \A i \in DOMAIN file.report.findings :
      LET f == file.report.findings[i]
      IN  /\ f.code \notin {PATH_TRAVERSAL, RECEIPT_INCONSISTENT, SENSORS_TRUNCATED}
          /\ f.fingerprint # None => f.fingerprint[1] = 0

(* unwrap_or_default(): the policy of a run without cockpit.toml.  The     *)
(* default limits (7 highlights, 20 findings) exceed every instance; a     *)
(* section order matters only for sections, which no default sensor has.   *)
DefaultConfig ==
  [sensors |-> [id \in {} |-> DefaultSensorPolicy], warn_is_fail |-> FALSE,
   max_highlights |-> 7, max_per_sensor_findings |-> 20, section_order |-> <<OtherSection>>,
   schema_validation |-> "lax"]

VARIABLES
  store,        \* what artifacts/<sensor>/report.json is, per valid sensor
  comments,     \* what artifacts/<sensor>/comment.md is
  budget,       \* changes the sensors' jobs may still make
  input,        \* config file, labels, override; unsafe directories and plans found
  pc,           \* the program's next filesystem call
  scan,         \* directory entries still to be looked at
  found,        \* valid sensors whose report.json existed when scanned
  invalid,      \* unsafe directory names met
  cfg,          \* the loaded configuration
  todo,         \* expected sensors still to be processed
  comment_path, \* whether the current sensor's comment.md was there
  summaries, candidates,
  built,        \* the report in memory
  report_file, comment_file,
  exit,         \* the exit code, None while running
  overtaken,    \* HISTORY: checks the sensor in hand has passed and its receipt changed since
  seen          \* HISTORY: what this run saw of each sensor; the code has neither variable

envvars == <<store, comments, budget, overtaken>>
outvars == <<built, report_file, comment_file, exit>>
vars == <<store, comments, budget, overtaken, input, pc, scan, found, invalid, cfg, todo, comment_path,
          summaries, candidates, built, report_file, comment_file, exit, seen>>

(* What a run can see of a sensor: a usable receipt and its status, or why *)
(* there is none.                                                          *)
Evidence == VerdictStatus \cup {"gated", "missing", "rejected"}

ASSUME PromiseAssumption ==
  /\ None \notin Evidence /\ None # DefaultConfig
  /\ \A D \in SUBSET Ids : None \notin [D -> SensorPolicy]

Init ==
  /\ store \in [Sensors -> Files \cup Elsewhere]
  /\ comments \in [Sensors -> Comments]
  /\ budget = EnvBudget /\ overtaken = {}
  /\ input \in Inputs
  /\ pc = "discover"
  /\ scan = Sensors \cup input.unsafe_dirs
  /\ found = {} /\ invalid = {}
  /\ cfg = None /\ todo = {} /\ comment_path = FALSE
  /\ summaries = << >> /\ candidates = << >>
  /\ built = None /\ report_file = None /\ comment_file = None
  /\ exit = None
  /\ seen = [id \in Ids |-> None]

Fail == pc' = "failed" /\ exit' = 1 /\ UNCHANGED <<built, report_file, comment_file>>

(***************************************************************************)
(* Discovery (FsReceiptSource::discovered_sensors): one entry at a time.   *)
(***************************************************************************)
\* Mutant: a directory's name is taken without is_valid_sensor_id.
ScanUnchecked(name) ==
  /\ pc = "discover" /\ name \in scan
  /\ scan' = scan \ {name}
  /\ found' = IF name \in UnsafeIds \/ store[name] # None THEN found \cup {name} ELSE found
  /\ UNCHANGED <<envvars, input, invalid, pc, cfg, todo, comment_path, summaries, candidates,
                 outvars, seen>>

ScanEntry(name) ==
  /\ pc = "discover" /\ name \in scan
  /\ scan' = scan \ {name}
  /\ IF name \in UnsafeIds
     THEN invalid' = invalid \cup {name} /\ UNCHANGED found
     ELSE /\ found' = IF store[name] # None THEN found \cup {name} ELSE found
          /\ UNCHANGED invalid
  /\ UNCHANGED <<envvars, input, pc, cfg, todo, comment_path, summaries, candidates, outvars, seen>>

(* The first max_receipts names in lexical order. *)
discovered == {s \in found : Cardinality({t \in found : t < s}) < MaxReceipts}

TraversalHighlights(names) ==
  LET sorted == Ascending(names)
  IN  [k \in DOMAIN sorted |-> synthesize_path_traversal_highlight(sorted[k], 1)[1]]

LoadConfig ==
  /\ pc = "discover" /\ scan = {}
  /\ IF input.config = Broken
     THEN Fail /\ UNCHANGED <<cfg, todo, candidates>>
     ELSE /\ cfg' = IF input.config = None THEN DefaultConfig ELSE input.config
          /\ todo' = IF DOMAIN cfg'.sensors # {} THEN DOMAIN cfg'.sensors ELSE discovered
          /\ candidates' = TraversalHighlights(invalid)
               \o (IF Cardinality(found) > MaxReceipts
                   THEN synthesize_sensors_truncated(MaxReceipts, Cardinality(found))
                   ELSE << >>)
          /\ pc' = "sensor" /\ UNCHANGED outvars
  /\ UNCHANGED <<envvars, input, scan, found, invalid, comment_path, summaries, seen>>

(***************************************************************************)
(* One expected sensor: id check, comment.md, label gate, then the calls   *)
(* of read_report_bytes in their order.                                    *)
(***************************************************************************)
IsNext(id) == id \in todo /\ \A other \in todo : id <= other

(* Push the summary and its highlights and continue with the next sensor. *)
Conclude(id, result, evidence) ==
  /\ summaries' = Append(summaries, result.summary)
  /\ candidates' = candidates \o result.highlights
  /\ seen' = [seen EXCEPT ![id] = evidence]
  /\ todo' = todo \ {id}
  /\ pc' = "sensor"
  /\ comment_path' = FALSE /\ overtaken' = {}
  /\ UNCHANGED <<store, comments, budget, input, scan, found, invalid, cfg, outvars>>

Continue(step) ==
  /\ pc' = step
  /\ UNCHANGED <<envvars, input, scan, found, invalid, cfg, todo, comment_path, summaries,
                 candidates, outvars, seen>>

RejectId(id) ==
  /\ pc = "sensor" /\ IsNext(id) /\ id \in UnsafeIds
  /\ Conclude(id, synthesize_path_traversal_sensor(id, policy_of(cfg, id), FALSE), "rejected")

(* comment_path_if_present, in its two calls.  A comment.md that is gone    *)
(* when it is canonicalized counts as one outside the root.                *)
CheckComment(id) ==
  /\ pc = "sensor" /\ IsNext(id) /\ id \in Sensors
  /\ Continue(IF comments[id] = "absent" THEN "gate" ELSE "comment")

CanonicalizeComment(id) ==
  /\ pc = "comment" /\ IsNext(id)
  /\ comment_path' = (comments[id] = "inside")
  /\ candidates' = IF comments[id] = "inside" THEN candidates
                   ELSE candidates \o synthesize_path_traversal_highlight(id, 2)
  /\ pc' = "gate"
  /\ UNCHANGED <<envvars, input, scan, found, invalid, cfg, todo, summaries, outvars, seen>>

Gated(id) ==
  policy_of(cfg, id).require_label \notin input.labels \cup {None}

(* A gated sensor is treated as missing under missing = skip; its receipt  *)
(* is never opened.                                                        *)
SkipGated(id) ==
  /\ pc = "gate" /\ IsNext(id) /\ Gated(id)
  /\ Conclude(id, synthesize_missing_sensor(id, [policy_of(cfg, id) EXCEPT !.missing = "skip"],
                                            comment_path), "gated")

\* Mutant: the run waits for a receipt that is not there.
AwaitReceipt(id) ==
  /\ pc = "gate" /\ IsNext(id) /\ ~Gated(id)
  /\ store[id] # None /\ Continue("canonicalize")

CheckExists(id) ==
  /\ pc = "gate" /\ IsNext(id) /\ ~Gated(id)
  /\ \/ /\ store[id] = None
        /\ Conclude(id, synthesize_missing_sensor(id, policy_of(cfg, id), comment_path), "missing")
     \/ store[id] # None /\ Continue("canonicalize")

(* canonicalize fails on a file that is gone by now; is_safe_path takes    *)
(* that for an unsafe path.                                                *)
Canonicalize(id) ==
  /\ pc = "canonicalize" /\ IsNext(id)
  /\ \/ /\ store[id] \in {None, Escape}
        /\ Conclude(id, synthesize_path_traversal_sensor(id, policy_of(cfg, id), comment_path),
                    "rejected")
     \/ store[id] \notin {None, Escape} /\ Continue("metadata")

(* A file moved out of the root since then is followed all the same; its   *)
(* size and contents may be anything.                                      *)
Contents(id) == IF store[id] = Escape THEN Files ELSE {store[id]}

Stop == Fail /\ UNCHANGED <<envvars, input, scan, found, invalid, cfg, todo, comment_path,
                            summaries, candidates, seen>>

\* Mutant: one byte more than the limit is let through.
CheckSizeLoosely(id) ==
  /\ pc = "metadata" /\ IsNext(id)
  /\ \/ store[id] = None /\ Stop
     \/ /\ store[id] # None
        /\ \E file \in Contents(id) :
             IF file.size > MaxReceiptBytes + 1
             THEN Conclude(id, synthesize_receipt_oversized_sensor(id, policy_of(cfg, id),
                                 comment_path, file.size), "rejected")
             ELSE Continue("read")

CheckSize(id) ==
  /\ pc = "metadata" /\ IsNext(id)
  /\ \/ store[id] = None /\ Stop
     \/ /\ store[id] # None
        /\ \E file \in Contents(id) :
             IF file.size > MaxReceiptBytes
             THEN Conclude(id, synthesize_receipt_oversized_sensor(id, policy_of(cfg, id),
                                 comment_path, file.size), "rejected")
             ELSE Continue("read")

Strict ==
  (IF input.override = None THEN cfg.schema_validation ELSE input.override) = "strict"

(* The bytes read now: validated in strict mode, parsed, summarized. *)
ReadReceipt(id) ==
  /\ pc = "read" /\ IsNext(id)
  /\ \/ store[id] = None /\ Stop
     \/ /\ store[id] # None
        /\ \E file \in Contents(id) :
             LET policy == policy_of(cfg, id)
             IN  IF Strict /\ ~file.schema_ok
                 THEN Conclude(id, synthesize_schema_violation_sensor(id, policy, comment_path),
                               "rejected")
                 ELSE IF file.report = None
                 THEN Conclude(id, synthesize_invalid_sensor(id, policy, comment_path), "rejected")
                 ELSE Conclude(id, summarize_sensor_report(id, comment_path, policy, file.report,
                                     cfg.max_per_sensor_findings), file.report.status)

(***************************************************************************)
(* All sensors done: sort, select, judge, write report.json, comment.md.   *)
(***************************************************************************)
BlockingIds == {summaries[i].id : i \in {j \in DOMAIN summaries : summaries[j].blocking}}

BuildReport ==
  /\ pc = "sensor" /\ todo = {}
  /\ summaries' = sort_sensor_summaries(summaries, cfg)
  /\ built' = [verdict    |-> overall_verdict(summaries', cfg),
               sensors    |-> summaries',
               highlights |-> select_highlights(candidates, cfg.max_highlights, BlockingIds),
               buildfix   |-> discovered \cap input.plans]
  /\ pc' = "write_report"
  /\ UNCHANGED <<envvars, input, scan, found, invalid, cfg, todo, comment_path, candidates,
                 report_file, comment_file, exit, seen>>

\* Mutant: the comment is written before the report.
WriteCommentFirst ==
  /\ pc = "write_report"
  /\ comment_file' = built
  /\ pc' = "write_comment"
  /\ UNCHANGED <<envvars, input, scan, found, invalid, cfg, todo, comment_path, summaries,
                 candidates, built, report_file, exit, seen>>

WriteReport ==
  /\ pc = "write_report"
  /\ report_file' = built
  /\ pc' = "write_comment"
  /\ UNCHANGED <<envvars, input, scan, found, invalid, cfg, todo, comment_path, summaries,
                 candidates, built, comment_file, exit, seen>>

(* The comment is the rendering of the report in memory. *)
WriteComment ==
  /\ pc = "write_comment"
  /\ comment_file' = built
  /\ exit' = IF built.verdict.status = "fail" THEN 2 ELSE 0
  /\ pc' = "done"
  /\ UNCHANGED <<envvars, input, scan, found, invalid, cfg, todo, comment_path, summaries,
                 candidates, built, report_file, seen>>

(***************************************************************************)
(* Everything outside the program.                                         *)
(***************************************************************************)
Fallible == {"discover", "metadata", "read", "write_report", "write_comment"}

(* A fallible call returns Err, which ? carries out of execute; a failed   *)
(* write may leave the file truncated.                                     *)
IoError ==
  /\ pc \in Fallible \/ (pc = "sensor" /\ todo = {})   \* the latter: reading a plan.json
  /\ pc' = "failed" /\ exit' = 1
  /\ report_file' \in {report_file} \cup (IF pc = "write_report" THEN {Torn} ELSE {})
  /\ comment_file' \in {comment_file} \cup (IF pc = "write_comment" THEN {Torn} ELSE {})
  /\ UNCHANGED <<envvars, input, scan, found, invalid, cfg, todo, comment_path, summaries,
                 candidates, built, seen>>

Running == pc \notin {"done", "failed"}

(* The checks the receipt of the sensor in hand has passed by now. *)
Passed == CASE pc = "metadata" -> {"root"} [] pc = "read" -> {"root", "size"} [] OTHER -> {}

SensorWrites(s) ==
  /\ Running /\ budget > 0 /\ budget' = budget - 1
  /\ overtaken' = IF IsNext(s) THEN overtaken \cup Passed ELSE overtaken
  /\ \E file \in (Files \cup Elsewhere) \ {store[s]} : store' = [store EXCEPT ![s] = file]
  /\ UNCHANGED <<comments, input, pc, scan, found, invalid, cfg, todo, comment_path, summaries,
                 candidates, outvars, seen>>

SensorComments(s) ==
  /\ Running /\ budget > 0 /\ budget' = budget - 1
  /\ \E c \in Comments \ {comments[s]} : comments' = [comments EXCEPT ![s] = c]
  /\ UNCHANGED <<store, overtaken, input, pc, scan, found, invalid, cfg, todo, comment_path, summaries,
                 candidates, outvars, seen>>

Process(id) ==
  \/ RejectId(id) \/ CheckComment(id) \/ CanonicalizeComment(id) \/ SkipGated(id)
  \/ CheckExists(id) \/ Canonicalize(id) \/ CheckSize(id) \/ ReadReceipt(id)

Program ==
  \/ \E name \in Ids : ScanEntry(name)
  \/ LoadConfig
  \/ \E id \in Ids : Process(id)
  \/ BuildReport \/ WriteReport \/ WriteComment

Environment == IoError \/ \E s \in Sensors : SensorWrites(s) \/ SensorComments(s)

Next == Program \/ Environment

(* The program is one thread that nothing blocks. *)
Spec == Init /\ [][Next]_vars /\ WF_vars(Program)

(***************************************************************************)
(* Correctness.                                                            *)
(***************************************************************************)

(* Every variable has the type the code gives it. *)
TypeOK ==
  /\ store \in [Sensors -> Files \cup Elsewhere]
  /\ comments \in [Sensors -> Comments]
  /\ budget \in 0 .. EnvBudget /\ overtaken \in SUBSET {"root", "size"}
  /\ input \in Inputs
  /\ pc \in {"discover", "sensor", "comment", "gate", "canonicalize", "metadata", "read",
             "write_report", "write_comment", "done", "failed"}
  /\ scan \subseteq Ids /\ found \subseteq Sensors /\ invalid \subseteq UnsafeIds
  /\ cfg \in Configs \cup {DefaultConfig, None}
  /\ todo \subseteq Ids
  /\ comment_path \in BOOLEAN
  /\ summaries \in Seq(SensorSummary)
  /\ candidates \in Seq(Highlight)
  /\ built \in Report \cup {None}
  /\ report_file \in Report \cup {None, Torn}
  /\ comment_file \in Report \cup {None, Torn}
  /\ exit \in {None, 0, 1, 2}
  /\ seen \in [Ids -> Evidence \cup {None}]

(* The sensors this run must account for. *)
Expected == todo \cup {id \in Ids : seen[id] # None}

(* No sensor is lost and none is counted twice, whichever early `continue` *)
(* its processing took: the report lists each expected sensor exactly once, *)
(* ordered by section and id.                                              *)
EverySensorListed ==
  built # None =>
    LET Wanted == IF DOMAIN cfg.sensors # {} THEN DOMAIN cfg.sensors ELSE discovered
        list   == built.sensors
    IN  /\ Len(list) = Cardinality(Wanted)
        /\ {list[i].id : i \in DOMAIN list} = Wanted
        /\ \A i, j \in DOMAIN list : i < j =>
             KeyLess(<<section_rank(cfg, list[i].id), list[i].id>>,
                     <<section_rank(cfg, list[j].id), list[j].id>>)

(* Index i holds the first candidate of its fingerprint. *)
FirstOfItsKind(i) ==
  \A j \in DOMAIN candidates :
    fingerprint_of(candidates[j]) = fingerprint_of(candidates[i]) => i <= j

(* The published highlights are within the cap, distinct, ordered, and what *)
(* the cap leaves out never outranks what it keeps.                        *)
HighlightsAreTheTop ==
  built # None =>
    LET shown  == built.highlights
        Key(h) == HighlightKey(h, BlockingIds)
        Fps    == {shown[k].finding.fingerprint : k \in DOMAIN shown}
    IN  /\ Len(shown) <= cfg.max_highlights
        /\ Cardinality(Fps) = Len(shown)
        /\ \A k \in 1 .. (Len(shown) - 1) : ~KeyLess(Key(shown[k + 1]), Key(shown[k]))
        /\ \A i \in DOMAIN candidates :
             (FirstOfItsKind(i) /\ fingerprint_of(candidates[i]) \notin Fps) =>
               /\ Len(shown) = cfg.max_highlights
               /\ \A k \in DOMAIN shown : ~KeyLess(Key(candidates[i]), Key(shown[k]))

(* The totals in the verdict count every surfaced finding once: what the   *)
(* candidates hold, less what cockpitctl reports of itself, plus one error *)
(* per sensor rejected for its path (whose highlight is one of those).     *)
CountsAddUp ==
  built # None =>
    \A severity \in Severity :
      built.verdict.counts[severity] =
        Cardinality({i \in DOMAIN candidates :
          /\ candidates[i].finding.severity = severity
          /\ candidates[i].finding.code \notin
               {PATH_TRAVERSAL, RECEIPT_INCONSISTENT, SENSORS_TRUNCATED}})
        + (IF severity # "error" THEN 0
           ELSE Cardinality({i \in DOMAIN summaries :
                  summaries[i].presence = "missing" /\ "path_traversal" \in summaries[i].reasons}))

(* A red run shows why: when no receipt that could be read failed a        *)
(* blocking sensor, what did is a finding of cockpitctl itself, and then   *)
(* the first highlight is at least as severe as what turned the run red.   *)
RedIsExplained ==
  (pc = "done" /\ exit = 2 /\ cfg.max_highlights > 0) =>
    \/ \E i \in DOMAIN summaries :
         summaries[i].blocking /\ summaries[i].presence = "present"
           /\ effective_status(cfg, summaries[i]) = "fail"
    \/ /\ report_file.highlights # << >>
       /\ \/ report_file.highlights[1].finding.severity = "error"
          \/ cfg.warn_is_fail /\ report_file.highlights[1].finding.severity = "warn"

(* No comment without its report: comment.md is written only after the     *)
(* report it renders is on disk, and every exit code but 1 stands for two  *)
(* complete files that agree with it.                                      *)
CommentFollowsReport ==
  /\ comment_file # None => report_file = built /\ built # None
  /\ exit \in {0, 2} =>
       comment_file = report_file /\ (exit = 2 <=> report_file.verdict.status = "fail")

(* Without a cockpit.toml nothing blocks (discovered sensors are           *)
(* informational), not even a receipt that vanishes after discovery.       *)
NoConfigNeverBlocks == input.config = None => exit # 2

(* Root, size and contents of a receipt are three calls on its path.  So   *)
(* what a run uses of a sensor is within the artifacts root, and no larger *)
(* than max_receipt_bytes, unless this very sensor's receipt was replaced  *)
(* after the call that checked it; no other change lets one through.       *)
ReceiptUsedAsChecked ==
  [][\A id \in Sensors : seen'[id] # seen[id] /\ seen'[id] \in VerdictStatus =>
       /\ "root" \notin overtaken => store[id] \in Files
       /\ "size" \notin overtaken /\ store[id] \in Files =>
            store[id].size <= MaxReceiptBytes]_vars

(* Every run ends: nothing in execute waits for anything. *)
Terminates == <>(pc \in {"done", "failed"})

(***************************************************************************)
(* Ingest implements Gate.                                                 *)
(***************************************************************************)
Promise == INSTANCE Gate WITH
  policy       <- IF cfg = None THEN None ELSE [id \in Expected |-> policy_of(cfg, id)],
  warn_is_fail <- IF cfg = None THEN FALSE ELSE cfg.warn_is_fail,
  verdict      <- IF report_file \in {None, Torn} THEN None ELSE report_file.verdict.status

(* The run takes evidence of each expected sensor once and publishes the   *)
(* verdict the policy gives that evidence; the exit code follows it.  In   *)
(* particular no sensor passes by omission: the verdict fails for every    *)
(* blocking one that is missing under missing = fail or unusable.          *)
ImplementsGate == Promise!Spec

(***************************************************************************)
(* A statement of the documentation the code does not keep.                *)
(***************************************************************************)

(* docs/reference/finding-codes.md: receipt_inconsistent is emitted when a *)
(* receipt's claimed counts do not match its findings.                     *)
InconsistentMeansMismatch ==
  (EnvBudget = 0 /\ pc = "done") =>
    \A i \in DOMAIN summaries :
      "receipt_inconsistent" \in summaries[i].reasons =>
        LET report == store[summaries[i].id].report
            counts == compute_counts(report.findings)
        IN  \E f \in {"info", "warn", "error"} : report.counts[f] # counts[f]
=============================================================================
