----------------------------- MODULE Conformctl ------------------------------
(***************************************************************************)
(* The tools that judge receipts as files: conformctl (check, check-dir)   *)
(* and xtask (conform, conform-dir), which run the conformance checks, and *)
(* cockpitctl validate.                                                    *)
(*                                                                         *)
(* A tool reads files it has just seen to exist, while the sensors' jobs   *)
(* (SensorWrites) and cockpitctl ingest (IngestPublishes) may still write  *)
(* them.                                                                   *)
(***************************************************************************)
EXTENDS Conform

CONSTANTS
  Dirs,        \* the directories under artifacts/, cockpit/ aside
  Contents,    \* what a report.json may hold
  Unreadable,  \* a report.json that cannot be read as text
  Pending,     \* a report not yet judged
  Absent,      \* a report that was not there
  Unknown,     \* the sensor id "unknown"
  Config,      \* the cockpit.toml ingest uses
  Commands,    \* the command lines
  EnvBudget    \* BOUND: how often files may change

(* golden: the content of the file, None, or Unreadable. *)
CommandLine ==
  [command : {"check", "conform", "check_dir", "conform_dir", "validate"}, lax : BOOLEAN, report : Dirs,
   sensor_id : Nat \cup {None}, golden : Contents \cup {None, Unreadable},
   flags : SUBSET Checks, all : BOOLEAN, validate_cockpit : BOOLEAN,
   presence_semantics : BOOLEAN, allow_missing_report : BOOLEAN]

ASSUME ConformctlAssumption ==
  /\ Dirs \subseteq Nat /\ IsFiniteSet(Dirs) /\ Unknown \in Nat \ (Dirs \cup IllFormed)
  /\ Contents \subseteq ReceiptFile /\ None \notin Contents /\ Unreadable \notin Contents
  /\ {Pending, Absent} \cap (Contents \cup {Unreadable}) = {} /\ None # Unreadable /\ Pending # Absent
  /\ \A c \in Contents : c.report # None =>
       {c.report.findings[i].path : i \in DOMAIN c.report.findings}
         \cup {c.report.artifacts[i].path : i \in DOMAIN c.report.artifacts} \subseteq DOMAIN PathFaults
  /\ Commands \subseteq CommandLine /\ EnvBudget \in Nat

VARIABLES
  store,        \* artifacts/<dir>/report.json: None, Unreadable or a content
  cockpit,      \* artifacts/cockpit/report.json: None, Unreadable, or [json, schema_ok, report]
  budget,       \* changes still to come
  args,         \* the command line
  pc,           \* the next call
  todo,         \* directories still to be looked at, in order
  held,         \* the content check has read
  results,      \* what the table says of each directory
  had_failure,
  exit,         \* the exit code, None while running
  judged        \* HISTORY: the content judged of each directory listed; Pending before

vars == <<store, cockpit, budget, args, pc, todo, held, results, had_failure, exit, judged>>
envvars == <<store, cockpit, budget>>
progress == <<todo, results, had_failure, judged>>

EnabledChecks == IF args.all THEN Checks ELSE args.flags

(* What ingest makes of the receipts in the store, as far as the checks of  *)
(* its report can tell (the schema is applied in strict mode only).        *)
IngestReads(content) ==
  /\ content.json /\ content.report # None
  /\ Config.schema_validation = "strict" => validate_receipt("sensor.report.v1", content)

IngestJudges(id) ==
  IF id \in IllFormed
  THEN synthesize_path_traversal_sensor(id, DefaultSensorPolicy, FALSE).summary
  ELSE IF store[id] = None
  THEN synthesize_missing_sensor(id, policy_of(Config, id), FALSE).summary
  ELSE IF store[id] # Unreadable /\ IngestReads(store[id])
  THEN summarize_sensor_report(id, FALSE, policy_of(Config, id), store[id].report,
                               Config.max_per_sensor_findings).summary
  ELSE IF store[id] # Unreadable /\ Config.schema_validation = "strict"
          /\ ~validate_receipt("sensor.report.v1", store[id])
  THEN synthesize_schema_violation_sensor(id, policy_of(Config, id), FALSE).summary
  ELSE synthesize_invalid_sensor(id, policy_of(Config, id), FALSE).summary

IngestReport ==
  LET expected == Ascending(IF DOMAIN Config.sensors # {} THEN DOMAIN Config.sensors
                            ELSE {id \in Dirs \ IllFormed : store[id] # None})
      sensors  == [k \in DOMAIN expected |-> IngestJudges(expected[k])]
  IN  [reasons |-> overall_verdict(sensors, Config).reasons, sensors |-> sensors]

Own(report) == [json |-> TRUE, schema_ok |-> TRUE, report |-> report]
TornReport == [json |-> FALSE, schema_ok |-> FALSE, report |-> None]
OldReport == [json |-> TRUE, schema_ok |-> FALSE, report |-> None]  \* of another version

Init ==
  /\ store \in [Dirs -> Contents \cup {None, Unreadable}]
  /\ cockpit \in {None, Unreadable, TornReport, OldReport, Own(IngestReport)}
  /\ budget = EnvBudget /\ args \in Commands
  /\ pc = "start" /\ todo = << >> /\ held = None
  /\ results = << >> /\ had_failure = FALSE /\ exit = None /\ judged = << >>

(***************************************************************************)
(* The others.                                                             *)
(***************************************************************************)
SensorWrites(d) ==
  /\ pc # "done" /\ budget > 0
  /\ store' \in {[store EXCEPT ![d] = c] : c \in Contents \cup {None}}
  /\ budget' = budget - 1
  /\ UNCHANGED <<cockpit, args, pc, held, progress, exit>>

IngestPublishes ==
  /\ pc # "done" /\ budget > 0
  /\ cockpit' \in {TornReport, Own(IngestReport)}
  /\ budget' = budget - 1
  /\ UNCHANGED <<store, args, pc, held, progress, exit>>

(***************************************************************************)
(* check and conform: one receipt.                                         *)
(***************************************************************************)
End(code) == pc' = "done" /\ exit' = code

RefuseWithoutId ==
  /\ pc = "start"
  /\ "ordering" \in EnabledChecks /\ args.sensor_id = None
  /\ End(1)
  /\ UNCHANGED <<envvars, args, held, progress>>

ReadReport ==
  /\ pc = "start"
  /\ ~("ordering" \in EnabledChecks /\ args.sensor_id = None)
  /\ \/ store[args.report] \in {None, Unreadable} /\ End(1) /\ UNCHANGED held
     \/ /\ store[args.report] \notin {None, Unreadable}
        /\ held' = store[args.report]
        /\ pc' = "golden" /\ UNCHANGED exit
  /\ UNCHANGED <<envvars, args, progress>>

\* Mutant: a difference sets the exit code, but the checks go on.
DifferenceNoted ==
  /\ pc = "golden"
  /\ pc' = "judge"
  /\ exit' = IF args.golden \in {None, held} THEN exit ELSE 1
  /\ UNCHANGED <<envvars, args, held, progress>>

(* The golden file is compared as text; a report that differs from it, or  *)
(* cannot be compared, is not checked any further.                         *)
CompareWithGolden ==
  /\ pc = "golden"
  /\ \/ args.golden \in {None, held} /\ pc' = "judge" /\ UNCHANGED exit
     \/ args.golden \notin {None, held} /\ End(1)
  /\ UNCHANGED <<envvars, args, held, progress>>

JudgeReport ==
  /\ pc = "judge"
  /\ LET sensor_id == IF args.sensor_id = None THEN Unknown ELSE args.sensor_id
     IN  End(IF conform_single(held, sensor_id, EnabledChecks) = {} THEN 0 ELSE 1)
  /\ judged' = [d \in {args.report} |-> held]
  /\ UNCHANGED <<envvars, args, held, todo, results, had_failure>>

(***************************************************************************)
(* check-dir and conform-dir: every directory.                             *)
(***************************************************************************)

(* A directory that does not exist or cannot be listed ends the run; an     *)
(* entry that cannot be read, or does not look like a directory, is left   *)
(* out without a word.                                                     *)
ScanDir ==
  /\ pc = "start"
  /\ \/ End(1) /\ UNCHANGED progress
     \/ \E entries \in SUBSET Dirs :
          /\ todo' = Ascending(entries)
          /\ judged' = [d \in entries |-> Pending]
          /\ pc' = "exists" /\ UNCHANGED <<exit, results, had_failure>>
  /\ UNCHANGED <<envvars, args, held>>

Record(d, status, content) ==
  /\ results' = [e \in DOMAIN results \cup {d} |-> IF e = d THEN status ELSE results[e]]
  /\ judged' = [judged EXCEPT ![d] = content]
  /\ todo' = Tail(todo) /\ pc' = "exists"

LookForReport ==
  /\ pc = "exists" /\ todo # << >>
  /\ \/ /\ store[Head(todo)] # None /\ pc' = "read" /\ UNCHANGED progress
     \/ /\ store[Head(todo)] = None /\ args.allow_missing_report
        /\ Record(Head(todo), "skip", Absent) /\ UNCHANGED had_failure
     \/ /\ store[Head(todo)] = None /\ ~args.allow_missing_report
        /\ Record(Head(todo), "FAIL", Absent) /\ had_failure' = TRUE
  /\ UNCHANGED <<envvars, args, held, exit>>

\* Mutant: a report that cannot be read is put in the table and forgotten.
ReadErrorTolerated ==
  /\ pc = "read"
  /\ LET d == Head(todo)
     IN  \/ /\ store[d] \in {None, Unreadable}
            /\ Record(d, "FAIL", Unreadable) /\ UNCHANGED had_failure
         \/ /\ store[d] \notin {None, Unreadable} /\ conform_single(store[d], d, EnabledChecks) = {}
            /\ Record(d, "PASS", store[d]) /\ UNCHANGED had_failure
         \/ /\ store[d] \notin {None, Unreadable} /\ conform_single(store[d], d, EnabledChecks) # {}
            /\ Record(d, "FAIL", store[d]) /\ had_failure' = TRUE
  /\ UNCHANGED <<envvars, args, held, exit>>

(* What was there a moment ago may be gone now: that is a read error. *)
ReadSensorReport ==
  /\ pc = "read"
  /\ LET d == Head(todo)
     IN  \/ /\ store[d] \in {None, Unreadable}
            /\ Record(d, "FAIL", Unreadable) /\ had_failure' = TRUE
         \/ /\ store[d] \notin {None, Unreadable} /\ conform_single(store[d], d, EnabledChecks) = {}
            /\ Record(d, "PASS", store[d]) /\ UNCHANGED had_failure
         \/ /\ store[d] \notin {None, Unreadable} /\ conform_single(store[d], d, EnabledChecks) # {}
            /\ Record(d, "FAIL", store[d]) /\ had_failure' = TRUE
  /\ UNCHANGED <<envvars, args, held, exit>>

(* The cockpit report, if it is asked for: one that is not there is        *)
(* skipped, one that cannot be read or parsed ends the run.                *)
LookForCockpit ==
  /\ pc = "exists" /\ todo = << >>
  /\ pc' = IF args.validate_cockpit /\ cockpit # None THEN "cockpit" ELSE "finish"
  /\ UNCHANGED <<envvars, args, held, progress, exit>>

ReadCockpit ==
  /\ pc = "cockpit"
  /\ LET reason_lint == "reason_lint" \in EnabledChecks
         presence_semantics == args.presence_semantics \/ args.all
         Readable == cockpit \notin {None, Unreadable} /\ cockpit.json
         Failed == IF cockpit.schema_ok
                   THEN check_cockpit_extended(cockpit.report, reason_lint, presence_semantics) # {}
                   ELSE TRUE
     IN  \/ ~Readable /\ End(1) /\ UNCHANGED had_failure
         \/ Readable /\ ~Failed /\ pc' = "finish" /\ UNCHANGED <<exit, had_failure>>
         \/ Readable /\ Failed /\ pc' = "finish" /\ had_failure' = TRUE /\ UNCHANGED exit
  /\ UNCHANGED <<envvars, args, held, todo, results, judged>>

Finish ==
  /\ pc = "finish"
  /\ End(IF had_failure THEN 1 ELSE 0)
  /\ UNCHANGED <<envvars, args, held, progress>>

(***************************************************************************)
(* cockpitctl validate: one file, at once.                                 *)
(***************************************************************************)
Validate ==
  /\ pc = "start"
  /\ \/ store[args.report] \in {None, Unreadable} /\ End(1) /\ UNCHANGED judged
     \/ /\ store[args.report] \notin {None, Unreadable}
        /\ judged' = [d \in {args.report} |-> store[d]]
        /\ End(IF validate(store[args.report], args.lax) THEN 0 ELSE 1)
  /\ UNCHANGED <<envvars, args, held, todo, results, had_failure>>

(***************************************************************************)
(* The commands: xtask has both a second time.                             *)
(***************************************************************************)
OneReceipt == RefuseWithoutId \/ ReadReport \/ CompareWithGolden \/ JudgeReport
EveryReceipt ==
  ScanDir \/ LookForReport \/ ReadSensorReport \/ LookForCockpit \/ ReadCockpit \/ Finish

check == args.command = "check" /\ OneReceipt
conform == args.command = "conform" /\ OneReceipt
check_dir == args.command = "check_dir" /\ EveryReceipt
conform_dir == args.command = "conform_dir" /\ EveryReceipt
cmd_validate == args.command = "validate" /\ Validate

Program == check \/ check_dir \/ conform \/ conform_dir \/ cmd_validate

Next == Program \/ IngestPublishes \/ \E d \in Dirs : SensorWrites(d)

Spec == Init /\ [][Next]_vars

(***************************************************************************)
(* Properties.                                                             *)
(***************************************************************************)

(* Type invariant: what is judged and what is in the table belong together. *)
TypeOK ==
  /\ store \in [Dirs -> Contents \cup {None, Unreadable}]
  /\ budget \in 0 .. EnvBudget /\ args \in Commands
  /\ pc \in {"start", "golden", "judge", "exists", "read", "cockpit", "finish", "done"}
  /\ todo \in Seq(Dirs) /\ held \in Contents \cup {None}
  /\ had_failure \in BOOLEAN /\ exit \in {0, 1, None} /\ (pc = "done" <=> exit # None)
  /\ DOMAIN judged \subseteq Dirs /\ DOMAIN results \subseteq DOMAIN judged
  /\ \A d \in DOMAIN judged : judged[d] \in Contents \cup {Pending, Absent, Unreadable}
  /\ \A d \in DOMAIN results : results[d] \in {"PASS", "FAIL", "skip"}

(* The sensor id a receipt is judged under. *)
JudgedAs(d) ==
  IF args.command \in {"check_dir", "conform_dir"} THEN d
  ELSE IF args.sensor_id = None THEN Unknown ELSE args.sensor_id

Good(d) ==
  \/ judged[d] = Absent /\ args.allow_missing_report
  \/ judged[d] \in Contents /\ args.command = "validate" /\ validate(judged[d], args.lax)
  \/ judged[d] \in Contents /\ args.command # "validate"
       /\ conform_single(judged[d], JudgedAs(d), EnabledChecks) = {}

(* Exit code 0 is earned: every directory that was listed was judged, on    *)
(* what was read of it, and found good; whatever the others wrote          *)
(* meanwhile, and whatever else failed.                                    *)
PassIsEarned == exit = 0 => \A d \in DOMAIN judged : Good(d)

Passes(d) == judged[d] \in Contents /\ (exit = 0 \/ (d \in DOMAIN results /\ results[d] = "PASS"))

(* The tools agree.  What a conformance tool passes, whichever checks were  *)
(* asked for, ingest can use in both modes (it will not end up as          *)
(* INVALID_RECEIPT), and validate passes it unless it calls itself a       *)
(* cockpit report.  What validate passes as a receipt ingest does not      *)
(* refuse in the same mode (for its schema, in strict mode: its type is    *)
(* not validated there).                                                   *)
ToolsAgree ==
  \A d \in DOMAIN judged : Passes(d) =>
    LET content == judged[d] IN
    IF args.command # "validate"
    THEN /\ content.report # None /\ content.schema_ok
         /\ content.hint # "cockpit.report.v1" => \A lax \in BOOLEAN : validate(content, lax)
    ELSE content.hint # "cockpit.report.v1" /\ content.as_cockpit = {} =>
           IF args.lax THEN content.report # None ELSE content.schema_ok

(* The two orders agree as long as every finding has a line: a receipt      *)
(* that passes the ordering check is left as it is by ingest's sort.       *)
OrderedIsKept ==
  exit = 0 /\ args.command # "validate" /\ "ordering" \in EnabledChecks =>
    \A d \in DOMAIN judged :
      judged[d] \in Contents /\ (\A i \in DOMAIN judged[d].report.findings :
                                   judged[d].report.findings[i].line # None) =>
        sort_findings(d, judged[d].report.findings) = judged[d].report.findings

(* cockpitctl keeps its own rules: the report ingest writes of any receipts *)
(* fails the checks of the cockpit report only for a reason token that a   *)
(* sensor chose.                                                           *)
OwnReportConforms ==
  pc = "cockpit" /\ cockpit \notin {None, Unreadable} /\ cockpit.report # None =>
    LET report == cockpit.report
        given  == (UNION {report.sensors[i].reasons : i \in DOMAIN report.sensors}) \cap SensorReasons
    IN  /\ check_presence_semantics(report) = {}
        /\ check_cockpit_reason_tokens(report) \subseteq given

(* contracts/docs/determinism.md:12 gives the canonical order of findings   *)
(* ("line ascending (u32::MAX if absent)"), which is the order ingest      *)
(* sorts by; a receipt in this order should pass the ordering check.       *)
CanonicalOrderPasses ==
  \A d \in DOMAIN results :
    judged[d] \in Contents /\ judged[d].report # None
      /\ sort_findings(d, judged[d].report.findings) = judged[d].report.findings =>
    "ordering" \notin conform_single(judged[d], d, EnabledChecks)
=============================================================================
