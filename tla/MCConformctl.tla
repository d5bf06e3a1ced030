---------------------------- MODULE MCConformctl ----------------------------
(***************************************************************************)
(* Two directories for Conformctl, 1 a sensor's and 3 with a name no       *)
(* sensor may have, and receipts that fail one check or another.           *)
(***************************************************************************)
EXTENDS Conformctl

MCPathFaults ==
  [path \in 0 .. 4 |-> CASE path = 2 -> {"absolute"} [] path = 3 -> {"traversal"}
                         [] path = 4 -> {"absolute", "backslash"} [] OTHER -> {}]

F(severity, code, path, line) ==
  [severity |-> severity, code |-> code, message |-> 1, path |-> path, line |-> line,
   fingerprint |-> None, tool_runtime |-> code = RuntimeError]

R(status, reasons, findings) ==
  [status |-> status, counts |-> compute_counts(findings), reasons |-> reasons, capabilities |-> {},
   findings |-> findings, artifacts |-> <<[id |-> 1, path |-> 1, mime |-> 1]>>]

File(report) ==
  [json |-> TRUE, schema_ok |-> TRUE, report |-> report, hint |-> "other", as_cockpit |-> {}]

Fine == File(R("fail", {"r"}, <<F("error", 1, 1, 3), F("error", 1, 1, 4), F("warn", 1, 1, 2)>>))
\* In the order ingest sorts by, and not in it.
LineLast == File(R("warn", {}, <<F("warn", 1, 1, 3), F("warn", 1, 1, None)>>))
Unsorted == File(R("warn", {}, <<F("warn", 1, 1, 4), F("warn", 1, 1, 3)>>))
Careless == File([R("fail", {"BadToken", "tool_error"}, <<F("error", 1, 2, 3), F("error", 2, 4, 3)>>)
                    EXCEPT !.artifacts = <<[id |-> 0, path |-> 3, mime |-> 1]>>])
Mute == File(R("fail", {}, << >>))
NotSerde == File(None)
NotSchema == [File(R("pass", {}, << >>)) EXCEPT !.schema_ok = FALSE]
NoHint == [NotSchema EXCEPT !.hint = None, !.report = None]
NotJson == [NoHint EXCEPT !.json = FALSE]
Cockpit == [NotSchema EXCEPT !.hint = "cockpit.report.v1", !.as_cockpit = {"schema", "serde"}]
Posing == [Fine EXCEPT !.hint = "cockpit.report.v1"]  \* a receipt that calls itself a cockpit report

MCContents ==
  {Fine, LineLast, Unsorted, Careless, Mute, NotSerde, NotSchema, NoHint, NotJson, Cockpit, Posing}

Check ==
  [command |-> "check", lax |-> FALSE, report |-> 1, sensor_id |-> None, golden |-> None, flags |-> {},
   all |-> FALSE, validate_cockpit |-> FALSE, presence_semantics |-> FALSE,
   allow_missing_report |-> FALSE]
CheckDir == [Check EXCEPT !.command = "check_dir"]

MCCommands ==
  {[Check EXCEPT !.command = "validate"], [Check EXCEPT !.command = "validate", !.lax = TRUE],
   Check, [Check EXCEPT !.all = TRUE],
   [Check EXCEPT !.all = TRUE, !.sensor_id = 1, !.golden = Fine],
   [Check EXCEPT !.command = "conform", !.flags = {"ordering"}, !.sensor_id = 1],
   CheckDir, [CheckDir EXCEPT !.all = TRUE, !.validate_cockpit = TRUE],
   [CheckDir EXCEPT !.command = "conform_dir", !.flags = {"reason_lint", "ordering"},
                    !.validate_cockpit = TRUE, !.allow_missing_report = TRUE]}

MCConfig ==
  [sensors |-> [id \in {1, 3} |-> [DefaultSensorPolicy EXCEPT !.blocking = TRUE, !.missing = "warn"]],
   warn_is_fail |-> TRUE, max_highlights |-> 3, max_per_sensor_findings |-> 2,
   section_order |-> << >>, schema_validation |-> "lax"]
=============================================================================
