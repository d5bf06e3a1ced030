------------------------------- MODULE Conform -------------------------------
(***************************************************************************)
(* The conformance checks of crates/cockpitctl-conform, which say of one   *)
(* receipt, and of cockpitctl's own report, whether it keeps the protocol. *)
(***************************************************************************)
EXTENDS Domain

CONSTANTS
  IllFormed,      \* names that do not match [a-zA-Z0-9_-]+
  InvalidTokens,  \* the reasons that do not match ^[a-z0-9_]+$
  ToolError,      \* the reason "tool_error"
  RuntimeError,   \* the code "runtime_error"
  PathFaults      \* which of absolute, traversal, backslash each path is

Checks == {"survivability", "path_hygiene", "ordering", "reason_lint", "tool_error_identity",
           "sensor_id_format", "artifact_pointers"}

ArtifactPointer == [id : Nat, path : Nat, mime : Nat]  \* 0 is empty

(* A finding also has the check_id; only "tool.runtime" matters. *)
SensorReport ==
  [status : VerdictStatus, counts : VerdictCounts, reasons : SUBSET SensorReasons,
   capabilities : SUBSET SensorReasons,
   findings : Seq([severity : Severity, code : Nat, message : Nat, path : Nat,
                   line : (0 .. U32Max) \cup {None}, fingerprint : Fingerprint \cup {None},
                   tool_runtime : BOOLEAN]),
   artifacts : Seq(ArtifactPointer)]

(* report = None: the JSON is no SensorReport.  hint is the text of the     *)
(* field "schema", as_cockpit who would take the file for a CockpitReport. *)
ReceiptFile ==
  [json : BOOLEAN, schema_ok : BOOLEAN, report : SensorReport \cup {None},
   hint : {None, "cockpit.report.v1", "other"}, as_cockpit : SUBSET {"schema", "serde"}]

Faults == {"absolute", "traversal", "backslash"}

ASSUME ConformAssumption ==
  /\ IllFormed \subseteq Nat
  /\ InvalidTokens \cup {ToolError} \subseteq SensorReasons /\ RuntimeError \in Nat
  /\ "warn_is_fail" \notin InvalidTokens
  /\ PathFaults \in [DOMAIN PathFaults -> SUBSET Faults] /\ DOMAIN PathFaults \subseteq Nat

(***************************************************************************)
(* The checks: each gives the places of its violations.                    *)
(***************************************************************************)
is_valid_reason_token(reason) == reason \notin InvalidTokens

check_path_hygiene(report) ==
  {place \in (DOMAIN report.findings) \X Faults : place[2] \in PathFaults[report.findings[place[1]].path]}

\* Mutant: only the severities have to be in order.
SeverityInOrder(report, sensor_id) ==
  {i \in 2 .. Len(report.findings) :
     severity_rank[report.findings[i].severity] < severity_rank[report.findings[i - 1].severity]}

(* Unlike finding_sort_key, a finding without a line counts as on line 0. *)
check_ordering(report, sensor_id) ==
  LET Key(f) == <<severity_rank[f.severity], sensor_id, f.path, IF f.line = None THEN 0 ELSE f.line,
                  f.code, f.message>>
  IN  {i \in 2 .. Len(report.findings) : KeyLess(Key(report.findings[i]), Key(report.findings[i - 1]))}

check_reason_tokens(report) ==
  {reason \in report.reasons \cup report.capabilities : ~is_valid_reason_token(reason)}

check_tool_error_identity(report) ==
  {reason \in report.reasons \cap {ToolError} :
     ~\E i \in DOMAIN report.findings :
        report.findings[i].tool_runtime /\ report.findings[i].code = RuntimeError}

check_sensor_id_format(sensor_id) == {sensor_id} \cap IllFormed

check_artifact_pointers(report) ==
  {i \in DOMAIN report.artifacts :
     LET a == report.artifacts[i]
     IN  \/ 0 \in {a.id, a.path, a.mime}
         \/ a.path # 0 /\ PathFaults[a.path] \cap {"absolute", "traversal"} # {}}

check_survivability(report) ==
  {s \in {report.status} : s = "fail" /\ report.findings = << >> /\ report.reasons = {}}

Violates(check, report, sensor_id) ==
  \/ check = "survivability" /\ check_survivability(report) # {}
  \/ check = "path_hygiene" /\ check_path_hygiene(report) # {}
  \/ check = "ordering" /\ check_ordering(report, sensor_id) # {}
  \/ check = "reason_lint" /\ check_reason_tokens(report) # {}
  \/ check = "tool_error_identity" /\ check_tool_error_identity(report) # {}
  \/ check = "sensor_id_format" /\ check_sensor_id_format(sensor_id) # {}
  \/ check = "artifact_pointers" /\ check_artifact_pointers(report) # {}

(* JsonSchemaValidator::validate_receipt: malformed JSON is not an error but *)
(* a receipt off the schema.                                               *)
validate_receipt(schema, content) ==
  content.json /\ IF schema = "cockpit.report.v1" THEN "schema" \in content.as_cockpit ELSE content.schema_ok

(* Which checks a receipt fails; {"error"} is Err, the check that could not *)
(* be made.                                                                *)
conform_single(content, sensor_id, checks) ==
  IF ~content.json THEN {"error"}
  ELSE IF ~validate_receipt("sensor.report.v1", content) THEN {"schema"}
  ELSE IF content.report = None THEN {"error"}
  ELSE {check \in checks : Violates(check, content.report, sensor_id)}

\* Mutant: a file that says what it is is believed.
BelievesTheHint(content, lax) ==
  content.json /\
  IF lax THEN content.report # None \/ "serde" \in content.as_cockpit
  ELSE content.hint = None => content.schema_ok

(* cmd_validate of cockpitctl: in lax mode any of the two types will do; in *)
(* strict mode the field "schema" says which of the two schemas is meant,  *)
(* and no type is asked.                                                   *)
validate(content, lax) ==
  content.json /\
  IF lax THEN content.report # None \/ "serde" \in content.as_cockpit
  ELSE \/ content.hint # "cockpit.report.v1" /\ validate_receipt("sensor.report.v1", content)
       \/ content.hint # "other" /\ validate_receipt("cockpit.report.v1", content)

(* The cockpit report's own checks. *)
check_presence_semantics(report) ==
  {i \in DOMAIN report.sensors :
     report.sensors[i].missing_policy_applied # None /\ report.sensors[i].presence # "missing"}

(* The reasons of run.capabilities are looked at too; every report          *)
(* cockpitctl writes has an empty map there, which the model leaves out.   *)
check_cockpit_reason_tokens(report) ==
  {reason \in report.reasons \cup UNION {report.sensors[i].reasons : i \in DOMAIN report.sensors} :
     ~is_valid_reason_token(reason)}

check_cockpit_extended(report, reason_lint, presence_semantics) ==
  {check \in {"reason_lint", "presence_semantics"} :
     \/ check = "reason_lint" /\ reason_lint /\ check_cockpit_reason_tokens(report) # {}
     \/ check = "presence_semantics" /\ presence_semantics /\ check_presence_semantics(report) # {}}
=============================================================================
