------------------------------ MODULE MCIngest ------------------------------
(***************************************************************************)
(* Small instances of Ingest: two valid sensors (1, 2), one unsafe name    *)
(* (3), contents of a receipt for every branch of its processing.          *)
(***************************************************************************)
EXTENDS Ingest

Counts(i, w, e, s) == [info |-> i, warn |-> w, error |-> e, suppressed |-> s]

\* Two sensors that report the same problem under one fingerprint.
SharedWarn == [severity |-> "warn", code |-> 11, message |-> 1, path |-> 1, line |-> 2,
               fingerprint |-> SensorFp(1)]
SharedError == [SharedWarn EXCEPT !.severity = "error"]
NoLineWarn == [severity |-> "warn", code |-> 12, message |-> 1, path |-> 0, line |-> None,
               fingerprint |-> None]
Info == [severity |-> "info", code |-> 10, message |-> 1, path |-> 1, line |-> 1,
         fingerprint |-> None]

File(report) == [size |-> 1, schema_ok |-> TRUE, report |-> report]

Passing == File([status |-> "pass", counts |-> Counts(0, 1, 0, 0), reasons |-> {},
                 findings |-> <<SharedWarn>>])
Warning == File([status |-> "warn", counts |-> Counts(1, 1, 0, 0), reasons |-> {},
                 findings |-> <<Info, NoLineWarn>>])
\* Three findings, one more than max_per_sensor_findings; truthful counts.
Failing == File([status |-> "fail", counts |-> Counts(1, 1, 1, 0), reasons |-> {"r"},
                 findings |-> <<Info, NoLineWarn, SharedError>>])
\* Claims an error it does not list.
Lying == File([status |-> "skip", counts |-> Counts(0, 0, 1, 0), reasons |-> {}, findings |-> << >>])
Oversized == [Passing EXCEPT !.size = 5]
Malformed == [size |-> 1, schema_ok |-> FALSE, report |-> None]
\* Parses, but not to the schema; and the converse.
OffSchema == [Warning EXCEPT !.schema_ok = FALSE]
NotSerde == [Malformed EXCEPT !.schema_ok = TRUE]

AllFiles == {Passing, Warning, Failing, Lying, Oversized, Malformed, OffSchema, NotSerde}
FewFiles == {Failing, Oversized}
TinyFiles == {Lying}

Policy(blocking, missing, section, label) ==
  [blocking |-> blocking, missing |-> missing, section |-> section, require_label |-> label]

BlockingFail == Policy(TRUE, "fail", 20, None)
BlockingWarn == Policy(TRUE, "warn", None, None)
Advisory     == Policy(FALSE, "warn", 21, None)
LabelGated   == Policy(TRUE, "fail", 21, 1)

MkConfig(sensors, warn_is_fail, highlights, findings, schema) ==
  [sensors |-> sensors, warn_is_fail |-> warn_is_fail, max_highlights |-> highlights,
   max_per_sensor_findings |-> findings, section_order |-> <<21, OtherSection, 20>>,
   schema_validation |-> schema]

Mixed   == MkConfig([id \in {1, 2} |-> IF id = 1 THEN BlockingFail ELSE Advisory], FALSE, 2, 2, "lax")
Tight   == MkConfig([id \in {1, 2} |-> IF id = 1 THEN LabelGated ELSE BlockingWarn], TRUE, 1, 2, "strict")
Hostile == MkConfig([id \in {1, 3} |-> Advisory], FALSE, 2, 1, "lax")
Gatekeeper == MkConfig([id \in {2, 3} |-> IF id = 3 THEN LabelGated ELSE BlockingFail], FALSE, 3, 2, "lax")
Silent  == MkConfig([id \in {} |-> Advisory], TRUE, 3, 2, "strict")

AllConfigs == {Mixed, Tight, Hostile, Gatekeeper, Silent}

In(config, labels, override, dirs, plans) ==
  [config |-> config, labels |-> labels, override |-> override, unsafe_dirs |-> dirs,
   plans |-> plans]

AllInputs ==
  {In(Mixed, {}, None, {3}, {1}), In(Mixed, {}, "strict", {}, {}), In(Tight, {}, None, {}, {}),
   In(Tight, {1}, "lax", {3}, {}), In(Tight, {1}, None, {}, {1, 2}), In(Hostile, {}, None, {3}, {}),
   In(Gatekeeper, {1}, None, {}, {}), In(Silent, {}, None, {}, {}), In(None, {}, None, {3}, {2}),
   In(Broken, {}, None, {}, {})}

RaceInputs == {In(Mixed, {}, None, {}, {1}), In(Tight, {1}, None, {}, {}), In(None, {}, None, {3}, {2})}

Anywhere == {None, Escape}

CalmComments == {"inside", "outside"}
GoneComments == {"absent", "outside"}
=============================================================================
