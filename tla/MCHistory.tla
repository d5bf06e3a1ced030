----------------------------- MODULE MCHistory ------------------------------
(***************************************************************************)
(* Receipts of two sensors for History, and five configurations.          *)
(***************************************************************************)
EXTENDS History

F(severity, code, path, line, fp) ==
  [severity |-> severity, code |-> code, message |-> code, path |-> path, line |-> line, fingerprint |-> fp]

Bug   == F("error", 2, 1, 5, SensorFp(1))  \* one finding, with the sensor's own fingerprint,
Moved == F("error", 2, 1, 6, SensorFp(1))  \* after lines were inserted above it,
Eased == F("warn", 2, 1, 5, SensorFp(1))   \* and after the sensor thinks less of it
Other == F("error", 2, 1, 5, None)         \* another in the same place
Note  == F("info", 1, 0, None, None)
Line3 == F("warn", 1, 1, 3, None)

Counts(findings) == compute_counts(findings)
R(status, findings) ==
  [status |-> status, counts |-> Counts(findings), reasons |-> {}, findings |-> findings]

Clean == R("pass", << >>)
Miscounted == [R("warn", <<Line3>>) EXCEPT !.counts.warn = 2]

MCReceipts ==
  {Clean, R("fail", <<Bug>>), R("fail", <<Moved, Other>>), R("warn", <<Eased, Note>>),
   R("fail", <<Line3, Note, Other>>), Miscounted}

Policy(blocking, section) ==
  [blocking |-> blocking, missing |-> "warn", section |-> section, require_label |-> None]

Wide ==
  [sensors |-> [id \in {1, 2} |-> Policy(id = 2, IF id = 1 THEN 21 ELSE 20)], warn_is_fail |-> FALSE,
   max_highlights |-> 6, max_per_sensor_findings |-> 3, max_annotations |-> 2,
   section_order |-> <<20, 21>>]
Narrow ==
  [sensors |-> [id \in {1, 2} |-> Policy(id = 2, IF id = 2 THEN 20 ELSE None)], warn_is_fail |-> TRUE,
   max_highlights |-> 2, max_per_sensor_findings |-> 2, max_annotations |-> 1,
   section_order |-> <<OtherSection, 20>>]
Unlisted ==
  [sensors |-> [id \in {1} |-> Policy(FALSE, 21)], warn_is_fail |-> FALSE,
   max_highlights |-> 4, max_per_sensor_findings |-> 1, max_annotations |-> 9,
   section_order |-> <<20, OtherSection, 20>>]
Undeclared ==
  [sensors |-> [id \in {} |-> DefaultSensorPolicy], warn_is_fail |-> FALSE,
   max_highlights |-> 3, max_per_sensor_findings |-> 3, max_annotations |-> 2,
   section_order |-> <<OtherSection>>]
NothingShown == [Wide EXCEPT !.max_highlights = 0, !.sensors[1].section = 20]

MCConfigs == {Wide, Narrow, Unlisted, Undeclared, NothingShown}
=============================================================================
