------------------------------- MODULE Domain -------------------------------
(***************************************************************************)
(* The pure policy functions of crates/cockpitctl-domain: how one receipt  *)
(* (or its absence) becomes a sensor summary and candidate highlights, how *)
(* the summaries become one verdict, and which highlights are shown.       *)
(***************************************************************************)
EXTENDS CockpitTypes

CONSTANTS
  OtherSection   \* the section name "Other"

ASSUME DomainAssumption == OtherSection \in Nat

(* The cockpit_codes, numbered in their lexical order. *)
INVALID_RECEIPT      == 1
MISSING_RECEIPT      == 2
PATH_TRAVERSAL       == 3
RECEIPT_INCONSISTENT == 4
RECEIPT_OVERSIZED    == 5
SCHEMA_VIOLATION     == 6
SENSORS_TRUNCATED    == 7

(* Fingerprints: the ones a sensor wrote itself, the SHA-256 cockpitctl    *)
(* derives when there is none, and the ones cockpitctl writes on its own   *)
(* findings.  Different inputs give different hashes here; the code hashes *)
(* path and line without tags, so a path spelled like a line number, of a  *)
(* finding without a line, would hash like that line without a path.       *)
SensorFp(n) == <<0, n>>

derive_fingerprint(sensor_id, f) ==
  <<1, sensor_id, f.code, f.message, f.path, IF f.line = None THEN 0 ELSE f.line + 1>>

compute_policy_outcome(blocking, status) ==
  IF ~blocking THEN "informational"
  ELSE IF status = "fail" THEN "blocked"
  ELSE "allowed"

(***************************************************************************)
(* Findings of one receipt: sort, cap, count.                              *)
(***************************************************************************)
LineKey(line) == IF line = None THEN U32Max ELSE line

finding_sort_key(sensor_id, f) ==
  <<severity_rank[f.severity], sensor_id, f.path, LineKey(f.line), f.code, f.message>>

sort_findings(sensor_id, findings) ==
  SortByKey(findings, [i \in DOMAIN findings |-> finding_sort_key(sensor_id, findings[i])])

\* Mutant: what is cut off is not announced.
CapSilently(findings, max) == [surfaced |-> Truncate(findings, max), truncated |-> FALSE]

cap_findings(findings, max) ==
  [surfaced |-> Truncate(findings, max), truncated |-> Len(findings) > max]

compute_counts(findings) ==
  LET Of(sev) == Cardinality({i \in DOMAIN findings : findings[i].severity = sev})
  IN  [info |-> Of("info"), warn |-> Of("warn"), error |-> Of("error"), suppressed |-> 0]

(***************************************************************************)
(* The summaries cockpitctl synthesizes, and the one it makes of a receipt. *)
(* Each operator returns the summary and the candidate highlights.         *)
(***************************************************************************)
Synthesized(severity, code, message, fingerprint) ==
  [severity |-> severity, code |-> code, message |-> message, path |-> 0,
   line |-> None, fingerprint |-> fingerprint]

Summary(id, policy, presence, comment_path, status, findings, reasons) ==
  [id |-> id, blocking |-> policy.blocking, missing |-> policy.missing,
   presence |-> presence, comment_path |-> comment_path, status |-> status,
   counts |-> compute_counts(findings), reasons |-> reasons, truncated |-> FALSE,
   missing_policy_applied |-> None,
   policy_outcome |-> compute_policy_outcome(policy.blocking, status)]

Under(sensor_id, findings) ==
  [i \in DOMAIN findings |-> [sensor_id |-> sensor_id, finding |-> findings[i]]]

synthesize_missing_sensor(id, policy, comment_path) ==
  LET severity == [skip |-> "info", warn |-> "warn", fail |-> "error"][policy.missing]
      findings == IF policy.missing = "skip" THEN << >>
                  ELSE <<Synthesized(severity, MISSING_RECEIPT, id, None)>>
      reasons  == IF policy.missing = "skip" THEN {} ELSE {"missing_receipt"}
  IN  [summary    |-> [Summary(id, policy, "missing", comment_path, policy.missing,
                               findings, reasons)
                         EXCEPT !.missing_policy_applied = policy.missing],
       highlights |-> Under(id, findings)]

\* Mutant: a receipt that cannot be used leaves no highlight.
UnusableSilently(id, policy, comment_path, code, reason) ==
  [summary    |-> Summary(id, policy, "invalid", comment_path, "fail",
                          <<Synthesized("error", code, id, None)>>, {reason}),
   highlights |-> << >>]

\* Mutant: a receipt that cannot be used is treated by the policy for missing ones.
UnusableAsMissing(id, policy, comment_path, code, reason) ==
  LET findings == <<Synthesized("error", code, id, None)>>
  IN  [summary    |-> [Summary(id, policy, "invalid", comment_path, "fail", findings, {reason})
                         EXCEPT !.missing_policy_applied = policy.missing],
       highlights |-> Under(id, findings)]

(* An unreadable receipt (synthesize_invalid_sensor) and one the schema    *)
(* rejects (synthesize_schema_violation_sensor) differ in code and reason. *)
Unusable(id, policy, comment_path, code, reason) ==
  LET findings == <<Synthesized("error", code, id, None)>>
  IN  [summary    |-> Summary(id, policy, "invalid", comment_path, "fail", findings, {reason}),
       highlights |-> Under(id, findings)]

synthesize_invalid_sensor(id, policy, comment_path) ==
  Unusable(id, policy, comment_path, INVALID_RECEIPT, "invalid_receipt")

synthesize_schema_violation_sensor(id, policy, comment_path) ==
  Unusable(id, policy, comment_path, SCHEMA_VIOLATION, "schema_violation")

(* `file` is 1 for report.json and 2 for comment.md.  cockpitctl shows this *)
(* finding under its own name, not under the sensor's.                     *)
synthesize_path_traversal_highlight(id, file) ==
  Under(CockpitId, <<Synthesized("error", PATH_TRAVERSAL, id, <<2, id, file>>)>>)

synthesize_path_traversal_sensor(id, policy, comment_path) ==
  LET highlights == synthesize_path_traversal_highlight(id, 1)
  IN  [summary    |-> [Summary(id, policy, "missing", comment_path, "fail",
                               <<highlights[1].finding>>, {"path_traversal"})
                         EXCEPT !.policy_outcome = "blocked"],
       highlights |-> highlights]

synthesize_receipt_oversized_sensor(id, policy, comment_path, size) ==
  LET findings == <<Synthesized("error", RECEIPT_OVERSIZED, id, <<3, id, size>>)>>
  IN  [summary    |-> Summary(id, policy, "invalid", comment_path, "fail", findings,
                              {"receipt_oversized"}),
       highlights |-> Under(CockpitId, findings)]

synthesize_receipt_inconsistent(id, reported, computed) ==
  Under(id, <<Synthesized("info", RECEIPT_INCONSISTENT, id,
    <<4, id, reported.info, reported.warn, reported.error,
      computed.info, computed.warn, computed.error>>)>>)

synthesize_sensors_truncated(processed, total_found) ==
  Under(CockpitId, <<Synthesized("warn", SENSORS_TRUNCATED, 0, <<5, processed, total_found>>)>>)

summarize_sensor_report(id, comment_path, policy, report, max_findings) ==
  LET capped     == cap_findings(sort_findings(id, report.findings), max_findings)
      computed   == compute_counts(capped.surfaced)
      consistent == report.counts = computed
  IN  [summary    |-> [Summary(id, policy, "present", comment_path, report.status, capped.surfaced,
                               IF consistent THEN report.reasons
                               ELSE report.reasons \cup {"receipt_inconsistent"})
                         EXCEPT !.truncated = capped.truncated],
       highlights |-> (IF consistent THEN << >>
                       ELSE synthesize_receipt_inconsistent(id, report.counts, computed))
                      \o Under(id, capped.surfaced)]

(***************************************************************************)
(* Across sensors: order, highlights, verdict.                             *)
(***************************************************************************)
policy_of(cfg, id) ==
  IF id \in DOMAIN cfg.sensors THEN cfg.sensors[id] ELSE DefaultSensorPolicy

(* A section named twice in section_order keeps its last place; one that is *)
(* not named goes after all of them.                                       *)
section_rank(cfg, id) ==
  LET section == policy_of(cfg, id).section
      name    == IF section = None THEN OtherSection ELSE section
      places  == {i \in DOMAIN cfg.section_order : cfg.section_order[i] = name}
  IN  IF places = {} THEN Len(cfg.section_order) + 1
      ELSE CHOOSE i \in places : \A j \in places : j <= i

\* Mutant: the order forgets the sections.
SortedByIdOnly(summaries, cfg) ==
  SortByKey(summaries, [i \in DOMAIN summaries |-> <<summaries[i].id>>])

sort_sensor_summaries(summaries, cfg) ==
  SortByKey(summaries,
    [i \in DOMAIN summaries |-> <<section_rank(cfg, summaries[i].id), summaries[i].id>>])

fingerprint_of(h) ==
  IF h.finding.fingerprint # None THEN h.finding.fingerprint
  ELSE derive_fingerprint(h.sensor_id, h.finding)

(* The candidates that survive deduplication: the first of each fingerprint. *)
Deduped(candidates) ==
  {i \in DOMAIN candidates :
     \A j \in 1 .. (i - 1) : fingerprint_of(candidates[j]) # fingerprint_of(candidates[i])}

HighlightKey(h, blocking_ids) ==
  <<severity_rank[h.finding.severity], IF h.sensor_id \in blocking_ids THEN 0 ELSE 1,
    h.sensor_id, h.finding.path, LineKey(h.finding.line), h.finding.code, h.finding.message>>

\* Mutant: the cap is applied before the order.
CappedBeforeSorted(candidates, max_highlights, blocking_ids) ==
  LET kept  == {i \in Deduped(candidates) :
                  Cardinality({j \in Deduped(candidates) : j < i}) < max_highlights}
      order == StableOrder(kept, [i \in kept |-> HighlightKey(candidates[i], blocking_ids)])
  IN  [k \in DOMAIN order |->
        [candidates[order[k]] EXCEPT !.finding.fingerprint = fingerprint_of(candidates[order[k]])]]

select_highlights(candidates, max_highlights, blocking_ids) ==
  LET kept  == Deduped(candidates)
      order == StableOrder(kept, [i \in kept |-> HighlightKey(candidates[i], blocking_ids)])
  IN  [k \in DOMAIN Truncate(order, max_highlights) |->
        [candidates[order[k]] EXCEPT !.finding.fingerprint = fingerprint_of(candidates[order[k]])]]

\* Mutant: warn_is_fail is forgotten.
StatusAlone(cfg, s) == s.status

(* The status a blocking sensor counts with. *)
effective_status(cfg, s) ==
  IF cfg.warn_is_fail /\ s.status = "warn" THEN "fail" ELSE s.status

\* Mutant: only blocking sensors are counted.
BlockingTotal(summaries, severity) ==
  Cardinality(UNION {{i} \X (1 .. summaries[i].counts[severity]) :
                       i \in {j \in DOMAIN summaries : summaries[j].blocking}})

(* The sum of one count over all summaries, as the size of a disjoint     *)
(* union.  (The additions saturate at u64::MAX, which counts of lists in   *)
(* memory do not reach.)                                                   *)
Total(summaries, severity) ==
  Cardinality(UNION {{i} \X (1 .. summaries[i].counts[severity]) : i \in DOMAIN summaries})

overall_verdict(summaries, cfg) ==
  LET blocking == {i \in DOMAIN summaries : summaries[i].blocking}
      statuses == {"pass"} \cup {effective_status(cfg, summaries[i]) : i \in blocking}
  IN  [status  |-> CHOOSE w \in statuses :
                     \A t \in statuses : verdict_status_rank[w] <= verdict_status_rank[t],
       counts  |-> [info |-> Total(summaries, "info"), warn |-> Total(summaries, "warn"),
                    error |-> Total(summaries, "error"), suppressed |-> 0],
       reasons |-> IF cfg.warn_is_fail /\ \E i \in blocking : summaries[i].status = "warn"
                   THEN {"warn_is_fail"} ELSE {}]

(***************************************************************************)
(* What the report tells of the policy it was judged under (and what is    *)
(* signed): the sensors in the order of their ids.  schema_validation is   *)
(* not among it.  (A sensor's repro hint, a text no rule reads, is left     *)
(* out of the model.)                                                      *)
(***************************************************************************)
\* Mutant: the snapshot holds the sensors that block.
SnapshotOfBlocking(cfg) ==
  LET ids == Ascending({id \in DOMAIN cfg.sensors : cfg.sensors[id].blocking})
  IN  [warn_is_fail            |-> cfg.warn_is_fail,
       max_highlights          |-> cfg.max_highlights,
       max_per_sensor_findings |-> cfg.max_per_sensor_findings,
       max_annotations         |-> cfg.max_annotations,
       section_order           |-> cfg.section_order,
       sensors                 |-> [k \in DOMAIN ids |-> [id |-> ids[k], policy |-> cfg.sensors[ids[k]]]]]

snapshot_policy(cfg) ==
  LET ids == Ascending(DOMAIN cfg.sensors)
  IN  [warn_is_fail            |-> cfg.warn_is_fail,
       max_highlights          |-> cfg.max_highlights,
       max_per_sensor_findings |-> cfg.max_per_sensor_findings,
       max_annotations         |-> cfg.max_annotations,
       section_order           |-> cfg.section_order,
       sensors                 |-> [k \in DOMAIN ids |-> [id |-> ids[k], policy |-> cfg.sensors[ids[k]]]]]
=============================================================================
