-------------------------------- MODULE Trend --------------------------------
(***************************************************************************)
(* compute_trend (crates/cockpitctl-domain-trend): what changed between a  *)
(* baseline report and the current one, as far as their highlights and     *)
(* counts tell; and when render_trend_section calls it no change.          *)
(***************************************************************************)
EXTENDS Integers, CockpitTypes

(* A finding is known by its fingerprint; a report may also hold findings   *)
(* without one, which are known by sensor, code and place.                 *)
finding_to_key(h) ==
  <<h.sensor_id, h.finding.code, h.finding.path, IF h.finding.line = None THEN 0 ELSE h.finding.line>>

\* Mutant: two findings are one if they stand at one place.
InPlace(h, highlights) ==
  \E j \in DOMAIN highlights : finding_to_key(highlights[j]) = finding_to_key(h)

(* h is matched in the other report's highlights: contains_key of the index *)
(* by fingerprint, or, for an h without one, of the index by place.         *)
MatchedIn(h, highlights) ==
  IF h.finding.fingerprint # None
  THEN \E j \in DOMAIN highlights : highlights[j].finding.fingerprint = h.finding.fingerprint
  ELSE \E j \in DOMAIN highlights : finding_to_key(highlights[j]) = finding_to_key(h)

(* The highlights of one report that the other does not have, in order. *)
Unmatched(highlights, others) ==
  Pick(highlights, {i \in DOMAIN highlights : ~MatchedIn(highlights[i], others)})

SensorIds(report) == {report.sensors[i].id : i \in DOMAIN report.sensors}

Delta(baseline, current, severity) ==
  current.verdict.counts[severity] - baseline.verdict.counts[severity]

(* What compute_trend returns: a change of the verdict is a pair. *)
TrendDelta ==
  [verdict_change  : (VerdictStatus \X VerdictStatus) \cup {None},
   count_deltas    : [Severity -> Int],
   new_findings    : Seq(Highlight),
   fixed_findings  : Seq(Highlight),
   sensors_added   : Seq(Nat),
   sensors_removed : Seq(Nat)]

\* Mutant: the two reports are exchanged.
ComparedBackwards(baseline, current) ==
  [verdict_change  |-> IF baseline.verdict.status # current.verdict.status
                       THEN <<baseline.verdict.status, current.verdict.status>> ELSE None,
   count_deltas    |-> [severity \in Severity |-> Delta(baseline, current, severity)],
   new_findings    |-> Unmatched(baseline.highlights, current.highlights),
   fixed_findings  |-> Unmatched(current.highlights, baseline.highlights),
   sensors_added   |-> Ascending(SensorIds(current) \ SensorIds(baseline)),
   sensors_removed |-> Ascending(SensorIds(baseline) \ SensorIds(current))]

compute_trend(baseline, current) ==
  [verdict_change  |-> IF baseline.verdict.status # current.verdict.status
                       THEN <<baseline.verdict.status, current.verdict.status>> ELSE None,
   count_deltas    |-> [severity \in Severity |-> Delta(baseline, current, severity)],
   new_findings    |-> Unmatched(current.highlights, baseline.highlights),
   fixed_findings  |-> Unmatched(baseline.highlights, current.highlights),
   sensors_added   |-> Ascending(SensorIds(current) \ SensorIds(baseline)),
   sensors_removed |-> Ascending(SensorIds(baseline) \ SensorIds(current))]

\* Mutant: sensors that come and go do not count as a change.
NoFindingsChanged(trend) ==
  /\ trend.verdict_change = None
  /\ trend.new_findings = << >> /\ trend.fixed_findings = << >>
  /\ \A severity \in Severity : trend.count_deltas[severity] = 0

(* The line "No changes from baseline." *)
SaysNoChanges(trend) ==
  /\ trend.verdict_change = None
  /\ trend.new_findings = << >> /\ trend.fixed_findings = << >>
  /\ trend.sensors_added = << >> /\ trend.sensors_removed = << >>
  /\ \A severity \in Severity : trend.count_deltas[severity] = 0
=============================================================================
