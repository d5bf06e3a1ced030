------------------------------- MODULE History -------------------------------
(***************************************************************************)
(* One CI job of a repository after another: what the reports, comments,   *)
(* annotations, SARIF logs and trends of cockpitctl tell a reader about    *)
(* findings that come, move, change and go.                                *)
(*                                                                         *)
(* The sensors write any receipts, somebody edits cockpit.toml, and the    *)
(* job ingests them (module Ingest has the steps of that; here it is one)  *)
(* and compares with the report kept as --baseline, if there is one.       *)
(***************************************************************************)
EXTENDS Render, Trend, SequencesExt

CONSTANTS
  Sensors,   \* valid sensor ids
  Receipts,  \* the parsed receipts a sensor may write
  Configs    \* the contents of cockpit.toml

SensorReport ==
  [status : VerdictStatus, counts : VerdictCounts, reasons : SUBSET SensorReasons, findings : Seq(Finding)]

ASSUME HistoryAssumption ==
  /\ Sensors \subseteq Nat /\ IsFiniteSet(Sensors) /\ CockpitId \notin Sensors
  /\ Receipts \subseteq SensorReport /\ None \notin Receipts
  /\ \A c \in Configs :
       /\ DOMAIN c.sensors \subseteq Sensors /\ c.sensors \in [DOMAIN c.sensors -> SensorPolicy]
       /\ c.warn_is_fail \in BOOLEAN /\ c.section_order \in Seq(Nat)
       /\ {c.max_highlights, c.max_per_sensor_findings, c.max_annotations} \subseteq Nat

Report ==
  [verdict    : [status : VerdictStatus, counts : VerdictCounts, reasons : SUBSET Reason],
   sensors    : Seq(SensorSummary),
   highlights : Seq(Highlight),
   policy     : {snapshot_policy(c) : c \in Configs},
   data       : {<< >>}]

Outputs ==
  [comment     : [summary     : Seq([id : Nat, status : VerdictStatus, blocking : BOOLEAN,
                                     comment : BOOLEAN, truncated : BOOLEAN]),
                  cap         : Nat \cup {None},
                  highlights  : Seq(Highlight),
                  annotations : [shown : Seq(Highlight), truncated : BOOLEAN, total_count : Nat],
                  evidence    : {<< >>},
                  sections    : Seq([name : Nat, ids : Seq(Nat)])],
   annotations : Seq([level : {"error", "warning", "notice"}, sensor_id : Nat, code : Nat,
                      message : Nat, path : Nat, line : (0 .. U32Max) \cup {None}]),
   sarif       : SarifLog,
   trend       : TrendDelta \cup {None}]

(* What is absent is no report, no output and no change of the verdict.    *)
ASSUME AbsentAssumption ==
  None \notin Report /\ None \notin Outputs /\ None \notin VerdictStatus \X VerdictStatus

VARIABLES
  receipts,  \* what the job found: a receipt per sensor, or None
  cfg,       \* the configuration it loaded, None between jobs
  report,    \* its CockpitReport, None between jobs
  outputs,   \* its comment, annotations, SARIF log and trend, None between jobs
  baseline   \* the report kept, or None

vars == <<receipts, cfg, report, outputs, baseline>>

NoReceipts == [id \in Sensors |-> None]

Init ==
  /\ receipts = NoReceipts /\ cfg = None /\ report = None /\ outputs = None
  /\ baseline = None

(***************************************************************************)
(* One job.                                                                *)
(***************************************************************************)

(* The sensors of cockpit.toml; if it declares none, those with a receipt. *)
Expected(r, c) == IF DOMAIN c.sensors # {} THEN DOMAIN c.sensors ELSE {id \in Sensors : r[id] # None}

Judged(r, c) ==
  LET ids == Ascending(Expected(r, c))
  IN  [k \in DOMAIN ids |->
        IF r[ids[k]] = None
        THEN synthesize_missing_sensor(ids[k], policy_of(c, ids[k]), FALSE)
        ELSE summarize_sensor_report(ids[k], FALSE, policy_of(c, ids[k]), r[ids[k]],
                                     c.max_per_sensor_findings)]

build_cockpit_report(r, c) ==
  LET judged     == Judged(r, c)
      sensors    == sort_sensor_summaries([k \in DOMAIN judged |-> judged[k].summary], c)
      blocking   == {sensors[i].id : i \in {j \in DOMAIN sensors : sensors[j].blocking}}
      candidates == FlattenSeq([k \in DOMAIN judged |-> judged[k].highlights])
  IN  [verdict    |-> overall_verdict(sensors, c),
       sensors    |-> sensors,
       highlights |-> select_highlights(candidates, c.max_highlights, blocking),
       policy     |-> snapshot_policy(c),
       data       |-> << >>]

BlockingIds(rep) == {rep.sensors[i].id : i \in {j \in DOMAIN rep.sensors : rep.sensors[j].blocking}}

CiRun ==
  /\ report = None
  /\ receipts' \in [Sensors -> Receipts \cup {None}]
  /\ cfg' \in Configs
  /\ report' = build_cockpit_report(receipts', cfg')
  /\ outputs' = [comment     |-> render_comment(report', cfg'),
                 annotations |-> render_github_annotations(report'.highlights, cfg'.max_annotations,
                                                           BlockingIds(report')),
                 sarif       |-> cockpit_report_to_sarif(report'),
                 trend       |-> IF baseline = None THEN None
                                 ELSE compute_trend(baseline, report')]
  /\ UNCHANGED baseline

\* Mutant: the outputs of the last job are still there when the next one starts.
OutputsStay(kept) ==
  /\ report # None
  /\ baseline' = IF kept THEN report ELSE baseline
  /\ receipts' = NoReceipts /\ cfg' = None /\ report' = None /\ UNCHANGED outputs

(* The job ends; its report.json may become the baseline of the next ones. *)
JobEnds(kept) ==
  /\ report # None
  /\ baseline' = IF kept THEN report ELSE baseline
  /\ receipts' = NoReceipts /\ cfg' = None /\ report' = None /\ outputs' = None

KeepAsBaseline == JobEnds(TRUE)
Discard == JobEnds(FALSE)

Next == CiRun \/ KeepAsBaseline \/ Discard

Spec == Init /\ [][Next]_vars

(***************************************************************************)
(* Properties.                                                             *)
(***************************************************************************)
(* Type invariant: between jobs nothing is left but the baseline. *)
TypeOK ==
  /\ receipts \in [Sensors -> Receipts \cup {None}]
  /\ cfg \in Configs \cup {None}
  /\ report \in Report \cup {None}
  /\ report = None <=> outputs = None
  /\ outputs \in Outputs \cup {None}
  /\ report = None => receipts = NoReceipts /\ cfg = None
  /\ baseline \in Report \cup {None}

Compared == report # None /\ baseline # None

Fps(highlights) == {highlights[i].finding.fingerprint : i \in DOMAIN highlights}

(* The trend is an account that balances: what the report shows is what     *)
(* the baseline showed, less what is called fixed, plus what is called     *)
(* new; and nothing is new or fixed twice.                                 *)
TrendAccounts ==
  Compared =>
    LET trend == outputs.trend
        before == baseline.highlights
        new == {trend.new_findings[i].finding.fingerprint : i \in DOMAIN trend.new_findings}
        fixed == {trend.fixed_findings[i].finding.fingerprint : i \in DOMAIN trend.fixed_findings}
    IN  /\ Fps(report.highlights) = (Fps(before) \ fixed) \cup new
        /\ fixed \subseteq Fps(before) /\ new \cap Fps(before) = {}
        /\ Cardinality(new) = Len(trend.new_findings) /\ Cardinality(fixed) = Len(trend.fixed_findings)

(* The job read a receipt with a finding known by this fingerprint. *)
FoundNow(fp) ==
  \E id \in Expected(receipts, cfg) :
    /\ receipts[id] # None
    /\ \E i \in DOMAIN receipts[id].findings :
         fingerprint_of([sensor_id |-> id, finding |-> receipts[id].findings[i]]) = fp

(* A cap may have kept one of the sensors' findings out of this report. *)
Cut(rep, max) ==
  \/ Len(rep.highlights) >= max
  \/ \E i \in DOMAIN rep.sensors : rep.sensors[i].truncated

(* Only the caps make the trend lie: a finding it calls fixed, which is     *)
(* still in a receipt the job read, was cut off the report by              *)
(* max_highlights or max_per_sensor_findings.                              *)
FixedIsGone ==
  Compared =>
    \A i \in DOMAIN outputs.trend.fixed_findings :
      \/ ~FoundNow(outputs.trend.fixed_findings[i].finding.fingerprint)
      \/ Cut(report, cfg.max_highlights)

(* "No changes from baseline." is only said of reports that show the same   *)
(* findings of the same sensors, count the same and judge the same.        *)
QuietMeansSame ==
  Compared /\ SaysNoChanges(outputs.trend) =>
    /\ Fps(report.highlights) = Fps(baseline.highlights)
    /\ SensorIds(report) = SensorIds(baseline)
    /\ report.verdict.status = baseline.verdict.status
    /\ report.verdict.counts = baseline.verdict.counts

(* Nothing disappears unannounced: a finding of a receipt the job read that *)
(* the comment does not show (under its fingerprint) is one of a sensor    *)
(* its table marks as truncated, or one the comment's "showing up to" line *)
(* accounts for.  Only max_highlights = 0 hides findings without a word.   *)
ReductionIsAnnounced ==
  report # None /\ cfg.max_highlights > 0 =>
    LET comment == outputs.comment
    IN  \A id \in Expected(receipts, cfg) :
          receipts[id] # None =>
            \A i \in DOMAIN receipts[id].findings :
              \/ fingerprint_of([sensor_id |-> id, finding |-> receipts[id].findings[i]])
                   \in Fps(comment.highlights)
              \/ \E k \in DOMAIN comment.summary : comment.summary[k].id = id /\ comment.summary[k].truncated
              \/ comment.cap = Len(comment.highlights)

(* The sections, which render groups for itself, follow the order of the    *)
(* table, which domain sorted: read one after the other they name the      *)
(* table's sensors up to the ones whose section is not listed.             *)
SectionsFollowTheSummary ==
  report # None /\ IsInjective(cfg.section_order) =>
    LET sections == outputs.comment.sections
        listed == FlattenSeq([k \in DOMAIN sections |-> sections[k].ids])
        table == [k \in DOMAIN report.sensors |-> report.sensors[k].id]
    IN  listed = SubSeq(table, 1, Len(listed))

(* The annotations of the workflow and the SARIF log speak of the same      *)
(* findings at the same level: each annotation has its result, under a     *)
(* rule the log describes once.  Only max_annotations keeps a result from  *)
(* having its annotation, and it cuts from the bottom: what is left out is *)
(* not more severe than what is shown, and at one severity the findings of *)
(* blocking sensors come first.                                            *)
OutputsAgree ==
  report # None =>
    LET notes == outputs.annotations
        sarif == outputs.sarif
        shown == outputs.comment.annotations.shown
        dropped == {i \in DOMAIN report.highlights : report.highlights[i] \notin {shown[k] : k \in DOMAIN shown}}
        SameFinding(note, result) ==
          /\ result.rule_id = note.code /\ result.message = note.message /\ result.uri = note.path
          /\ <<note.level, result.level>> \in {<<"error", "error">>, <<"warning", "warning">>, <<"notice", "note">>}
        Weight(h) == 2 * severity_rank[h.finding.severity]
                       + (IF h.sensor_id \in BlockingIds(report) THEN 0 ELSE 1)
    IN  /\ \A n \in DOMAIN notes : \E k \in DOMAIN sarif.results : SameFinding(notes[n], sarif.results[k])
        /\ Len(notes) < cfg.max_annotations => Len(notes) = Len(sarif.results)
        /\ \A k \in DOMAIN sarif.results :
             Cardinality({r \in DOMAIN sarif.rules : sarif.rules[r].id = sarif.results[k].rule_id}) = 1
        /\ \A k \in DOMAIN shown, i \in dropped : Weight(shown[k]) <= Weight(report.highlights[i])

(* The configuration a reader of the report can put together from its       *)
(* snapshot of the policy.                                                 *)
Attested(policy) ==
  [warn_is_fail  |-> policy.warn_is_fail,
   section_order |-> policy.section_order,
   sensors       |-> [id \in {policy.sensors[k].id : k \in DOMAIN policy.sensors} |->
                       policy.sensors[CHOOSE k \in DOMAIN policy.sensors : policy.sensors[k].id = id].policy]]

(* A report explains itself: under the policy it names (the one that is     *)
(* signed) its own sensors give its verdict and its order, whichever of    *)
(* them are declared, and a sensor that is missing or blocks is one that   *)
(* policy says is.                                                         *)
ReportExplainsItself ==
  report # None =>
    LET policy == Attested(report.policy)
    IN  /\ overall_verdict(report.sensors, policy) = report.verdict
        /\ sort_sensor_summaries(report.sensors, policy) = report.sensors
        /\ Len(report.highlights) <= report.policy.max_highlights
        /\ \A i \in DOMAIN report.sensors :
             LET s == report.sensors[i]
             IN  /\ s.blocking = policy_of(policy, s.id).blocking
                 /\ s.presence = "missing" => s.missing_policy_applied = policy_of(policy, s.id).missing
=============================================================================
