------------------------------- MODULE Render -------------------------------
(***************************************************************************)
(* What crates/cockpitctl-render and crates/cockpitctl-sarif show of a     *)
(* report: the pull request comment, the annotations of a GitHub workflow, *)
(* and the SARIF log.  Layout is left out; what is kept is which sensors   *)
(* and findings appear, where, in which order, and what says that some do  *)
(* not.  A report is a record with sensors, highlights and data; cfg holds *)
(* sensors, section_order, max_highlights and max_annotations.             *)
(***************************************************************************)
EXTENDS Domain

(***************************************************************************)
(* Annotations.                                                            *)
(***************************************************************************)

(* Like HighlightKey, but the derived order of Option<u32> puts a finding  *)
(* without a line before the others instead of after them.  (It would also *)
(* tell a finding without a path from one whose path is empty, which the   *)
(* model does not hold.)                                                   *)
annotation_sort_key(h, blocking_ids) ==
  <<severity_rank[h.finding.severity], IF h.sensor_id \in blocking_ids THEN 0 ELSE 1,
    h.sensor_id, h.finding.path, IF h.finding.line = None THEN 0 ELSE h.finding.line + 1,
    h.finding.code, h.finding.message>>

\* Mutant: the annotations are ordered by line alone.
AnnotationsByLine(highlights, max, blocking_ids) ==
  [shown       |-> Truncate(SortByKey(highlights,
                     [i \in DOMAIN highlights |-> <<annotation_sort_key(highlights[i], blocking_ids)[5]>>]), max),
   truncated   |-> Len(highlights) > max,
   total_count |-> Len(highlights)]

render_annotations(highlights, max, blocking_ids) ==
  [shown       |-> Truncate(SortByKey(highlights,
                     [i \in DOMAIN highlights |-> annotation_sort_key(highlights[i], blocking_ids)]), max),
   truncated   |-> Len(highlights) > max,
   total_count |-> Len(highlights)]

gh_level == [error |-> "error", warn |-> "warning", info |-> "notice"]

(* One workflow command per annotation; the cap is not mentioned. *)
render_github_annotations(highlights, max, blocking_ids) ==
  LET shown == render_annotations(highlights, max, blocking_ids).shown
  IN  [k \in DOMAIN shown |->
        [level |-> gh_level[shown[k].finding.severity], sensor_id |-> shown[k].sensor_id,
         code |-> shown[k].finding.code, message |-> shown[k].finding.message,
         path |-> shown[k].finding.path, line |-> shown[k].finding.line]]

(***************************************************************************)
(* The comment.                                                            *)
(***************************************************************************)
section_of(cfg, id) ==
  LET section == policy_of(cfg, id).section IN IF section = None THEN OtherSection ELSE section

SummaryRow(s) ==
  [id |-> s.id, status |-> s.status, blocking |-> s.blocking, comment |-> s.comment_path,
   truncated |-> s.truncated]

\* Mutant: the headings come in the order of the map that groups the sensors.
SectionsByName(sensors, cfg) ==
  LET names == Ascending({section_of(cfg, sensors[i].id) : i \in DOMAIN sensors})
      ids == [i \in DOMAIN sensors |-> sensors[i].id]
  IN  [k \in DOMAIN names |->
        [name |-> names[k],
         ids  |-> Pick(ids, {i \in DOMAIN sensors : section_of(cfg, sensors[i].id) = names[k]})]]

(* The sensors under the headings of section_order.  A heading without     *)
(* sensors is left out, one that is named twice appears twice, and a       *)
(* sensor whose section is not named appears under none.                   *)
Sections(sensors, cfg) ==
  LET Members(name) == {i \in DOMAIN sensors : section_of(cfg, sensors[i].id) = name}
      ids == [i \in DOMAIN sensors |-> sensors[i].id]
      listed == {p \in DOMAIN cfg.section_order : Members(cfg.section_order[p]) # {}}
  IN  Pick([p \in DOMAIN cfg.section_order |->
             [name |-> cfg.section_order[p], ids |-> Pick(ids, Members(cfg.section_order[p]))]], listed)

(* cap: the "showing up to" line, which only a list that is not empty has. *)
render_comment(report, cfg) ==
  LET blocking_ids == {report.sensors[i].id : i \in {j \in DOMAIN report.sensors : report.sensors[j].blocking}}
  IN  [summary     |-> [i \in DOMAIN report.sensors |-> SummaryRow(report.sensors[i])],
       cap         |-> IF report.highlights = << >> THEN None ELSE cfg.max_highlights,
       highlights  |-> report.highlights,
       annotations |-> render_annotations(report.highlights, cfg.max_annotations, blocking_ids),
       evidence    |-> report.data,
       sections    |-> Sections(report.sensors, cfg)]

(***************************************************************************)
(* SARIF.                                                                  *)
(***************************************************************************)
severity_to_sarif_level == [error |-> "error", warn |-> "warning", info |-> "note"]

SarifRule == [id : Nat, sensor_id : Nat]  \* short_description names the sensor

SarifResult ==
  [rule_id : Nat, level : {"error", "warning", "note"}, message : Nat, uri : Nat,
   start_line : (0 .. U32Max) \cup {None}, fingerprint : Fingerprint \cup {None}]

SarifLog == [rules : Seq(SarifRule), results : Seq(SarifResult)]

(* A location without a path is dropped, its line with it.  (The 0 of a     *)
(* path that is there but empty would give a location with an empty uri.)  *)
highlight_to_sarif_result(h) ==
  [rule_id |-> h.finding.code, level |-> severity_to_sarif_level[h.finding.severity],
   message |-> h.finding.message, uri |-> h.finding.path,
   start_line |-> IF h.finding.path = 0 THEN None ELSE h.finding.line,
   fingerprint |-> h.finding.fingerprint]

(* One rule per code, described by the first sensor that used it, and one   *)
(* result per highlight.                                                   *)
cockpit_report_to_sarif(report) ==
  LET codes == Ascending({report.highlights[i].finding.code : i \in DOMAIN report.highlights})
      First(code) == CHOOSE i \in DOMAIN report.highlights :
                       /\ report.highlights[i].finding.code = code
                       /\ \A j \in 1 .. (i - 1) : report.highlights[j].finding.code # code
  IN  [rules   |-> [k \in DOMAIN codes |-> [id |-> codes[k], sensor_id |-> report.highlights[First(codes[k])].sensor_id]],
       results |-> [i \in DOMAIN report.highlights |-> highlight_to_sarif_result(report.highlights[i])]]
=============================================================================
