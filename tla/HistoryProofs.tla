---------------------------- MODULE HistoryProofs ----------------------------
(***************************************************************************)
(* What the reports, comments, annotations, SARIF logs and trends of one   *)
(* CI job after another tell a reader is true, for every receipt, every    *)
(* configuration and every baseline.                                       *)
(***************************************************************************)
EXTENDS History, DomainProofs

(***************************************************************************)
(* The report.                                                             *)
(***************************************************************************)
ReceiptMaps == [Sensors -> Receipts \cup {None}]

LEMMA ConfigTyped ==
  ASSUME NEW c \in Configs
  PROVE  /\ DOMAIN c.sensors \subseteq Sensors /\ c.sensors \in [DOMAIN c.sensors -> SensorPolicy]
         /\ c.section_order \in Seq(Nat) /\ c.warn_is_fail \in BOOLEAN
         /\ c.max_highlights \in Nat /\ c.max_per_sensor_findings \in Nat /\ c.max_annotations \in Nat
         /\ IsFiniteSet(DOMAIN c.sensors) /\ DOMAIN c.sensors \in SUBSET Nat
BY HistoryAssumption, FS_Subset

LEMMA ReceiptTyped ==
  ASSUME NEW r \in ReceiptMaps, NEW id \in Sensors, r[id] # None
  PROVE  /\ r[id].status \in VerdictStatus /\ r[id].counts \in VerdictCounts
         /\ r[id].reasons \in SUBSET Reason /\ r[id].findings \in Seq(Finding)
<1>1. r[id] \in SensorReport
  BY HistoryAssumption DEF ReceiptMaps
<1> QED
  BY <1>1 DEF SensorReport, Reason

(* The sensors a job expects.                                              *)
LEMMA ExpectedIds ==
  ASSUME NEW r \in ReceiptMaps, NEW c \in Configs
  PROVE  LET ids == Ascending(Expected(r, c)) IN
         /\ Expected(r, c) \in SUBSET Sensors /\ Expected(r, c) \in SUBSET Nat
         /\ ids \in Seq(Expected(r, c))
         /\ \A k \in DOMAIN ids : ids[k] \in Expected(r, c)
         /\ \A id \in Expected(r, c) : \E k \in DOMAIN ids : ids[k] = id
<1>1. Expected(r, c) \in SUBSET Sensors
  BY ConfigTyped DEF Expected
<1>2. IsFiniteSet(Expected(r, c)) /\ Expected(r, c) \in SUBSET Nat
  BY <1>1, HistoryAssumption, FS_Subset
<1>3. LET ids == Ascending(Expected(r, c)) IN
        ids \in Seq(Expected(r, c)) /\ \A id \in Expected(r, c) : \E k \in DOMAIN ids : ids[k] = id
  BY <1>2, AscendingOrder
<1> QED
  BY <1>1, <1>2, <1>3

(* What the job makes of one expected sensor.                              *)
JudgedOne(r, c, id) ==
  IF r[id] = None
  THEN synthesize_missing_sensor(id, policy_of(c, id), FALSE)
  ELSE summarize_sensor_report(id, FALSE, policy_of(c, id), r[id], c.max_per_sensor_findings)

LEMMA JudgedOneTyped ==
  ASSUME NEW r \in ReceiptMaps, NEW c \in Configs, NEW id \in Sensors
  PROVE  JudgedOne(r, c, id) \in Outcome
<1>1. id \in Nat /\ policy_of(c, id) \in SensorPolicy /\ c.max_per_sensor_findings \in Nat
  BY HistoryAssumption, ConfigTyped, PolicyOfType
<1>2. CASE r[id] = None
  BY <1>1, <1>2, MissingType DEF JudgedOne
<1>3. CASE r[id] # None
  <2>1. /\ r[id].status \in VerdictStatus /\ r[id].counts \in VerdictCounts
        /\ r[id].reasons \in SUBSET Reason /\ r[id].findings \in Seq(Finding)
    BY <1>3, ReceiptTyped
  <2>2. summarize_sensor_report(id, FALSE, policy_of(c, id), r[id], c.max_per_sensor_findings) \in Outcome
    BY <1>1, <2>1, ReportOutcomeType
  <2> QED
    BY <1>3, <2>2 DEF JudgedOne
<1> QED
  BY <1>2, <1>3

LEMMA JudgedTyped ==
  ASSUME NEW r \in ReceiptMaps, NEW c \in Configs
  PROVE  /\ Judged(r, c) \in Seq(Outcome)
         /\ \A k \in DOMAIN Judged(r, c) : \E id \in Expected(r, c) : Judged(r, c)[k] = JudgedOne(r, c, id)
         /\ \A id \in Expected(r, c) : \E k \in DOMAIN Judged(r, c) : Judged(r, c)[k] = JudgedOne(r, c, id)
<1> DEFINE ids == Ascending(Expected(r, c))
<1>1. /\ Expected(r, c) \in SUBSET Sensors /\ ids \in Seq(Expected(r, c))
      /\ \A k \in DOMAIN ids : ids[k] \in Expected(r, c)
      /\ \A id \in Expected(r, c) : \E k \in DOMAIN ids : ids[k] = id
  BY ExpectedIds
<1>2. Judged(r, c) = [k \in DOMAIN ids |-> JudgedOne(r, c, ids[k])]
  BY DEF Judged, JudgedOne
<1> HIDE DEF ids
<1>3. \A k \in DOMAIN ids : JudgedOne(r, c, ids[k]) \in Outcome
  BY <1>1, JudgedOneTyped
<1>4. DOMAIN ids = 1 .. Len(ids) /\ Len(ids) \in Nat
  BY <1>1
<1>5. Judged(r, c) \in Seq(Outcome)
  BY <1>2, <1>3, <1>4
<1> QED
  BY <1>1, <1>2, <1>5

(* The candidates, the table and the verdict of a report.                  *)
Summaries(r, c) == [k \in DOMAIN Judged(r, c) |-> Judged(r, c)[k].summary]
Candidates(r, c) == FlattenSeq([k \in DOMAIN Judged(r, c) |-> Judged(r, c)[k].highlights])
Table(r, c) == sort_sensor_summaries(Summaries(r, c), c)

LEMMA ReportIs ==
  ASSUME NEW r, NEW c
  PROVE  LET rep == build_cockpit_report(r, c) IN
         /\ rep = [verdict |-> overall_verdict(Table(r, c), c), sensors |-> Table(r, c),
                   highlights |-> select_highlights(Candidates(r, c), c.max_highlights,
                                    {Table(r, c)[i].id : i \in {j \in DOMAIN Table(r, c) : Table(r, c)[j].blocking}}),
                   policy |-> snapshot_policy(c), data |-> << >>]
         /\ rep.sensors = Table(r, c) /\ rep.verdict = overall_verdict(Table(r, c), c)
         /\ rep.highlights = select_highlights(Candidates(r, c), c.max_highlights, BlockingIds(rep))
         /\ rep.policy = snapshot_policy(c) /\ rep.data = << >>
BY DEF build_cockpit_report, Table, Summaries, Candidates, BlockingIds

LEMMA PartsTyped ==
  ASSUME NEW r \in ReceiptMaps, NEW c \in Configs
  PROVE  /\ Summaries(r, c) \in Seq(SensorSummary) /\ Table(r, c) \in Seq(SensorSummary)
         /\ Candidates(r, c) \in Seq(Highlight)
         /\ \A k \in DOMAIN Judged(r, c) : \E i \in DOMAIN Table(r, c) : Table(r, c)[i] = Judged(r, c)[k].summary
         /\ \A i \in DOMAIN Table(r, c) : \E k \in DOMAIN Judged(r, c) : Table(r, c)[i] = Judged(r, c)[k].summary
         /\ \A k \in DOMAIN Judged(r, c) : \A i \in DOMAIN Judged(r, c)[k].highlights :
              \E j \in DOMAIN Candidates(r, c) : Candidates(r, c)[j] = Judged(r, c)[k].highlights[i]
<1> DEFINE judged == Judged(r, c)
           n == Len(judged)
           lists == [k \in DOMAIN judged |-> judged[k].highlights]
           summaries == Summaries(r, c)
           sorted == Table(r, c)
<1>1. n \in Nat /\ DOMAIN judged = 1 .. n /\ \A k \in 1 .. n : judged[k] \in Outcome
  BY JudgedTyped
<1>2. \A k \in 1 .. n : judged[k].summary \in SensorSummary /\ judged[k].highlights \in Seq(Highlight)
  BY <1>1 DEF Outcome
<1>3. summaries \in Seq(SensorSummary) /\ DOMAIN summaries = 1 .. n
  BY <1>1, <1>2 DEF Summaries
<1>4. lists \in Seq(Seq(Highlight)) /\ DOMAIN lists = 1 .. n
  BY <1>1, <1>2
<1>5. \A k \in 1 .. n : summaries[k] = judged[k].summary /\ lists[k] = judged[k].highlights
  BY <1>1 DEF Summaries
<1>6. Candidates(r, c) = FlattenSeq(lists)
  BY DEF Candidates
<1>7. sorted = sort_sensor_summaries(summaries, c)
  BY DEF Table
<1> HIDE DEF judged, n, lists, summaries, sorted
<1>8. /\ FlattenSeq(lists) \in Seq(Highlight)
      /\ \A k \in 1 .. n : \A i \in DOMAIN lists[k] :
           \E j \in DOMAIN FlattenSeq(lists) : FlattenSeq(lists)[j] = lists[k][i]
  <2>1. /\ FlattenSeq(lists) \in Seq(Highlight)
        /\ \A k \in DOMAIN lists : \A i \in DOMAIN lists[k] :
             \E j \in DOMAIN FlattenSeq(lists) : FlattenSeq(lists)[j] = lists[k][i]
    BY <1>4, FlattenHolds, Zenon
  <2> QED
    BY <1>4, <2>1
<1>9. c.section_order \in Seq(Nat)
  BY ConfigTyped
<1>10. /\ sorted \in Seq(SensorSummary)
       /\ \E p \in Bijection(DOMAIN summaries, DOMAIN summaries) : sorted = [k \in DOMAIN summaries |-> summaries[p[k]]]
  BY <1>3, <1>7, <1>9, SortSummariesSorts
<1>11. PICK p \in Bijection(DOMAIN summaries, DOMAIN summaries) : sorted = [k \in DOMAIN summaries |-> summaries[p[k]]]
  BY <1>10
<1>12. /\ p \in [DOMAIN summaries -> DOMAIN summaries]
       /\ \A k \in DOMAIN summaries : \E i \in DOMAIN summaries : p[i] = k
  BY Fun_BijectionProperties
<1>13. /\ \A k \in 1 .. n : \E i \in DOMAIN sorted : sorted[i] = judged[k].summary
       /\ \A i \in DOMAIN sorted : \E k \in 1 .. n : sorted[i] = judged[k].summary
  <2>1. DOMAIN sorted = 1 .. n /\ \A i \in 1 .. n : sorted[i] = summaries[p[i]] /\ p[i] \in 1 .. n
    BY <1>3, <1>11, <1>12
  <2>2. \A i \in 1 .. n : sorted[i] = judged[p[i]].summary /\ p[i] \in 1 .. n
    BY <1>5, <2>1
  <2>3. \A k \in 1 .. n : \E i \in 1 .. n : p[i] = k
    BY <1>3, <1>12
  <2>4. \A k \in 1 .. n : \E i \in 1 .. n : sorted[i] = judged[k].summary
    <3> TAKE k \in 1 .. n
    <3>1. PICK i \in 1 .. n : p[i] = k
      BY <2>3
    <3>2. sorted[i] = judged[k].summary
      BY <2>2, <3>1
    <3> QED
      BY <3>2
  <2> QED
    BY <2>1, <2>2, <2>4
<1>14. \A k \in 1 .. n : \A i \in DOMAIN judged[k].highlights :
         \E j \in DOMAIN Candidates(r, c) : Candidates(r, c)[j] = judged[k].highlights[i]
  BY <1>5, <1>6, <1>8
<1>15. /\ summaries \in Seq(SensorSummary) /\ sorted \in Seq(SensorSummary)
       /\ Candidates(r, c) \in Seq(Highlight)
  BY <1>3, <1>6, <1>8, <1>10
<1>16. /\ \A k \in DOMAIN judged : \E i \in DOMAIN sorted : sorted[i] = judged[k].summary
       /\ \A i \in DOMAIN sorted : \E k \in DOMAIN judged : sorted[i] = judged[k].summary
       /\ \A k \in DOMAIN judged : \A i \in DOMAIN judged[k].highlights :
            \E j \in DOMAIN Candidates(r, c) : Candidates(r, c)[j] = judged[k].highlights[i]
  BY <1>1, <1>13, <1>14
<1> QED
  BY <1>15, <1>16 DEF judged, summaries, sorted

LEMMA ReportTyped ==
  ASSUME NEW r \in ReceiptMaps, NEW c \in Configs
  PROVE  build_cockpit_report(r, c) \in Report
<1> DEFINE rep == build_cockpit_report(r, c)
<1>1. Table(r, c) \in Seq(SensorSummary) /\ Candidates(r, c) \in Seq(Highlight) /\ c.max_highlights \in Nat
  BY PartsTyped, ConfigTyped
<1>2. overall_verdict(Table(r, c), c) \in Verdicts
  BY <1>1, VerdictType
<1>3. \A ids : select_highlights(Candidates(r, c), c.max_highlights, ids) \in Seq(Highlight)
  BY <1>1, SelectType
<1>4. rep = [verdict |-> overall_verdict(Table(r, c), c), sensors |-> Table(r, c),
             highlights |-> select_highlights(Candidates(r, c), c.max_highlights,
                              {Table(r, c)[i].id : i \in {j \in DOMAIN Table(r, c) : Table(r, c)[j].blocking}}),
             policy |-> snapshot_policy(c), data |-> << >>]
  BY ReportIs
<1> HIDE DEF rep
<1>5. rep \in Report
  BY <1>1, <1>2, <1>3, <1>4 DEF Report, Verdicts
<1> QED
  BY <1>5 DEF rep

(***************************************************************************)
(* What is shown of it.                                                    *)
(***************************************************************************)
AnnotationKeys(highlights, ids) ==
  [i \in DOMAIN highlights |-> annotation_sort_key(highlights[i], ids)]

LEMMA AnnotationKeyType ==
  ASSUME NEW h \in Highlight, NEW ids
  PROVE  annotation_sort_key(h, ids) \in Keys(7)
<1>1. h.finding \in Finding /\ h.sensor_id \in Nat
  BY DEF Highlight
<1>2. severity_rank[h.finding.severity] \in Nat
  BY <1>1, RankTypes DEF Finding
<1>3. /\ h.finding.path \in Nat /\ h.finding.code \in Nat /\ h.finding.message \in Nat
      /\ h.finding.line \in (0 .. U32Max) \cup {None}
  BY <1>1 DEF Finding
<1>4. (IF h.finding.line = None THEN 0 ELSE h.finding.line + 1) \in Nat
  BY <1>3, TypesAssumption
<1> QED
  BY <1>1, <1>2, <1>3, <1>4 DEF annotation_sort_key, Keys

(* The annotations are the first highlights in the order of their keys.    *)
LEMMA AnnotationsAre ==
  ASSUME NEW highlights \in Seq(Highlight), NEW max \in Nat, NEW ids
  PROVE  LET shown == render_annotations(highlights, max, ids).shown
             n == Len(highlights)
         IN  /\ shown \in Seq(Highlight) /\ Len(shown) = IF n <= max THEN n ELSE max
             /\ \E p \in Bijection(DOMAIN highlights, DOMAIN highlights) :
                  /\ \A k \in DOMAIN shown : k \in DOMAIN highlights /\ shown[k] = highlights[p[k]]
                  /\ \A k, l \in DOMAIN highlights : k < l =>
                       ~KeyLess(AnnotationKeys(highlights, ids)[p[l]], AnnotationKeys(highlights, ids)[p[k]])
<1> DEFINE key == AnnotationKeys(highlights, ids)
           sorted == SortByKey(highlights, key)
           shown == render_annotations(highlights, max, ids).shown
<1>1. key \in [DOMAIN highlights -> Keys(7)]
  BY AnnotationKeyType DEF AnnotationKeys
<1>2. shown = Truncate(sorted, max)
  BY DEF render_annotations, AnnotationKeys
<1> HIDE DEF key, shown
<1>3. /\ sorted \in Seq(Highlight) /\ Len(sorted) = Len(highlights)
      /\ \E p \in Bijection(DOMAIN highlights, DOMAIN highlights) :
              /\ sorted = [k \in DOMAIN highlights |-> highlights[p[k]]]
              /\ \A k, l \in DOMAIN highlights : k < l => ~KeyLess(key[p[l]], key[p[k]])
  BY <1>1, SortByKeySorts
<1> HIDE DEF sorted
<1>4. PICK p \in Bijection(DOMAIN highlights, DOMAIN highlights) :
              /\ sorted = [k \in DOMAIN highlights |-> highlights[p[k]]]
              /\ \A k, l \in DOMAIN highlights : k < l => ~KeyLess(key[p[l]], key[p[k]])
  BY <1>3
<1>5. /\ shown \in Seq(Highlight) /\ DOMAIN shown \subseteq DOMAIN sorted
      /\ \A k \in DOMAIN shown : shown[k] = sorted[k]
  BY <1>2, <1>3, TruncateType
<1>6. Len(shown) = IF Len(highlights) <= max THEN Len(highlights) ELSE max
  BY <1>2, <1>3 DEF Truncate
<1>7. DOMAIN sorted = DOMAIN highlights
  BY <1>4
<1>8. \A k \in DOMAIN shown : k \in DOMAIN highlights /\ shown[k] = highlights[p[k]]
  BY <1>4, <1>5, <1>7
<1> QED
  BY <1>4, <1>5, <1>6, <1>8 DEF key, shown

(* The codes of a report's highlights, one rule each.                      *)
CodesOf(highlights) == {highlights[i].finding.code : i \in DOMAIN highlights}

LEMMA CodesFinite ==
  ASSUME NEW highlights \in Seq(Highlight)
  PROVE  CodesOf(highlights) \in SUBSET Nat /\ IsFiniteSet(CodesOf(highlights))
<1> DEFINE D == DOMAIN highlights
           f == [i \in D |-> highlights[i].finding.code]
<1>1. IsFiniteSet(D)
  BY DomainFinite
<1>2. \A i \in D : highlights[i].finding.code \in Nat
  <2>1. \A i \in D : highlights[i] \in Highlight
    OBVIOUS
  <2> QED
    BY <2>1 DEF Highlight, Finding
<1>3. f \in Surjection(D, CodesOf(highlights))
  BY DEF CodesOf, Surjection
<1> HIDE DEF D, f
<1>4. IsFiniteSet(CodesOf(highlights))
  BY <1>1, <1>3, FS_Surjection
<1>5. CodesOf(highlights) \in SUBSET Nat
  BY <1>2 DEF CodesOf, D
<1> QED
  BY <1>4, <1>5

(* The SARIF log has one rule per code and one result per highlight.       *)
LEMMA SarifIs ==
  ASSUME NEW rep, rep.highlights \in Seq(Highlight)
  PROVE  LET sarif == cockpit_report_to_sarif(rep)
             n == Len(rep.highlights)
         IN  /\ sarif \in SarifLog
             /\ DOMAIN sarif.results = DOMAIN rep.highlights /\ Len(sarif.results) = n
             /\ \A i \in DOMAIN rep.highlights :
                  sarif.results[i] = highlight_to_sarif_result(rep.highlights[i])
             /\ \A code \in CodesOf(rep.highlights) : \E r \in DOMAIN sarif.rules : sarif.rules[r].id = code
             /\ \A q, r \in DOMAIN sarif.rules : sarif.rules[q].id = sarif.rules[r].id => q = r
<1> DEFINE list == rep.highlights
           D == DOMAIN list
           codes == Ascending(CodesOf(list))
           First(code) == CHOOSE i \in D : /\ list[i].finding.code = code
                                           /\ \A j \in 1 .. (i - 1) : list[j].finding.code # code
           rules == [k \in DOMAIN codes |-> [id |-> codes[k], sensor_id |-> list[First(codes[k])].sensor_id]]
           results == [i \in D |-> highlight_to_sarif_result(list[i])]
           sarif == cockpit_report_to_sarif(rep)
<1>1. sarif = [rules |-> rules, results |-> results]
  BY DEF cockpit_report_to_sarif, CodesOf
<1>2. /\ D = 1 .. Len(list) /\ Len(list) \in Nat /\ \A i \in D : list[i] \in Highlight
      /\ list \in Seq(Highlight)
  OBVIOUS
<1>3. /\ codes \in Seq(CodesOf(list)) /\ DOMAIN codes = 1 .. Len(codes) /\ Len(codes) \in Nat
      /\ \A code \in CodesOf(list) : \E k \in DOMAIN codes : codes[k] = code
      /\ \A k, l \in DOMAIN codes : k < l => codes[k] < codes[l]
      /\ CodesOf(list) \in SUBSET Nat
  <2> HIDE DEF list
  <2>1. CodesOf(list) \in SUBSET Nat /\ IsFiniteSet(CodesOf(list))
    BY <1>2, CodesFinite
  <2> DEFINE C == CodesOf(list)
  <2>2. C \in SUBSET Nat /\ IsFiniteSet(C) /\ codes = Ascending(C)
    BY <2>1
  <2> HIDE DEF C, codes
  <2>3. /\ codes \in Seq(C)
        /\ \A code \in C : \E k \in DOMAIN codes : codes[k] = code
        /\ \A k, l \in DOMAIN codes : k < l => codes[k] < codes[l]
    BY <2>2, AscendingOrder
  <2>4. DOMAIN codes = 1 .. Len(codes) /\ Len(codes) \in Nat
    BY <2>3
  <2> QED
    BY <2>2, <2>3, <2>4 DEF C
<1> HIDE DEF list, D, codes, First, sarif
<1>4. ASSUME NEW code \in CodesOf(list)
      PROVE  First(code) \in D
  <2> DEFINE At == {i \in D : list[i].finding.code = code}
  <2>1. At \in SUBSET Nat /\ At # {}
    BY <1>2 DEF CodesOf, D
  <2>2. PICK i \in At : \A j \in At : i <= j
    BY <2>1, LeastNatural
  <2>3. \A j \in 1 .. (i - 1) : j \in D /\ ~(i <= j)
    BY <1>2, <2>2
  <2>4. i \in D /\ list[i].finding.code = code /\ \A j \in 1 .. (i - 1) : list[j].finding.code # code
    BY <2>2, <2>3
  <2> QED
    BY <2>4 DEF First
<1>5. ASSUME NEW k \in DOMAIN codes
      PROVE  rules[k] \in SarifRule /\ rules[k].id = codes[k] /\ codes[k] \in Nat
  <2>1. codes[k] \in CodesOf(list) /\ codes[k] \in Nat
    BY <1>3, <1>5
  <2>2. list[First(codes[k])].sensor_id \in Nat
    <3>1. First(codes[k]) \in D
      BY <1>4, <2>1
    <3>2. list[First(codes[k])] \in Highlight
      BY <1>2, <3>1
    <3> QED
      BY <3>2 DEF Highlight
  <2> QED
    BY <2>1, <2>2 DEF SarifRule
<1>6. rules \in Seq(SarifRule) /\ DOMAIN rules = DOMAIN codes
  <2>1. DOMAIN rules = DOMAIN codes
    OBVIOUS
  <2> HIDE DEF rules
  <2>2. rules = [k \in DOMAIN codes |-> rules[k]]
    BY DEF rules
  <2> QED
    BY <1>3, <1>5, <2>1, <2>2
<1>7. ASSUME NEW i \in D
      PROVE  highlight_to_sarif_result(list[i]) \in SarifResult
  <2>1. list[i] \in Highlight
    BY <1>2
  <2>2. list[i].finding \in Finding
    BY <2>1 DEF Highlight
  <2>3. /\ list[i].finding.severity \in Severity /\ list[i].finding.code \in Nat
        /\ list[i].finding.message \in Nat /\ list[i].finding.path \in Nat
        /\ list[i].finding.line \in (0 .. U32Max) \cup {None}
        /\ list[i].finding.fingerprint \in Fingerprint \cup {None}
    BY <2>2 DEF Finding
  <2>4. severity_to_sarif_level[list[i].finding.severity] \in {"error", "warning", "note"}
    BY <2>3 DEF Severity, severity_to_sarif_level
  <2> QED
    BY <2>3, <2>4 DEF highlight_to_sarif_result, SarifResult
<1>8. results \in Seq(SarifResult) /\ DOMAIN results = D /\ Len(results) = Len(list)
  BY <1>2, <1>7
<1>9. sarif \in SarifLog /\ sarif.rules = rules /\ sarif.results = results
  BY <1>1, <1>6, <1>8 DEF SarifLog
<1>10. \A q, r \in DOMAIN rules : rules[q].id = rules[r].id => q = r
  <2> SUFFICES ASSUME NEW q \in DOMAIN rules, NEW r \in DOMAIN rules, rules[q].id = rules[r].id
               PROVE  q = r
    OBVIOUS
  <2>1. codes[q] = codes[r] /\ codes[q] \in Nat
    BY <1>5, <1>6
  <2>2. q \in Nat /\ r \in Nat
    BY <1>3, <1>6
  <2>3. ~(q < r) /\ ~(r < q)
    BY <1>3, <1>6, <2>1
  <2> QED
    BY <2>2, <2>3
<1>11. \A code \in CodesOf(list) : \E r \in DOMAIN rules : rules[r].id = code
  BY <1>3, <1>5, <1>6
<1>12. \A i \in D : results[i] = highlight_to_sarif_result(list[i])
  OBVIOUS
<1> HIDE DEF rules, results
<1> QED
  BY <1>8, <1>9, <1>10, <1>11, <1>12 DEF list, D, sarif

CommentType ==
  [summary     : Seq([id : Nat, status : VerdictStatus, blocking : BOOLEAN,
                      comment : BOOLEAN, truncated : BOOLEAN]),
   cap         : Nat \cup {None},
   highlights  : Seq(Highlight),
   annotations : [shown : Seq(Highlight), truncated : BOOLEAN, total_count : Nat],
   evidence    : {<< >>},
   sections    : Seq([name : Nat, ids : Seq(Nat)])]

NoteType ==
  [level : {"error", "warning", "notice"}, sensor_id : Nat, code : Nat,
   message : Nat, path : Nat, line : (0 .. U32Max) \cup {None}]

LEMMA SectionsTyped ==
  ASSUME NEW sensors \in Seq(SensorSummary), NEW c, c.section_order \in Seq(Nat)
  PROVE  Sections(sensors, c) \in Seq([name : Nat, ids : Seq(Nat)])
<1> DEFINE Members(name) == {i \in DOMAIN sensors : section_of(c, sensors[i].id) = name}
           ids == [i \in DOMAIN sensors |-> sensors[i].id]
           order == c.section_order
           listed == {p \in DOMAIN order : Members(order[p]) # {}}
           all == [p \in DOMAIN order |-> [name |-> order[p], ids |-> Pick(ids, Members(order[p]))]]
<1>1. \A i \in DOMAIN sensors : sensors[i].id \in Nat
  <2>1. \A i \in DOMAIN sensors : sensors[i] \in SensorSummary
    OBVIOUS
  <2> QED
    BY <2>1 DEF SensorSummary
<1>2. ids \in Seq(Nat) /\ DOMAIN ids = DOMAIN sensors
  BY <1>1
<1>3. \A name : Members(name) \in SUBSET DOMAIN ids
  BY <1>2
<1>4. Sections(sensors, c) = Pick(all, listed)
  BY DEF Sections
<1>5. order \in Seq(Nat) /\ DOMAIN order = 1 .. Len(order) /\ Len(order) \in Nat
  OBVIOUS
<1> HIDE DEF Members, ids, order
<1>6. \A name : Pick(ids, Members(name)) \in Seq(Nat)
  BY <1>2, <1>3, PickType
<1>7. all \in Seq([name : Nat, ids : Seq(Nat)]) /\ DOMAIN all = DOMAIN order
  BY <1>5, <1>6
<1>8. listed \in SUBSET DOMAIN all
  BY <1>7
<1> HIDE DEF all, listed
<1> QED
  BY <1>4, <1>7, <1>8, PickType

LEMMA CommentTyped ==
  ASSUME NEW rep \in Report, NEW c \in Configs
  PROVE  render_comment(rep, c) \in CommentType
<1>1. /\ rep.sensors \in Seq(SensorSummary) /\ rep.highlights \in Seq(Highlight) /\ rep.data \in {<< >>}
  BY DEF Report
<1>2. c.section_order \in Seq(Nat) /\ c.max_highlights \in Nat /\ c.max_annotations \in Nat
  BY ConfigTyped
<1>3. [i \in DOMAIN rep.sensors |-> SummaryRow(rep.sensors[i])]
        \in Seq([id : Nat, status : VerdictStatus, blocking : BOOLEAN, comment : BOOLEAN, truncated : BOOLEAN])
  <2>1. \A i \in DOMAIN rep.sensors : rep.sensors[i] \in SensorSummary
    BY <1>1
  <2>2. \A i \in DOMAIN rep.sensors : SummaryRow(rep.sensors[i])
          \in [id : Nat, status : VerdictStatus, blocking : BOOLEAN, comment : BOOLEAN, truncated : BOOLEAN]
    BY <2>1 DEF SummaryRow, SensorSummary
  <2> HIDE DEF SummaryRow
  <2>3. DOMAIN rep.sensors = 1 .. Len(rep.sensors) /\ Len(rep.sensors) \in Nat
    BY <1>1
  <2> QED
    BY <2>2, <2>3
<1>4. \A ids : render_annotations(rep.highlights, c.max_annotations, ids)
        \in [shown : Seq(Highlight), truncated : BOOLEAN, total_count : Nat]
  <2> SUFFICES ASSUME NEW ids
               PROVE  render_annotations(rep.highlights, c.max_annotations, ids)
                        \in [shown : Seq(Highlight), truncated : BOOLEAN, total_count : Nat]
    OBVIOUS
  <2> DEFINE a == render_annotations(rep.highlights, c.max_annotations, ids)
  <2>1. a.shown \in Seq(Highlight)
    BY <1>1, <1>2, AnnotationsAre
  <2>2. \A more \in BOOLEAN, s \in Seq(Highlight), n \in Nat :
          [shown |-> s, truncated |-> more, total_count |-> n]
            \in [shown : Seq(Highlight), truncated : BOOLEAN, total_count : Nat]
    OBVIOUS
  <2> DEFINE more == Len(rep.highlights) > c.max_annotations
             s == a.shown
             n == Len(rep.highlights)
             T == [shown : Seq(Highlight), truncated : BOOLEAN, total_count : Nat]
  <2>3. a = [shown |-> s, truncated |-> more, total_count |-> n]
    BY DEF render_annotations
  <2>4. s \in Seq(Highlight) /\ n \in Nat
    BY <1>1, <2>1
  <2>5. more \in BOOLEAN
    OBVIOUS
  <2>6. \A m \in BOOLEAN, x \in Seq(Highlight), y \in Nat : [shown |-> x, truncated |-> m, total_count |-> y] \in T
    BY <2>2
  <2> HIDE DEF a, more, s, n, T
  <2>7. [shown |-> s, truncated |-> more, total_count |-> n] \in T
    BY <2>4, <2>5, <2>6, Zenon
  <2> QED
    BY <2>3, <2>7, Zenon DEF a, T
<1>5. Sections(rep.sensors, c) \in Seq([name : Nat, ids : Seq(Nat)])
  BY <1>1, <1>2, SectionsTyped
<1>6. (IF rep.highlights = << >> THEN None ELSE c.max_highlights) \in Nat \cup {None}
  BY <1>2
<1> QED
  BY <1>1, <1>3, <1>4, <1>5, <1>6 DEF render_comment, CommentType

LEMMA NotesTyped ==
  ASSUME NEW highlights \in Seq(Highlight), NEW max \in Nat, NEW ids
  PROVE  render_github_annotations(highlights, max, ids) \in Seq(NoteType)
<1> DEFINE shown == render_annotations(highlights, max, ids).shown
           Note(h) == [level |-> gh_level[h.finding.severity], sensor_id |-> h.sensor_id,
                       code |-> h.finding.code, message |-> h.finding.message,
                       path |-> h.finding.path, line |-> h.finding.line]
<1>1. shown \in Seq(Highlight)
  BY AnnotationsAre
<1>2. ASSUME NEW h \in Highlight
      PROVE  Note(h) \in NoteType
  <2>1. h.finding \in Finding /\ h.sensor_id \in Nat
    BY DEF Highlight
  <2>2. gh_level[h.finding.severity] \in {"error", "warning", "notice"}
    BY <2>1 DEF Finding, Severity, gh_level
  <2> QED
    BY <2>1, <2>2 DEF NoteType, Finding
<1>3. render_github_annotations(highlights, max, ids) = [k \in DOMAIN shown |-> Note(shown[k])]
  BY DEF render_github_annotations
<1> HIDE DEF shown, Note
<1>4. DOMAIN shown = 1 .. Len(shown) /\ Len(shown) \in Nat /\ \A k \in DOMAIN shown : shown[k] \in Highlight
  BY <1>1
<1> QED
  BY <1>2, <1>3, <1>4

LEMMA TrendTyped ==
  ASSUME NEW base \in Report, NEW rep \in Report
  PROVE  compute_trend(base, rep) \in TrendDelta
<1>1. \A x \in {base, rep} :
        /\ x.sensors \in Seq(SensorSummary) /\ x.highlights \in Seq(Highlight)
        /\ x.verdict.status \in VerdictStatus /\ x.verdict.counts \in VerdictCounts
  <2>1. \A x \in Report :
          /\ x.sensors \in Seq(SensorSummary) /\ x.highlights \in Seq(Highlight)
          /\ x.verdict \in [status : VerdictStatus, counts : VerdictCounts, reasons : SUBSET Reason]
    BY DEF Report
  <2> QED
    BY <2>1
<1>2. \A x, y \in {base, rep} : Unmatched(x.highlights, y.highlights) \in Seq(Highlight)
  BY <1>1, PickType DEF Unmatched
<1>3. \A x \in {base, rep} : SensorIds(x) \in SUBSET Nat /\ IsFiniteSet(SensorIds(x))
  <2> SUFFICES ASSUME NEW x \in {base, rep}
               PROVE  SensorIds(x) \in SUBSET Nat /\ IsFiniteSet(SensorIds(x))
    OBVIOUS
  <2> DEFINE list == x.sensors
             f == [i \in DOMAIN list |-> list[i].id]
  <2>1. list \in Seq(SensorSummary)
    BY <1>1
  <2>2. SensorIds(x) = {list[i].id : i \in DOMAIN list}
    BY DEF SensorIds
  <2> HIDE DEF list
  <2>3. \A i \in DOMAIN list : list[i].id \in Nat
    <3>1. \A i \in DOMAIN list : list[i] \in SensorSummary
      BY <2>1
    <3> QED
      BY <3>1 DEF SensorSummary
  <2>4. IsFiniteSet(DOMAIN list)
    BY <2>1, DomainFinite
  <2>5. f \in Surjection(DOMAIN list, SensorIds(x))
    BY <2>2 DEF Surjection
  <2> HIDE DEF f
  <2> QED
    BY <2>2, <2>3, <2>4, <2>5, FS_Surjection
<1>4. \A x, y \in {base, rep} : Ascending(SensorIds(x) \ SensorIds(y)) \in Seq(Nat)
  <2> SUFFICES ASSUME NEW x \in {base, rep}, NEW y \in {base, rep}
               PROVE  Ascending(SensorIds(x) \ SensorIds(y)) \in Seq(Nat)
    OBVIOUS
  <2> DEFINE K == SensorIds(x) \ SensorIds(y)
  <2>1. K \in SUBSET Nat /\ IsFiniteSet(K)
    BY <1>3, FS_Subset
  <2> HIDE DEF K
  <2>2. Ascending(K) \in Seq(K)
    BY <2>1, AscendingType
  <2> QED
    BY <2>1, <2>2 DEF K
<1>5. [severity \in Severity |-> Delta(base, rep, severity)] \in [Severity -> Int]
  <2>1. \A severity \in Severity :
          base.verdict.counts[severity] \in Nat /\ rep.verdict.counts[severity] \in Nat
    BY <1>1 DEF VerdictCounts, Severity
  <2>2. \A severity \in Severity : Delta(base, rep, severity) \in Int
    BY <2>1 DEF Delta
  <2> QED
    BY <2>2
<1>6. (IF base.verdict.status # rep.verdict.status
       THEN <<base.verdict.status, rep.verdict.status>> ELSE None)
        \in (VerdictStatus \X VerdictStatus) \cup {None}
  BY <1>1
<1> QED
  BY <1>2, <1>4, <1>5, <1>6 DEF compute_trend, TrendDelta

OutputsOf(rep, c, base) ==
  [comment     |-> render_comment(rep, c),
   annotations |-> render_github_annotations(rep.highlights, c.max_annotations, BlockingIds(rep)),
   sarif       |-> cockpit_report_to_sarif(rep),
   trend       |-> IF base = None THEN None ELSE compute_trend(base, rep)]

LEMMA OutputsTyped ==
  ASSUME NEW rep \in Report, NEW c \in Configs, NEW base \in Report \cup {None}
  PROVE  OutputsOf(rep, c, base) \in Outputs
<1>1. rep.highlights \in Seq(Highlight) /\ c.max_annotations \in Nat
  BY ConfigTyped DEF Report
<1>2. render_comment(rep, c) \in CommentType
  BY CommentTyped
<1>3. render_github_annotations(rep.highlights, c.max_annotations, BlockingIds(rep)) \in Seq(NoteType)
  BY <1>1, NotesTyped
<1>4. cockpit_report_to_sarif(rep) \in SarifLog
  BY <1>1, SarifIs
<1>5. (IF base = None THEN None ELSE compute_trend(base, rep)) \in TrendDelta \cup {None}
  BY TrendTyped
<1> QED
  BY <1>2, <1>3, <1>4, <1>5 DEF OutputsOf, Outputs, CommentType, NoteType

(***************************************************************************)
(* One job after another.  A report in sight is the one cockpitctl makes   *)
(* of the receipts and the configuration of the job, its outputs are made  *)
(* of it, and the baseline is the report of an earlier job.                *)
(***************************************************************************)
Gathered ==
  report # None =>
    /\ receipts \in ReceiptMaps /\ cfg \in Configs
    /\ report = build_cockpit_report(receipts, cfg)
    /\ outputs = OutputsOf(report, cfg, baseline)

Remembered ==
  baseline # None => \E r \in ReceiptMaps, c \in Configs : baseline = build_cockpit_report(r, c)

Kept == TypeOK /\ Gathered /\ Remembered

LEMMA KeptInit == Init => Kept
<1> SUFFICES ASSUME Init PROVE Kept
  OBVIOUS
<1>1. receipts = NoReceipts /\ cfg = None /\ report = None /\ outputs = None /\ baseline = None
  BY DEF Init
<1>2. NoReceipts \in [Sensors -> Receipts \cup {None}]
  BY DEF NoReceipts
<1> QED
  BY <1>1, <1>2 DEF Kept, TypeOK, Gathered, Remembered

LEMMA KeptRun ==
  ASSUME Kept, CiRun
  PROVE  Kept'
<1>1. /\ receipts' \in ReceiptMaps /\ cfg' \in Configs /\ baseline' = baseline
      /\ report' = build_cockpit_report(receipts', cfg')
  BY DEF CiRun, ReceiptMaps
<1>2. outputs' = OutputsOf(report', cfg', baseline)
  BY DEF CiRun, OutputsOf
<1>3. report' \in Report
  BY <1>1, ReportTyped
<1>4. baseline \in Report \cup {None}
  BY DEF Kept, TypeOK
<1>5. outputs' \in Outputs
  BY <1>1, <1>2, <1>3, <1>4, OutputsTyped
<1>6. report' # None /\ outputs' # None
  BY <1>3, <1>5, AbsentAssumption
<1>7. TypeOK'
  BY <1>1, <1>3, <1>4, <1>5, <1>6 DEF TypeOK, ReceiptMaps
<1>8. Gathered'
  BY <1>1, <1>2 DEF Gathered
<1>9. Remembered'
  BY <1>1 DEF Kept, Remembered
<1> QED
  BY <1>7, <1>8, <1>9 DEF Kept

LEMMA KeptEnd ==
  ASSUME Kept, NEW kept \in BOOLEAN, JobEnds(kept)
  PROVE  Kept'
<1>1. /\ report # None /\ baseline' = IF kept THEN report ELSE baseline
      /\ receipts' = NoReceipts /\ cfg' = None /\ report' = None /\ outputs' = None
  BY DEF JobEnds
<1>2. NoReceipts \in [Sensors -> Receipts \cup {None}]
  BY DEF NoReceipts
<1>3. TypeOK'
  BY <1>1, <1>2 DEF Kept, TypeOK
<1>4. Gathered'
  BY <1>1 DEF Gathered
<1>5. Remembered'
  BY <1>1 DEF Kept, Remembered, Gathered
<1> QED
  BY <1>3, <1>4, <1>5 DEF Kept

LEMMA KeptNext == Kept /\ [Next]_vars => Kept'
<1> SUFFICES ASSUME Kept, [Next]_vars PROVE Kept'
  OBVIOUS
<1>1. CASE CiRun
  BY <1>1, KeptRun
<1>2. CASE KeepAsBaseline
  BY <1>2, KeptEnd DEF KeepAsBaseline
<1>3. CASE Discard
  BY <1>3, KeptEnd DEF Discard
<1>4. CASE UNCHANGED vars
  BY <1>4 DEF vars, Kept, TypeOK, Gathered, Remembered
<1> QED
  BY <1>1, <1>2, <1>3, <1>4 DEF Next

LEMMA KeptAlways == Spec => []Kept
BY KeptInit, KeptNext, PTL DEF Spec

(* Between jobs nothing is left but the baseline, which is a whole report. *)
THEOREM TypeCorrect == Spec => []TypeOK
<1>1. Kept => TypeOK
  BY DEF Kept
<1> QED
  BY <1>1, KeptAlways, PTL

(***************************************************************************)
(* A finding of a receipt, and where it stays.                             *)
(***************************************************************************)

LEMMA FoundIsShown ==
  ASSUME NEW r \in ReceiptMaps, NEW c \in Configs, NEW id \in Expected(r, c), NEW i \in DOMAIN r[id].findings,
         r[id] # None
  PROVE  LET rep == build_cockpit_report(r, c) IN
         \/ fingerprint_of([sensor_id |-> id, finding |-> r[id].findings[i]]) \in Fps(rep.highlights)
         \/ \E k \in DOMAIN rep.sensors : rep.sensors[k].id = id /\ rep.sensors[k].truncated
         \/ Len(rep.highlights) = c.max_highlights
<1> DEFINE rep == build_cockpit_report(r, c)
           h == [sensor_id |-> id, finding |-> r[id].findings[i]]
           one == JudgedOne(r, c, id)
           candidates == Candidates(r, c)
           blocking == BlockingIds(rep)
<1>1. id \in Sensors /\ id \in Nat
  BY ExpectedIds
<1>2. /\ policy_of(c, id) \in SensorPolicy /\ c.max_per_sensor_findings \in Nat /\ c.max_highlights \in Nat
  BY ConfigTyped, PolicyOfType
<1>3. /\ r[id].counts \in VerdictCounts /\ r[id].findings \in Seq(Finding)
  BY <1>1, ReceiptTyped
<1> DEFINE policy == policy_of(c, id)
           max == c.max_per_sensor_findings
           receipt == r[id]
           made == summarize_sensor_report(id, FALSE, policy, receipt, max)
<1>4. one = made
  BY DEF JudgedOne
<1> DEFINE capped == cap_findings(sort_findings(id, receipt.findings), max)
<1>5. \/ one.summary.truncated
      \/ \E j \in DOMAIN one.highlights : one.highlights[j] = h
  <2>1. /\ policy \in SensorPolicy /\ max \in Nat
        /\ receipt.counts \in VerdictCounts /\ receipt.findings \in Seq(Finding)
    BY <1>2, <1>3
  <2>2. i \in DOMAIN receipt.findings /\ h = [sensor_id |-> id, finding |-> receipt.findings[i]]
    OBVIOUS
  <2> HIDE DEF policy, max, receipt, one, h
  <2>3. made.summary.truncated = capped.truncated
    BY TruncatedIsCapped
  <2>4. ASSUME ~capped.truncated
        PROVE  \E j \in DOMAIN one.highlights : one.highlights[j] = h
    <3>1. Lists(made.highlights, id, receipt.findings)
      BY <1>1, <2>1, <2>4, SurfacedIsCandidate
    <3> HIDE DEF made
    <3> QED
      BY <1>4, <2>2, <3>1 DEF Lists
  <2> HIDE DEF made, capped
  <2> QED
    BY <1>4, <2>3, <2>4, Zenon
<1>6. one.summary.id = id
  <2>1. Names(made.summary, id, policy)
    BY ReportNames
  <2> HIDE DEF made, one
  <2> QED
    BY <1>4, <2>1 DEF Names
<1>7. PICK k \in DOMAIN Judged(r, c) : Judged(r, c)[k] = one
  BY JudgedTyped
<1>8. rep.sensors = Table(r, c)
      /\ rep.highlights = select_highlights(candidates, c.max_highlights, blocking)
  BY ReportIs
<1> HIDE DEF rep, one, candidates, blocking
<1>9. CASE one.summary.truncated
  <2>1. PICK row \in DOMAIN Table(r, c) : Table(r, c)[row] = Judged(r, c)[k].summary
    BY PartsTyped
  <2>2. row \in DOMAIN rep.sensors /\ rep.sensors[row].id = id /\ rep.sensors[row].truncated
    BY <1>6, <1>7, <1>8, <1>9, <2>1
  <2> QED
    BY <2>2 DEF rep
<1>10. CASE \E j \in DOMAIN one.highlights : one.highlights[j] = h
  <2>1. PICK j \in DOMAIN Judged(r, c)[k].highlights : Judged(r, c)[k].highlights[j] = h
    BY <1>7, <1>10
  <2>2. candidates \in Seq(Highlight) /\ \E m \in DOMAIN candidates : candidates[m] = h
    BY <2>1, PartsTyped DEF candidates
  <2>3. PICK m \in DOMAIN candidates : candidates[m] = h
    BY <2>2
  <2>4. PICK d \in Deduped(candidates) : fingerprint_of(candidates[d]) = fingerprint_of(h)
    BY <2>2, <2>3, OneIsKept
  <2>5. candidates[d] \in Highlight
    BY <2>2, DedupedFinite
  <2>6. Marked(candidates[d]).finding.fingerprint = fingerprint_of(h)
    BY <2>4, <2>5, MarkedFacts
  <2>7. \/ \E l \in DOMAIN rep.highlights : rep.highlights[l] = Marked(candidates[d])
        \/ Len(rep.highlights) = c.max_highlights
    <3> DEFINE selected == select_highlights(candidates, c.max_highlights, blocking)
    <3>1. \/ \E l \in DOMAIN selected : selected[l] = Marked(candidates[d])
          \/ Len(selected) = c.max_highlights
      BY <1>2, <2>2, KeptIsShown
    <3> QED
      BY <1>8, <3>1
  <2>8. \/ fingerprint_of(h) \in Fps(rep.highlights)
        \/ Len(rep.highlights) = c.max_highlights
    BY <2>6, <2>7 DEF Fps
  <2> QED
    BY <2>8 DEF rep
<1> QED
  BY <1>5, <1>9, <1>10

(* Nothing a receipt says disappears unannounced from the comment: it is   *)
(* shown, or its sensor's row is marked, or the cap's line says so.        *)
THEOREM NothingDropsSilently == Spec => []ReductionIsAnnounced
<1>1. ASSUME Kept
      PROVE  ReductionIsAnnounced
  <2> SUFFICES ASSUME report # None, cfg.max_highlights > 0, NEW id \in Expected(receipts, cfg),
                      receipts[id] # None, NEW i \in DOMAIN receipts[id].findings
               PROVE  \/ fingerprint_of([sensor_id |-> id, finding |-> receipts[id].findings[i]])
                           \in Fps(outputs.comment.highlights)
                      \/ \E k \in DOMAIN outputs.comment.summary :
                           outputs.comment.summary[k].id = id /\ outputs.comment.summary[k].truncated
                      \/ outputs.comment.cap = Len(outputs.comment.highlights)
    BY DEF ReductionIsAnnounced
  <2>1. /\ receipts \in ReceiptMaps /\ cfg \in Configs /\ report = build_cockpit_report(receipts, cfg)
        /\ outputs = OutputsOf(report, cfg, baseline) /\ report \in Report
    BY <1>1 DEF Kept, Gathered, TypeOK
  <2>2. /\ outputs.comment.highlights = report.highlights
        /\ outputs.comment.summary = [k \in DOMAIN report.sensors |-> SummaryRow(report.sensors[k])]
        /\ outputs.comment.cap = IF report.highlights = << >> THEN None ELSE cfg.max_highlights
    BY <2>1 DEF OutputsOf, render_comment
  <2>3. CASE fingerprint_of([sensor_id |-> id, finding |-> receipts[id].findings[i]]) \in Fps(report.highlights)
    BY <2>2, <2>3
  <2>4. CASE \E k \in DOMAIN report.sensors : report.sensors[k].id = id /\ report.sensors[k].truncated
    BY <2>2, <2>4 DEF SummaryRow
  <2>5. CASE Len(report.highlights) = cfg.max_highlights
    <3>1. report.highlights # << >>
      BY <2>5
    <3> QED
      BY <2>2, <2>5, <3>1
  <2> QED
    BY <2>1, <2>3, <2>4, <2>5, FoundIsShown
<1> QED
  BY <1>1, KeptAlways, PTL

(***************************************************************************)
(* The trend.                                                              *)
(***************************************************************************)

(* A list whose findings are known by one fingerprint each.                *)
Distinct(list) ==
  /\ list \in Seq(Highlight)
  /\ \A k \in DOMAIN list : list[k].finding.fingerprint # None
  /\ \A k, l \in DOMAIN list : list[k].finding.fingerprint = list[l].finding.fingerprint => k = l

LEMMA FingerprintIsThere ==
  ASSUME NEW h \in Highlight
  PROVE  fingerprint_of(h) # None
BY FingerprintOfType, TypesAssumption DEF Fingerprint

LEMMA ReportIsDistinct ==
  ASSUME NEW r \in ReceiptMaps, NEW c \in Configs
  PROVE  Distinct(build_cockpit_report(r, c).highlights)
<1> DEFINE rep == build_cockpit_report(r, c)
           candidates == Candidates(r, c)
           max == c.max_highlights
           blocking == BlockingIds(rep)
           selected == select_highlights(candidates, max, blocking)
<1>1. rep.highlights = selected
  BY ReportIs
<1>2. candidates \in Seq(Highlight) /\ max \in Nat
  BY PartsTyped, ConfigTyped
<1> HIDE DEF candidates, max, blocking
<1>3. selected \in Seq(Highlight)
  BY <1>2, SelectType
<1>4. \A k, l \in DOMAIN selected : selected[k].finding.fingerprint = selected[l].finding.fingerprint => k = l
  BY <1>2, ShownDiffer
<1>5. \A k \in DOMAIN selected : \E i \in Deduped(candidates) : selected[k] = Marked(candidates[i])
  BY <1>2, ShownIsKept
<1> HIDE DEF selected
<1>6. ASSUME NEW k \in DOMAIN selected
      PROVE  selected[k].finding.fingerprint # None
  <2>1. PICK i \in Deduped(candidates) : selected[k] = Marked(candidates[i])
    BY <1>5
  <2>2. candidates[i] \in Highlight
    BY <1>2, DedupedFinite
  <2>3. selected[k].finding.fingerprint = fingerprint_of(candidates[i])
    BY <2>1, <2>2, MarkedFacts
  <2> QED
    BY <2>2, <2>3, FingerprintIsThere
<1> QED
  BY <1>1, <1>3, <1>4, <1>6 DEF Distinct

(* What one report has and the other does not, each once.                  *)
LEMMA UnmatchedAre ==
  ASSUME NEW a, NEW b, Distinct(a), b \in Seq(Highlight)
  PROVE  /\ Unmatched(a, b) \in Seq(Highlight)
         /\ Fps(Unmatched(a, b)) = Fps(a) \ Fps(b)
         /\ Cardinality(Fps(Unmatched(a, b))) = Len(Unmatched(a, b))
<1> DEFINE K == {i \in DOMAIN a : ~MatchedIn(a[i], b)}
           u == Pick(a, K)
           n == Cardinality(K)
           order == Ascending(K)
<1>1. Unmatched(a, b) = u
  BY DEF Unmatched
<1>2. /\ a \in Seq(Highlight) /\ K \in SUBSET DOMAIN a
      /\ \A k \in DOMAIN a : a[k].finding.fingerprint # None
      /\ \A k, l \in DOMAIN a : a[k].finding.fingerprint = a[l].finding.fingerprint => k = l
  BY DEF Distinct
<1>3. \A i \in DOMAIN a : i \in K <=> a[i].finding.fingerprint \notin Fps(b)
  BY <1>2 DEF MatchedIn, Fps
<1> HIDE DEF K
<1>4. K \in SUBSET Nat /\ IsFiniteSet(K) /\ n \in Nat
  BY <1>2, IndicesFinite
<1>5. /\ order \in Seq(K) /\ Len(order) = n /\ DOMAIN order = 1 .. n
      /\ \A k, l \in 1 .. n : order[k] = order[l] => k = l
  BY <1>4, AscendingType
<1>6. u = [k \in 1 .. n |-> a[order[k]]] /\ DOMAIN u = 1 .. n
  BY DEF Pick
<1>7. /\ u \in Seq(Highlight) /\ Len(u) = n
      /\ \A i \in K : \E k \in DOMAIN u : u[k] = a[i]
  BY <1>2, PickType, PickHolds
<1> HIDE DEF u, n, order
<1>8. \A k \in 1 .. n : order[k] \in K /\ u[k] = a[order[k]]
  BY <1>5, <1>6
<1>9. Fps(u) = Fps(a) \ Fps(b)
  <2>1. ASSUME NEW fp \in Fps(u)
        PROVE  fp \in Fps(a) \ Fps(b)
    <3>1. PICK k \in 1 .. n : fp = u[k].finding.fingerprint
      BY <1>6 DEF Fps
    <3>2. order[k] \in DOMAIN a /\ fp = a[order[k]].finding.fingerprint
      BY <1>2, <1>8, <3>1
    <3> QED
      BY <1>3, <1>8, <3>2 DEF Fps
  <2>2. ASSUME NEW fp \in Fps(a) \ Fps(b)
        PROVE  fp \in Fps(u)
    <3>1. PICK i \in DOMAIN a : fp = a[i].finding.fingerprint
      BY DEF Fps
    <3>2. i \in K
      BY <1>3, <3>1
    <3>3. PICK k \in DOMAIN u : u[k] = a[i]
      BY <1>7, <3>2
    <3> QED
      BY <3>1, <3>3 DEF Fps
  <2> QED
    BY <2>1, <2>2
<1>10. Cardinality(Fps(u)) = n
  <2> DEFINE D == 1 .. n
             f == [k \in D |-> u[k].finding.fingerprint]
  <2>1. IsFiniteSet(D) /\ Cardinality(D) = n
    BY <1>4, FS_Interval
  <2>2. f \in Surjection(D, Fps(u))
    BY <1>6 DEF Fps, Surjection
  <2>3. \A k, l \in D : f[k] = f[l] => k = l
    <3> SUFFICES ASSUME NEW k \in D, NEW l \in D, f[k] = f[l]
                 PROVE  k = l
      OBVIOUS
    <3>1. a[order[k]].finding.fingerprint = a[order[l]].finding.fingerprint
      BY <1>8
    <3>2. order[k] = order[l]
      BY <1>2, <1>8, <3>1
    <3> QED
      BY <1>5, <3>2
  <2> HIDE DEF f, D
  <2>4. f \in Injection(D, Fps(u))
    BY <2>2, <2>3 DEF Surjection, Injection, IsInjective
  <2>5. Cardinality(Fps(u)) = Cardinality(D)
    BY <2>1, <2>2, <2>4, FS_Surjection
  <2> QED
    BY <2>1, <2>5
<1> QED
  BY <1>1, <1>7, <1>9, <1>10

LEMMA TrendIs ==
  ASSUME Kept, Compared
  PROVE  /\ receipts \in ReceiptMaps /\ cfg \in Configs /\ report = build_cockpit_report(receipts, cfg)
         /\ outputs.trend = compute_trend(baseline, report)
         /\ baseline \in Report /\ report \in Report
         /\ Distinct(report.highlights) /\ Distinct(baseline.highlights)
<1>1. report # None /\ baseline # None
  BY DEF Compared
<1>2. /\ receipts \in ReceiptMaps /\ cfg \in Configs /\ report = build_cockpit_report(receipts, cfg)
      /\ outputs = OutputsOf(report, cfg, baseline)
  BY <1>1 DEF Kept, Gathered
<1>3. outputs.trend = compute_trend(baseline, report)
  BY <1>1, <1>2 DEF OutputsOf
<1>4. PICK r \in ReceiptMaps, c \in Configs : baseline = build_cockpit_report(r, c)
  BY <1>1 DEF Kept, Remembered
<1> QED
  BY <1>2, <1>3, <1>4, ReportIsDistinct, ReportTyped

LEMMA TrendBalances ==
  ASSUME NEW base, NEW rep, Distinct(base.highlights), Distinct(rep.highlights)
  PROVE  LET trend == compute_trend(base, rep) IN
         /\ Fps(trend.new_findings) = Fps(rep.highlights) \ Fps(base.highlights)
         /\ Fps(trend.fixed_findings) = Fps(base.highlights) \ Fps(rep.highlights)
         /\ Cardinality(Fps(trend.new_findings)) = Len(trend.new_findings)
         /\ Cardinality(Fps(trend.fixed_findings)) = Len(trend.fixed_findings)
<1> DEFINE trend == compute_trend(base, rep)
<1>1. /\ trend.new_findings = Unmatched(rep.highlights, base.highlights)
      /\ trend.fixed_findings = Unmatched(base.highlights, rep.highlights)
  BY DEF compute_trend
<1>2. base.highlights \in Seq(Highlight) /\ rep.highlights \in Seq(Highlight)
  BY DEF Distinct
<1> HIDE DEF trend
<1>3. /\ Fps(trend.new_findings) = Fps(rep.highlights) \ Fps(base.highlights)
      /\ Cardinality(Fps(trend.new_findings)) = Len(trend.new_findings)
  BY <1>1, <1>2, UnmatchedAre
<1>4. /\ Fps(trend.fixed_findings) = Fps(base.highlights) \ Fps(rep.highlights)
      /\ Cardinality(Fps(trend.fixed_findings)) = Len(trend.fixed_findings)
  BY <1>1, <1>2, UnmatchedAre
<1> QED
  BY <1>3, <1>4 DEF trend

(* The trend is an account that balances, whatever the baseline.           *)
THEOREM TrendBalance == Spec => []TrendAccounts
<1>1. ASSUME Kept
      PROVE  TrendAccounts
  <2> SUFFICES ASSUME Compared PROVE TrendAccounts
    BY DEF TrendAccounts
  <2> DEFINE trend == compute_trend(baseline, report)
  <2>1. /\ outputs.trend = trend /\ Distinct(report.highlights) /\ Distinct(baseline.highlights)
    BY <1>1, TrendIs
  <2>2. /\ Fps(trend.new_findings) = Fps(report.highlights) \ Fps(baseline.highlights)
        /\ Fps(trend.fixed_findings) = Fps(baseline.highlights) \ Fps(report.highlights)
        /\ Cardinality(Fps(trend.new_findings)) = Len(trend.new_findings)
        /\ Cardinality(Fps(trend.fixed_findings)) = Len(trend.fixed_findings)
    BY <2>1, TrendBalances
  <2> HIDE DEF trend
  <2> DEFINE new == Fps(trend.new_findings)
             fixed == Fps(trend.fixed_findings)
  <2>3. /\ new = {trend.new_findings[i].finding.fingerprint : i \in DOMAIN trend.new_findings}
        /\ fixed = {trend.fixed_findings[i].finding.fingerprint : i \in DOMAIN trend.fixed_findings}
    BY DEF Fps
  <2> HIDE DEF new, fixed
  <2>4. /\ Fps(report.highlights) = (Fps(baseline.highlights) \ fixed) \cup new
        /\ fixed \subseteq Fps(baseline.highlights) /\ new \cap Fps(baseline.highlights) = {}
        /\ Cardinality(new) = Len(trend.new_findings) /\ Cardinality(fixed) = Len(trend.fixed_findings)
    BY <2>2 DEF new, fixed
  <2> QED
    BY <2>1, <2>3, <2>4 DEF TrendAccounts
<1> QED
  BY <1>1, KeptAlways, PTL

(* A finding the trend calls fixed is gone from the receipts, or a cap cut *)
(* it off the report.                                                      *)
THEOREM FixedOrCut == Spec => []FixedIsGone
<1>1. ASSUME Kept
      PROVE  FixedIsGone
  <2> SUFFICES ASSUME Compared, NEW i \in DOMAIN outputs.trend.fixed_findings,
                      FoundNow(outputs.trend.fixed_findings[i].finding.fingerprint)
               PROVE  Cut(report, cfg.max_highlights)
    BY DEF FixedIsGone
  <2> DEFINE trend == compute_trend(baseline, report)
             fp == trend.fixed_findings[i].finding.fingerprint
  <2>1. /\ receipts \in ReceiptMaps /\ cfg \in Configs /\ report = build_cockpit_report(receipts, cfg)
        /\ outputs.trend = trend /\ report \in Report
        /\ Distinct(report.highlights) /\ Distinct(baseline.highlights)
    BY <1>1, TrendIs
  <2>2. Fps(trend.fixed_findings) = Fps(baseline.highlights) \ Fps(report.highlights)
    BY <2>1, TrendBalances
  <2>3. fp \in Fps(trend.fixed_findings)
    BY <2>1 DEF Fps
  <2>4. FoundNow(fp)
    BY <2>1
  <2> HIDE DEF trend, fp
  <2>5. PICK id \in Expected(receipts, cfg) :
          /\ receipts[id] # None
          /\ \E j \in DOMAIN receipts[id].findings :
               fingerprint_of([sensor_id |-> id, finding |-> receipts[id].findings[j]]) = fp
    BY <2>4 DEF FoundNow
  <2>6. PICK j \in DOMAIN receipts[id].findings :
          fingerprint_of([sensor_id |-> id, finding |-> receipts[id].findings[j]]) = fp
    BY <2>5
  <2>7. \/ fp \in Fps(report.highlights)
        \/ \E k \in DOMAIN report.sensors : report.sensors[k].id = id /\ report.sensors[k].truncated
        \/ Len(report.highlights) = cfg.max_highlights
    BY <2>1, <2>5, <2>6, FoundIsShown
  <2>8. cfg.max_highlights \in Nat
    BY <2>1, ConfigTyped
  <2> QED
    BY <2>2, <2>3, <2>7, <2>8 DEF Cut
<1> QED
  BY <1>1, KeptAlways, PTL

LEMMA NoneAscending ==
  ASSUME NEW K \in SUBSET Nat, IsFiniteSet(K), Ascending(K) = << >>
  PROVE  K = {}
<1>1. \A i \in K : \E k \in DOMAIN Ascending(K) : Ascending(K)[k] = i
  BY AscendingOrder
<1> QED
  BY <1>1

LEMMA SensorIdsFinite ==
  ASSUME NEW rep \in Report
  PROVE  SensorIds(rep) \in SUBSET Nat /\ IsFiniteSet(SensorIds(rep))
<1> DEFINE list == rep.sensors
           f == [i \in DOMAIN list |-> list[i].id]
<1>1. list \in Seq(SensorSummary)
  BY DEF Report
<1>2. SensorIds(rep) = {list[i].id : i \in DOMAIN list}
  BY DEF SensorIds
<1> HIDE DEF list
<1>3. \A i \in DOMAIN list : list[i].id \in Nat
  <2>1. \A i \in DOMAIN list : list[i] \in SensorSummary
    BY <1>1
  <2> QED
    BY <2>1 DEF SensorSummary
<1>4. IsFiniteSet(DOMAIN list)
  BY <1>1, DomainFinite
<1>5. f \in Surjection(DOMAIN list, SensorIds(rep))
  BY <1>2 DEF Surjection
<1> HIDE DEF f
<1> QED
  BY <1>2, <1>3, <1>4, <1>5, FS_Surjection

(* A report's counts leave `suppressed` at 0.                              *)
LEMMA NothingSuppressed ==
  ASSUME NEW r \in ReceiptMaps, NEW c \in Configs
  PROVE  build_cockpit_report(r, c).verdict.counts.suppressed = 0
<1>1. build_cockpit_report(r, c).verdict = overall_verdict(Table(r, c), c)
  BY ReportIs
<1>2. overall_verdict(Table(r, c), c).counts.suppressed = 0
  BY DEF overall_verdict
<1> QED
  BY <1>1, <1>2

LEMMA EmptyShowsNothing ==
  ASSUME NEW u, u = << >>
  PROVE  Fps(u) = {}
BY DEF Fps

(* "No changes from baseline." is only said where nothing changed.         *)
THEOREM QuietIsQuiet == Spec => []QuietMeansSame
<1>1. ASSUME Kept
      PROVE  QuietMeansSame
  <2> SUFFICES ASSUME Compared, SaysNoChanges(outputs.trend)
               PROVE  /\ Fps(report.highlights) = Fps(baseline.highlights)
                      /\ SensorIds(report) = SensorIds(baseline)
                      /\ report.verdict.status = baseline.verdict.status
                      /\ report.verdict.counts = baseline.verdict.counts
    BY DEF QuietMeansSame
  <2> DEFINE trend == compute_trend(baseline, report)
  <2>1. /\ outputs.trend = trend /\ report \in Report /\ baseline \in Report
        /\ receipts \in ReceiptMaps /\ cfg \in Configs /\ report = build_cockpit_report(receipts, cfg)
        /\ Distinct(report.highlights) /\ Distinct(baseline.highlights)
    BY <1>1, TrendIs
  <2>2. /\ Fps(trend.new_findings) = Fps(report.highlights) \ Fps(baseline.highlights)
        /\ Fps(trend.fixed_findings) = Fps(baseline.highlights) \ Fps(report.highlights)
    BY <2>1, TrendBalances
  <2>3. /\ trend.verdict_change = IF baseline.verdict.status # report.verdict.status
                                  THEN <<baseline.verdict.status, report.verdict.status>> ELSE None
        /\ trend.count_deltas = [severity \in Severity |-> Delta(baseline, report, severity)]
        /\ trend.sensors_added = Ascending(SensorIds(report) \ SensorIds(baseline))
        /\ trend.sensors_removed = Ascending(SensorIds(baseline) \ SensorIds(report))
    BY DEF compute_trend
  <2>4. SaysNoChanges(trend)
    BY <2>1
  <2> HIDE DEF trend
  <2>5. /\ trend.verdict_change = None
        /\ trend.new_findings = << >> /\ trend.fixed_findings = << >>
        /\ trend.sensors_added = << >> /\ trend.sensors_removed = << >>
        /\ \A severity \in Severity : trend.count_deltas[severity] = 0
    BY <2>4 DEF SaysNoChanges
  <2>6. Fps(report.highlights) = Fps(baseline.highlights)
    <3>1. Fps(trend.new_findings) = {} /\ Fps(trend.fixed_findings) = {}
      BY <2>5, EmptyShowsNothing
    <3> QED
      BY <2>2, <3>1
  <2>7. SensorIds(report) = SensorIds(baseline)
    <3> DEFINE added == SensorIds(report) \ SensorIds(baseline)
               removed == SensorIds(baseline) \ SensorIds(report)
    <3>1. /\ added \in SUBSET Nat /\ IsFiniteSet(added)
          /\ removed \in SUBSET Nat /\ IsFiniteSet(removed)
      BY <2>1, SensorIdsFinite, FS_Subset
    <3>2. Ascending(added) = << >> /\ Ascending(removed) = << >>
      BY <2>3, <2>5
    <3> HIDE DEF added, removed
    <3>3. added = {} /\ removed = {}
      BY <3>1, <3>2, NoneAscending
    <3> QED
      BY <3>3 DEF added, removed
  <2>8. \A x \in {report, baseline} : x.verdict.status \in VerdictStatus /\ x.verdict.counts \in VerdictCounts
    <3>1. \A x \in {report, baseline} :
            x.verdict \in [status : VerdictStatus, counts : VerdictCounts, reasons : SUBSET Reason]
      BY <2>1 DEF Report
    <3> QED
      BY <3>1
  <2>9. report.verdict.status = baseline.verdict.status
    <3> SUFFICES ASSUME report.verdict.status # baseline.verdict.status
                 PROVE  FALSE
      OBVIOUS
    <3>1. trend.verdict_change = <<baseline.verdict.status, report.verdict.status>>
      BY <2>3
    <3>2. trend.verdict_change \in VerdictStatus \X VerdictStatus
      BY <2>8, <3>1
    <3> QED
      BY <2>5, <3>2, AbsentAssumption
  <2>10. report.verdict.counts = baseline.verdict.counts
    <3> DEFINE now == report.verdict.counts
               before == baseline.verdict.counts
    <3>1. now \in VerdictCounts /\ before \in VerdictCounts
      BY <2>8
    <3>2. now.suppressed = 0 /\ before.suppressed = 0
      <4>1. baseline # None
        BY DEF Compared
      <4>2. PICK r \in ReceiptMaps, c \in Configs : baseline = build_cockpit_report(r, c)
        BY <1>1, <4>1 DEF Kept, Remembered
      <4> QED
        BY <2>1, <4>2, NothingSuppressed
    <3>3. \A severity \in Severity : now[severity] - before[severity] = 0
      BY <2>3, <2>5 DEF Delta
    <3> HIDE DEF now, before
    <3>4. /\ now.info - before.info = 0 /\ now.warn - before.warn = 0 /\ now.error - before.error = 0
      BY <3>3 DEF Severity
    <3>5. now.info = before.info /\ now.warn = before.warn /\ now.error = before.error
      BY <3>1, <3>4 DEF VerdictCounts
    <3>6. now = before
      BY <3>1, <3>2, <3>5 DEF VerdictCounts
    <3> QED
      BY <3>6 DEF now, before
  <2> QED
    BY <2>6, <2>7, <2>9, <2>10
<1> QED
  BY <1>1, KeptAlways, PTL

(***************************************************************************)
(* Annotations and SARIF log.                                              *)
(***************************************************************************)
Weight(h, ids) == 2 * severity_rank[h.finding.severity] + (IF h.sensor_id \in ids THEN 0 ELSE 1)

LEMMA LighterFirst ==
  ASSUME NEW g \in Highlight, NEW h \in Highlight, NEW ids,
         ~KeyLess(annotation_sort_key(g, ids), annotation_sort_key(h, ids))
  PROVE  Weight(h, ids) <= Weight(g, ids)
<1> DEFINE a == annotation_sort_key(g, ids)
           b == annotation_sort_key(h, ids)
           g1 == severity_rank[g.finding.severity]
           g2 == IF g.sensor_id \in ids THEN 0 ELSE 1
           h1 == severity_rank[h.finding.severity]
           h2 == IF h.sensor_id \in ids THEN 0 ELSE 1
<1>1. g1 \in Nat /\ h1 \in Nat /\ g2 \in {0, 1} /\ h2 \in {0, 1}
  BY RankTypes DEF Highlight, Finding
<1>2. a \in Keys(7) /\ b \in Keys(7)
  BY AnnotationKeyType
<1>3. a[1] = g1 /\ a[2] = g2 /\ b[1] = h1 /\ b[2] = h2
  BY DEF annotation_sort_key
<1>4. DOMAIN a = 1 .. 7
  BY <1>2 DEF Keys
<1>5. ~KeyLess(a, b)
  OBVIOUS
<1>6. Weight(h, ids) = 2 * h1 + h2 /\ Weight(g, ids) = 2 * g1 + g2
  BY DEF Weight
<1> HIDE DEF a, b, g1, g2, h1, h2
<1>7. ~(g1 < h1)
  <2> SUFFICES ASSUME g1 < h1 PROVE FALSE
    OBVIOUS
  <2>1. 1 \in DOMAIN a /\ a[1] < b[1] /\ \A j \in 1 .. (1 - 1) : a[j] = b[j]
    BY <1>3, <1>4
  <2> QED
    BY <1>5, <2>1 DEF KeyLess
<1>8. ~(g1 = h1 /\ g2 < h2)
  <2> SUFFICES ASSUME g1 = h1, g2 < h2 PROVE FALSE
    OBVIOUS
  <2>1. 2 \in DOMAIN a /\ a[2] < b[2] /\ \A j \in 1 .. (2 - 1) : a[j] = b[j]
    BY <1>3, <1>4
  <2> QED
    BY <1>5, <2>1 DEF KeyLess
<1> QED
  BY <1>1, <1>6, <1>7, <1>8

(* What is left out of the annotations weighs no less than what is shown.  *)
LEMMA DroppedWeighMore ==
  ASSUME NEW list \in Seq(Highlight), NEW max \in Nat, NEW ids, NEW shown,
         shown = render_annotations(list, max, ids).shown,
         NEW k \in DOMAIN shown, NEW i \in DOMAIN list, \A l \in DOMAIN shown : shown[l] # list[i]
  PROVE  Weight(shown[k], ids) <= Weight(list[i], ids)
<1> DEFINE D == DOMAIN list
           key == AnnotationKeys(list, ids)
<1>1. shown \in Seq(Highlight)
  BY AnnotationsAre
<1>2. PICK p \in Bijection(D, D) :
        /\ \A m \in DOMAIN shown : m \in D /\ shown[m] = list[p[m]]
        /\ \A m, l \in D : m < l => ~KeyLess(key[p[l]], key[p[m]])
  BY AnnotationsAre
<1>3. D = 1 .. Len(list) /\ Len(list) \in Nat /\ DOMAIN shown = 1 .. Len(shown) /\ Len(shown) \in Nat
  BY <1>1
<1>4. \A m \in D : list[m] \in Highlight /\ key[m] = annotation_sort_key(list[m], ids)
  BY DEF AnnotationKeys
<1> HIDE DEF D, key
<1>5. p \in [D -> D] /\ \A m \in D : \E l \in D : p[l] = m
  BY Fun_BijectionProperties
<1>6. i \in D
  BY DEF D
<1>7. PICK l \in D : p[l] = i
  BY <1>5, <1>6
<1>8. l \notin DOMAIN shown
  BY <1>2, <1>7
<1>9. k < l /\ k \in D
  BY <1>2, <1>3, <1>8
<1>10. ~KeyLess(key[i], key[p[k]]) /\ p[k] \in D
  BY <1>2, <1>5, <1>7, <1>9
<1>11. ~KeyLess(annotation_sort_key(list[i], ids), annotation_sort_key(list[p[k]], ids))
  BY <1>4, <1>6, <1>10
<1>12. shown[k] = list[p[k]]
  BY <1>2
<1> QED
  BY <1>4, <1>6, <1>10, <1>11, <1>12, LighterFirst

(* Each annotation has the SARIF result of the same highlight.             *)
SpeakOfTheSame(note, result) ==
  /\ result.rule_id = note.code /\ result.message = note.message /\ result.uri = note.path
  /\ <<note.level, result.level>> \in {<<"error", "error">>, <<"warning", "warning">>, <<"notice", "note">>}

LEMMA NotesHaveResults ==
  ASSUME NEW rep \in Report, NEW max \in Nat, NEW ids
  PROVE  LET notes == render_github_annotations(rep.highlights, max, ids)
             results == cockpit_report_to_sarif(rep).results
         IN  /\ Len(notes) = IF Len(results) <= max THEN Len(results) ELSE max
             /\ Len(results) \in Nat
             /\ \A m \in DOMAIN notes : \E k \in DOMAIN results : SpeakOfTheSame(notes[m], results[k])
<1> DEFINE list == rep.highlights
           D == DOMAIN list
           shown == render_annotations(list, max, ids).shown
           Note(h) == [level |-> gh_level[h.finding.severity], sensor_id |-> h.sensor_id,
                       code |-> h.finding.code, message |-> h.finding.message,
                       path |-> h.finding.path, line |-> h.finding.line]
           notes == render_github_annotations(list, max, ids)
           results == cockpit_report_to_sarif(rep).results
<1>1. notes = [k \in DOMAIN shown |-> Note(shown[k])]
  BY DEF render_github_annotations
<1>2. list \in Seq(Highlight)
  BY DEF Report
<1>3. /\ DOMAIN results = D /\ Len(results) = Len(list)
      /\ \A i \in D : results[i] = highlight_to_sarif_result(list[i])
  BY <1>2, SarifIs
<1>4. shown \in Seq(Highlight) /\ Len(shown) = IF Len(list) <= max THEN Len(list) ELSE max
  BY <1>2, AnnotationsAre
<1>5. PICK p \in Bijection(D, D) : \A m \in DOMAIN shown : m \in D /\ shown[m] = list[p[m]]
  BY <1>2, AnnotationsAre
<1> HIDE DEF notes, results, shown, D
<1>6. p \in [D -> D]
  BY Fun_BijectionProperties
<1>7. ASSUME NEW h \in Highlight
      PROVE  SpeakOfTheSame(Note(h), highlight_to_sarif_result(h))
  <2>1. h.finding.severity \in {"info", "warn", "error"}
    BY DEF Highlight, Finding, Severity
  <2>2. <<gh_level[h.finding.severity], severity_to_sarif_level[h.finding.severity]>>
          \in {<<"error", "error">>, <<"warning", "warning">>, <<"notice", "note">>}
    BY <2>1 DEF gh_level, severity_to_sarif_level
  <2> QED
    BY <2>2 DEF SpeakOfTheSame, highlight_to_sarif_result
<1> HIDE DEF Note
<1>8. ASSUME NEW m \in DOMAIN notes
      PROVE  \E k \in DOMAIN results : SpeakOfTheSame(notes[m], results[k])
  <2>1. m \in DOMAIN shown /\ notes[m] = Note(shown[m])
    BY <1>1
  <2>2. p[m] \in D /\ shown[m] = list[p[m]]
    BY <1>5, <1>6, <2>1
  <2>3. list[p[m]] \in Highlight
    BY <1>2, <2>2 DEF D
  <2>4. SpeakOfTheSame(notes[m], results[p[m]])
    BY <1>3, <1>7, <2>1, <2>2, <2>3
  <2> QED
    BY <1>3, <2>2, <2>4
<1>9. Len(notes) = Len(shown)
  BY <1>1, <1>4
<1>10. Len(list) \in Nat
  BY <1>2
<1> QED
  BY <1>3, <1>4, <1>8, <1>9, <1>10 DEF notes, results

LEMMA OneRuleEach ==
  ASSUME NEW rep \in Report, NEW k \in DOMAIN cockpit_report_to_sarif(rep).results
  PROVE  LET sarif == cockpit_report_to_sarif(rep) IN
         Cardinality({r \in DOMAIN sarif.rules : sarif.rules[r].id = sarif.results[k].rule_id}) = 1
<1> DEFINE sarif == cockpit_report_to_sarif(rep)
           list == rep.highlights
           Rules == {r \in DOMAIN sarif.rules : sarif.rules[r].id = sarif.results[k].rule_id}
<1>1. list \in Seq(Highlight)
  BY DEF Report
<1>2. /\ DOMAIN sarif.results = DOMAIN list
      /\ \A i \in DOMAIN list : sarif.results[i] = highlight_to_sarif_result(list[i])
      /\ \A code \in CodesOf(list) : \E r \in DOMAIN sarif.rules : sarif.rules[r].id = code
      /\ \A q, r \in DOMAIN sarif.rules : sarif.rules[q].id = sarif.rules[r].id => q = r
  BY <1>1, SarifIs
<1> HIDE DEF sarif
<1>3. k \in DOMAIN list
  BY <1>2 DEF sarif
<1>4. sarif.results[k].rule_id = list[k].finding.code
  <2>1. sarif.results[k] = highlight_to_sarif_result(list[k])
    BY <1>2, <1>3
  <2>2. highlight_to_sarif_result(list[k]).rule_id = list[k].finding.code
    BY DEF highlight_to_sarif_result
  <2> QED
    BY <2>1, <2>2
<1>5. list[k].finding.code \in CodesOf(list)
  BY <1>3 DEF CodesOf
<1>6. PICK r \in DOMAIN sarif.rules : sarif.rules[r].id = sarif.results[k].rule_id
  BY <1>2, <1>4, <1>5
<1>7. Rules = {r}
  BY <1>2, <1>6
<1>8. Cardinality(Rules) = 1
  BY <1>7, FS_Singleton
<1> QED
  BY <1>8 DEF sarif

(* The annotations and the SARIF log agree, and only max_annotations keeps *)
(* a result from having its annotation, from the bottom.                   *)
THEOREM ReadersAgree == Spec => []OutputsAgree
<1>1. ASSUME Kept
      PROVE  OutputsAgree
  <2> SUFFICES ASSUME report # None PROVE OutputsAgree
    BY DEF OutputsAgree
  <2> DEFINE ids == BlockingIds(report)
             max == cfg.max_annotations
             list == report.highlights
             notes == render_github_annotations(list, max, ids)
             sarif == cockpit_report_to_sarif(report)
             shown == render_annotations(list, max, ids).shown
             dropped == {i \in DOMAIN list : list[i] \notin {shown[k] : k \in DOMAIN shown}}
  <2>1. /\ cfg \in Configs /\ report \in Report /\ outputs = OutputsOf(report, cfg, baseline)
    BY <1>1 DEF Kept, Gathered, TypeOK
  <2>2. max \in Nat /\ list \in Seq(Highlight)
    BY <2>1, ConfigTyped DEF Report
  <2>3. outputs.annotations = notes /\ outputs.sarif = sarif
    BY <2>1 DEF OutputsOf
  <2>4. outputs.comment.annotations.shown = shown
    BY <2>1 DEF OutputsOf, render_comment, BlockingIds
  <2> HIDE DEF ids, max
  <2>5. /\ \A m \in DOMAIN notes : \E k \in DOMAIN sarif.results : SpeakOfTheSame(notes[m], sarif.results[k])
        /\ Len(notes) < max => Len(notes) = Len(sarif.results)
    <3>1. /\ Len(notes) = IF Len(sarif.results) <= max THEN Len(sarif.results) ELSE max
          /\ Len(sarif.results) \in Nat
          /\ \A m \in DOMAIN notes : \E k \in DOMAIN sarif.results : SpeakOfTheSame(notes[m], sarif.results[k])
      BY <2>1, <2>2, NotesHaveResults
    <3> HIDE DEF notes, sarif
    <3> QED
      BY <2>2, <3>1
  <2>6. \A k \in DOMAIN sarif.results :
          Cardinality({r \in DOMAIN sarif.rules : sarif.rules[r].id = sarif.results[k].rule_id}) = 1
    BY <2>1, OneRuleEach
  <2>7. \A k \in DOMAIN shown, i \in dropped : Weight(shown[k], ids) <= Weight(list[i], ids)
    <3> SUFFICES ASSUME NEW k \in DOMAIN shown, NEW i \in dropped
                 PROVE  Weight(shown[k], ids) <= Weight(list[i], ids)
      OBVIOUS
    <3>1. i \in DOMAIN list /\ \A l \in DOMAIN shown : shown[l] # list[i]
      OBVIOUS
    <3> DEFINE s == shown
    <3>2. s = render_annotations(list, max, ids).shown /\ k \in DOMAIN s
      OBVIOUS
    <3> HIDE DEF s, list, dropped
    <3> QED
      BY <2>2, <3>1, <3>2, DroppedWeighMore DEF s
  <2> HIDE DEF notes, sarif, shown, list, dropped
  <2>8. \A m \in DOMAIN outputs.annotations : \E k \in DOMAIN outputs.sarif.results :
          /\ outputs.sarif.results[k].rule_id = outputs.annotations[m].code
          /\ outputs.sarif.results[k].message = outputs.annotations[m].message
          /\ outputs.sarif.results[k].uri = outputs.annotations[m].path
          /\ <<outputs.annotations[m].level, outputs.sarif.results[k].level>>
               \in {<<"error", "error">>, <<"warning", "warning">>, <<"notice", "note">>}
    BY <2>3, <2>5, Zenon DEF SpeakOfTheSame
  <2>9. Len(outputs.annotations) < cfg.max_annotations => Len(outputs.annotations) = Len(outputs.sarif.results)
    BY <2>3, <2>5 DEF max
  <2>10. \A k \in DOMAIN outputs.sarif.results :
           Cardinality({r \in DOMAIN outputs.sarif.rules :
                          outputs.sarif.rules[r].id = outputs.sarif.results[k].rule_id}) = 1
    BY <2>3, <2>6
  <2>11. \A k \in DOMAIN outputs.comment.annotations.shown, i \in dropped :
           2 * severity_rank[outputs.comment.annotations.shown[k].finding.severity]
             + (IF outputs.comment.annotations.shown[k].sensor_id \in ids THEN 0 ELSE 1)
           <= 2 * severity_rank[list[i].finding.severity] + (IF list[i].sensor_id \in ids THEN 0 ELSE 1)
    BY <2>4, <2>7 DEF Weight
  <2>12. dropped = {i \in DOMAIN report.highlights :
                      report.highlights[i] \notin {outputs.comment.annotations.shown[k] :
                                                     k \in DOMAIN outputs.comment.annotations.shown}}
    BY <2>4 DEF dropped, list
  <2> HIDE DEF dropped
  <2> QED
    BY <2>8, <2>9, <2>10, <2>11, <2>12, Zenon DEF OutputsAgree, list, ids
<1> QED
  BY <1>1, KeptAlways, PTL

(***************************************************************************)
(* The report explains itself.                                             *)
(***************************************************************************)

(* What a reader puts together from the snapshot is the configuration.     *)
LEMMA AttestedIs ==
  ASSUME NEW c \in Configs
  PROVE  LET a == Attested(snapshot_policy(c)) IN
         a.warn_is_fail = c.warn_is_fail /\ a.section_order = c.section_order /\ a.sensors = c.sensors
<1> DEFINE K == DOMAIN c.sensors
           ids == Ascending(K)
           listed == [k \in DOMAIN ids |-> [id |-> ids[k], policy |-> c.sensors[ids[k]]]]
           policy == snapshot_policy(c)
           At(id) == CHOOSE k \in DOMAIN listed : listed[k].id = id
           a == Attested(policy)
<1>1. policy.warn_is_fail = c.warn_is_fail /\ policy.section_order = c.section_order /\ policy.sensors = listed
  BY DEF snapshot_policy
<1> HIDE DEF policy, listed
<1>2. a.warn_is_fail = policy.warn_is_fail /\ a.section_order = policy.section_order
  BY DEF Attested
<1>3. a.sensors = [id \in {listed[k].id : k \in DOMAIN listed} |-> listed[At(id)].policy]
  BY <1>1 DEF Attested
<1>4. K \in SUBSET Nat /\ IsFiniteSet(K) /\ c.sensors = [id \in K |-> c.sensors[id]]
  BY ConfigTyped
<1> HIDE DEF K, a
<1>5. /\ \A k \in DOMAIN ids : ids[k] \in K
      /\ \A id \in K : \E k \in DOMAIN ids : ids[k] = id
  <2>1. ids \in Seq(K) /\ \A id \in K : \E k \in DOMAIN ids : ids[k] = id
    BY <1>4, AscendingOrder
  <2> HIDE DEF ids
  <2> QED
    BY <2>1
<1> HIDE DEF ids
<1>6. DOMAIN listed = DOMAIN ids
      /\ \A k \in DOMAIN ids : listed[k].id = ids[k] /\ listed[k].policy = c.sensors[ids[k]]
  BY DEF listed
<1>7. {listed[k].id : k \in DOMAIN listed} = K
  BY <1>5, <1>6
<1>8. ASSUME NEW id \in K
      PROVE  listed[At(id)].policy = c.sensors[id]
  <2>1. \E k \in DOMAIN listed : listed[k].id = id
    BY <1>5, <1>6
  <2>2. At(id) \in DOMAIN listed /\ listed[At(id)].id = id
    BY <2>1
  <2> HIDE DEF At
  <2> QED
    BY <1>6, <2>2
<1> HIDE DEF At
<1>9. a.sensors = c.sensors
  BY <1>3, <1>4, <1>7, <1>8
<1> QED
  BY <1>1, <1>2, <1>9 DEF a, policy

(* The verdict asks the configuration only whether a warning is a failure. *)
LEMMA VerdictAsksWarnIsFail ==
  ASSUME NEW a, NEW b, NEW summaries, a.warn_is_fail = b.warn_is_fail
  PROVE  overall_verdict(summaries, a) = overall_verdict(summaries, b)
<1>1. \A s : effective_status(a, s) = effective_status(b, s)
  BY DEF effective_status
<1> DEFINE blocking == {i \in DOMAIN summaries : summaries[i].blocking}
           Statuses(cfg_) == {"pass"} \cup {effective_status(cfg_, summaries[i]) : i \in blocking}
           Worst(statuses) == CHOOSE w \in statuses :
                                \A t \in statuses : verdict_status_rank[w] <= verdict_status_rank[t]
           Reasons(warn) == IF warn /\ \E i \in blocking : summaries[i].status = "warn" THEN {"warn_is_fail"} ELSE {}
           counts == [info |-> Total(summaries, "info"), warn |-> Total(summaries, "warn"),
                      error |-> Total(summaries, "error"), suppressed |-> 0]
           Verdict(cfg_) == [status |-> Worst(Statuses(cfg_)), counts |-> counts, reasons |-> Reasons(cfg_.warn_is_fail)]
<1>2. overall_verdict(summaries, a) = Verdict(a) /\ overall_verdict(summaries, b) = Verdict(b)
  BY DEF overall_verdict
<1>3. Statuses(a) = Statuses(b)
  BY <1>1
<1> HIDE DEF Statuses, Worst, Reasons, counts
<1>4. Verdict(a) = Verdict(b)
  BY <1>3
<1> QED
  BY <1>2, <1>4

(* The table is in the order the snapshot gives it.                        *)
LEMMA TableIsSorted ==
  ASSUME NEW r \in ReceiptMaps, NEW c \in Configs, NEW a,
         a.section_order = c.section_order, a.sensors = c.sensors
  PROVE  sort_sensor_summaries(Table(r, c), a) = Table(r, c)
<1> DEFINE T == Table(r, c)
           summaries == Summaries(r, c)
           key == [i \in DOMAIN T |-> SummaryKey(c, T[i])]
<1>1. summaries \in Seq(SensorSummary) /\ T \in Seq(SensorSummary) /\ c.section_order \in Seq(Nat)
  BY PartsTyped, ConfigTyped
<1>2. T = sort_sensor_summaries(summaries, c)
  BY DEF Table
<1>3. \A id : policy_of(a, id) = policy_of(c, id)
  BY DEF policy_of
<1>4. \A id : section_rank(a, id) = section_rank(c, id)
  <2> SUFFICES ASSUME NEW id PROVE section_rank(a, id) = section_rank(c, id)
    OBVIOUS
  <2> DEFINE RankOf(section, order) ==
               LET name   == IF section = None THEN OtherSection ELSE section
                   places == {i \in DOMAIN order : order[i] = name}
               IN  IF places = {} THEN Len(order) + 1
                   ELSE CHOOSE i \in places : \A j \in places : j <= i
  <2>1. /\ section_rank(a, id) = RankOf(policy_of(a, id).section, a.section_order)
        /\ section_rank(c, id) = RankOf(policy_of(c, id).section, c.section_order)
    BY DEF section_rank
  <2> HIDE DEF RankOf
  <2> QED
    BY <1>3, <2>1
<1>5. sort_sensor_summaries(T, a) = SortByKey(T, key)
  BY <1>4 DEF sort_sensor_summaries, SummaryKey
<1> HIDE DEF T, summaries
<1>6. PICK p \in Bijection(DOMAIN summaries, DOMAIN summaries) :
        /\ T = [k \in DOMAIN summaries |-> summaries[p[k]]]
        /\ \A k, l \in DOMAIN summaries : k < l =>
             ~KeyLess(SummaryKey(c, summaries[p[l]]), SummaryKey(c, summaries[p[k]]))
  BY <1>1, <1>2, SortSummariesSorts
<1>7. DOMAIN T = DOMAIN summaries /\ DOMAIN T = 1 .. Len(T) /\ Len(T) \in Nat
  BY <1>1, <1>6
<1>8. key \in [DOMAIN T -> Keys(2)]
  <2>1. \A i \in DOMAIN T : SummaryKey(c, T[i]) \in Keys(2)
    <3> SUFFICES ASSUME NEW i \in DOMAIN T PROVE SummaryKey(c, T[i]) \in Keys(2)
      OBVIOUS
    <3>1. T[i] \in SensorSummary
      BY <1>1
    <3>2. T[i].id \in Nat
      BY <3>1 DEF SensorSummary
    <3>3. section_rank(c, T[i].id) \in Nat
      BY <1>1, SectionRankType
    <3> QED
      BY <3>2, <3>3 DEF SummaryKey, Keys
  <2> QED
    BY <2>1
<1>9. \A i \in 2 .. Len(T) : ~KeyLess(key[i], key[i - 1])
  <2> SUFFICES ASSUME NEW i \in 2 .. Len(T) PROVE ~KeyLess(key[i], key[i - 1])
    OBVIOUS
  <2>1. i \in DOMAIN T /\ i - 1 \in DOMAIN T /\ i - 1 < i
    BY <1>7
  <2>2. ~KeyLess(SummaryKey(c, summaries[p[i]]), SummaryKey(c, summaries[p[i - 1]]))
    BY <1>6, <1>7, <2>1
  <2>3. key[i] = SummaryKey(c, summaries[p[i]]) /\ key[i - 1] = SummaryKey(c, summaries[p[i - 1]])
    BY <1>6, <1>7, <2>1
  <2> QED
    BY <2>2, <2>3
<1> HIDE DEF key
<1>10. SortByKey(T, key) = T
  BY <1>1, <1>8, <1>9, SortedIsKept
<1> QED
  BY <1>5, <1>10 DEF T

(* A sensor's row says what the policy says of it.                         *)
LEMMA RowsFollowPolicy ==
  ASSUME NEW r \in ReceiptMaps, NEW c \in Configs, NEW i \in DOMAIN Table(r, c)
  PROVE  LET s == Table(r, c)[i] IN
         /\ s.blocking = policy_of(c, s.id).blocking
         /\ s.presence = "missing" => s.missing_policy_applied = policy_of(c, s.id).missing
<1>1. PICK k \in DOMAIN Judged(r, c) : Table(r, c)[i] = Judged(r, c)[k].summary
  BY PartsTyped
<1>2. PICK id \in Expected(r, c) : Judged(r, c)[k] = JudgedOne(r, c, id)
  BY JudgedTyped
<1> DEFINE s == Table(r, c)[i]
           policy == policy_of(c, id)
<1>3. s = JudgedOne(r, c, id).summary
  BY <1>1, <1>2
<1> HIDE DEF s, policy
<1>4. CASE r[id] = None
  <2> DEFINE m == synthesize_missing_sensor(id, policy, FALSE).summary
  <2>1. s = m
    BY <1>3, <1>4 DEF JudgedOne, policy
  <2>2. Names(m, id, policy)
    BY OutcomesName
  <2>3. m.missing_policy_applied = policy.missing
    BY DEF synthesize_missing_sensor, Summary
  <2> HIDE DEF m
  <2> QED
    BY <2>1, <2>2, <2>3 DEF Names, policy, s
<1>5. CASE r[id] # None
  <2> DEFINE m == summarize_sensor_report(id, FALSE, policy, r[id], c.max_per_sensor_findings).summary
  <2>1. s = m
    BY <1>3, <1>5 DEF JudgedOne, policy
  <2>2. Names(m, id, policy)
    BY ReportNames
  <2>3. m.presence = "present"
    BY DEF summarize_sensor_report, Summary
  <2> HIDE DEF m
  <2> QED
    BY <2>1, <2>2, <2>3 DEF Names, policy, s
<1> QED
  BY <1>4, <1>5

(* A report explains itself under the policy it names.                     *)
THEOREM ReportIsExplained == Spec => []ReportExplainsItself
<1>1. ASSUME Kept
      PROVE  ReportExplainsItself
  <2> SUFFICES ASSUME report # None PROVE ReportExplainsItself
    BY DEF ReportExplainsItself
  <2> DEFINE T == Table(receipts, cfg)
             a == Attested(report.policy)
  <2>1. receipts \in ReceiptMaps /\ cfg \in Configs /\ report = build_cockpit_report(receipts, cfg)
    BY <1>1 DEF Kept, Gathered
  <2>2. /\ report.sensors = T /\ report.verdict = overall_verdict(T, cfg)
        /\ report.highlights = select_highlights(Candidates(receipts, cfg), cfg.max_highlights, BlockingIds(report))
        /\ report.policy = snapshot_policy(cfg)
    BY <2>1, ReportIs
  <2>3. a.warn_is_fail = cfg.warn_is_fail /\ a.section_order = cfg.section_order /\ a.sensors = cfg.sensors
    BY <2>1, <2>2, AttestedIs
  <2> HIDE DEF T, a
  <2>4. overall_verdict(T, a) = overall_verdict(T, cfg)
    BY <2>3, VerdictAsksWarnIsFail
  <2>5. sort_sensor_summaries(T, a) = T
    BY <2>1, <2>3, TableIsSorted DEF T
  <2>6. Len(report.highlights) <= report.policy.max_highlights
    <3>1. Candidates(receipts, cfg) \in Seq(Highlight) /\ cfg.max_highlights \in Nat
      BY <2>1, PartsTyped, ConfigTyped
    <3>2. Len(report.highlights) <= cfg.max_highlights
      BY <2>2, <3>1, SelectType
    <3>3. report.policy.max_highlights = cfg.max_highlights
      BY <2>2 DEF snapshot_policy
    <3> QED
      BY <3>2, <3>3
  <2>7. \A id : policy_of(a, id) = policy_of(cfg, id)
    BY <2>3 DEF policy_of
  <2>8. ASSUME NEW i \in DOMAIN T
        PROVE  /\ T[i].blocking = policy_of(a, T[i].id).blocking
               /\ T[i].presence = "missing" => T[i].missing_policy_applied = policy_of(a, T[i].id).missing
    BY <2>1, <2>7, RowsFollowPolicy DEF T
  <2> QED
    BY <2>2, <2>4, <2>5, <2>6, <2>8 DEF ReportExplainsItself, a
<1> QED
  BY <1>1, KeptAlways, PTL

(***************************************************************************)
(* The sections of the comment follow the table.                           *)
(***************************************************************************)

LEMMA DownClosed ==
  ASSUME NEW m \in Nat, NEW S \in SUBSET (1 .. m), \A i \in S : \A j \in 1 .. m : j <= i => j \in S
  PROVE  \E e \in 0 .. m : S = 1 .. e
<1>1. CASE S = {}
  BY <1>1
<1>2. CASE S # {}
  <2>1. S \in SUBSET (0 .. m)
    OBVIOUS
  <2>2. PICK e \in S : \A i \in S : i <= e
    BY <1>2, <2>1, GreatestNatural
  <2>3. e \in 1 .. m /\ \A j \in 1 .. e : j \in 1 .. m /\ j <= e
    OBVIOUS
  <2>4. \A j \in 1 .. e : j \in S
    BY <2>2, <2>3
  <2>5. \A i \in S : i \in 1 .. e
    BY <2>2, <2>3
  <2>6. S = 1 .. e
    BY <2>4, <2>5
  <2> QED
    BY <2>3, <2>6
<1> QED
  BY <1>1, <1>2

(* An interval in ascending order is counted off from its start.           *)
LEMMA AscendingInterval ==
  ASSUME NEW lo \in Nat, NEW hi \in Nat, lo <= hi
  PROVE  LET K == (lo + 1) .. hi IN
         Cardinality(K) = hi - lo /\ \A k \in 1 .. (hi - lo) : Ascending(K)[k] = lo + k
<1> DEFINE K == (lo + 1) .. hi
           m == hi - lo
           a == Ascending(K)
           p == [k \in 1 .. m |-> a[k] - lo]
<1>1. K \in SUBSET Nat /\ m \in Nat
  OBVIOUS
<1>2. IsFiniteSet(K) /\ Cardinality(K) = m
  <2>1. lo + 1 \in Int /\ hi \in Int
    OBVIOUS
  <2>2. IsFiniteSet((lo + 1) .. hi) /\ Cardinality((lo + 1) .. hi) = IF lo + 1 > hi THEN 0 ELSE hi - (lo + 1) + 1
    BY <2>1, FS_Interval
  <2>3. (IF lo + 1 > hi THEN 0 ELSE hi - (lo + 1) + 1) = hi - lo
    OBVIOUS
  <2> QED
    BY <2>2, <2>3
<1>3. \A i \in K : i \in Nat /\ i - lo \in 1 .. m
  OBVIOUS
<1>4. \A i \in 1 .. m : lo + i \in K /\ (lo + i) - lo = i
  OBVIOUS
<1> HIDE DEF K, m
<1>5. /\ a \in Seq(K) /\ DOMAIN a = 1 .. m
      /\ \A i \in K : \E k \in 1 .. m : a[k] = i
      /\ \A k, l \in 1 .. m : k < l => a[k] < a[l]
  BY <1>1, <1>2, AscendingOrder
<1>6. \A k \in 1 .. m : a[k] \in K
  <2> HIDE DEF a, p
  <2>1. a \in Seq(K)
    BY <1>5
  <2>2. \A k \in DOMAIN a : a[k] \in K
    BY <2>1
  <2>3. DOMAIN a = 1 .. m
    BY <1>5
  <2> QED
    BY <2>2, <2>3, Zenon
<1> HIDE DEF a
<1>7. \A k \in 1 .. m : p[k] \in 1 .. m /\ p[k] = a[k] - lo
  BY <1>3, <1>6
<1>8. p \in [1 .. m -> 1 .. m]
  BY <1>7
<1>9. \A i \in 1 .. m : \E k \in 1 .. m : p[k] = i
  <2> TAKE i \in 1 .. m
  <2>1. PICK k \in 1 .. m : a[k] = lo + i
    BY <1>4, <1>5
  <2> QED
    BY <1>4, <1>7, <2>1
<1>10. \A k, l \in 1 .. m : k < l => p[k] < p[l]
  <2> SUFFICES ASSUME NEW k \in 1 .. m, NEW l \in 1 .. m, k < l
               PROVE  p[k] < p[l]
    OBVIOUS
  <2>1. a[k] < a[l] /\ a[k] \in Nat /\ a[l] \in Nat
    BY <1>3, <1>5, <1>6
  <2> QED
    BY <1>7, <2>1
<1> HIDE DEF p
<1>11. \A k, l \in 1 .. m : p[k] = p[l] => k = l
  <2> SUFFICES ASSUME NEW k \in 1 .. m, NEW l \in 1 .. m, p[k] = p[l]
               PROVE  k = l
    OBVIOUS
  <2>1. ~(k < l) /\ ~(l < k)
    <3>1. p[k] \in Nat /\ p[l] \in Nat
      BY <1>1, <1>7
    <3> QED
      BY <1>10, <3>1
  <2> QED
    BY <2>1
<1>12. p \in Bijection(1 .. m, 1 .. m)
  <2> DEFINE D == 1 .. m
  <2>1. p \in [D -> D] /\ (\A i \in D : \E k \in D : p[k] = i) /\ \A k, l \in D : p[k] = p[l] => k = l
    BY <1>8, <1>9, <1>11
  <2> HIDE DEF D
  <2>2. p \in Bijection(D, D)
    BY <2>1 DEF Bijection, Injection, Surjection, IsInjective
  <2> QED
    BY <2>2 DEF D
<1>13. \A k \in 1 .. m : p[k] = k
  BY <1>1, <1>10, <1>12, OnlyIdentityAscends
<1>14. \A k \in 1 .. m : a[k] = lo + k
  <2> TAKE k \in 1 .. m
  <2>1. p[k] = k /\ p[k] = a[k] - lo
    BY <1>7, <1>13
  <2>2. a[k] \in Nat
    BY <1>3, <1>6
  <2>3. k \in Nat
    BY <1>1
  <2> QED
    BY <2>1, <2>2, <2>3
<1> QED
  BY <1>2, <1>14 DEF a, K, m

(* A prefix goes on with the interval after it.                            *)
LEMMA PrefixGrows ==
  ASSUME NEW S, NEW s \in Seq(S), NEW lo \in Nat, NEW hi \in Nat, lo <= hi, hi <= Len(s)
  PROVE  SubSeq(s, 1, lo) \o Pick(s, (lo + 1) .. hi) = SubSeq(s, 1, hi)
<1> DEFINE K == (lo + 1) .. hi
           a == SubSeq(s, 1, lo)
           b == Pick(s, K)
           both == a \o b
           whole == SubSeq(s, 1, hi)
<1>1. Cardinality(K) = hi - lo /\ \A k \in 1 .. (hi - lo) : Ascending(K)[k] = lo + k
  BY AscendingInterval
<1>2. K \in SUBSET DOMAIN s
  OBVIOUS
<1>3. b \in Seq(S)
  <2> HIDE DEF K
  <2> QED
    BY <1>2, PickType
<1>4. b = [k \in 1 .. (hi - lo) |-> s[lo + k]]
  <2> HIDE DEF K
  <2> QED
    BY <1>1 DEF Pick
<1>5. a \in Seq(S) /\ Len(a) = lo /\ \A i \in 1 .. lo : a[i] = s[i]
  OBVIOUS
<1>6. whole \in Seq(S) /\ Len(whole) = hi /\ \A i \in 1 .. hi : whole[i] = s[i]
  OBVIOUS
<1>7. Len(b) = hi - lo /\ \A k \in 1 .. (hi - lo) : b[k] = s[lo + k]
  <2>1. hi - lo \in Nat
    OBVIOUS
  <2> QED
    BY <1>3, <1>4, <2>1
<1> HIDE DEF K, a, b, whole
<1>8. both \in Seq(S) /\ Len(both) = hi
  <2>1. both \in Seq(S) /\ Len(both) = Len(a) + Len(b)
    BY <1>3, <1>5, InBoth
  <2> HIDE DEF both
  <2> QED
    BY <1>5, <1>7, <2>1
<1>9. ASSUME NEW i \in 1 .. hi
      PROVE  both[i] = whole[i]
  <2>1. CASE i <= lo
    <3>1. i \in 1 .. lo /\ both[i] = a[i]
      BY <1>3, <1>5, <1>7, <2>1
    <3> QED
      BY <1>5, <1>6, <3>1
  <2>2. CASE ~(i <= lo)
    <3>1. i - lo \in 1 .. (hi - lo) /\ lo + (i - lo) = i
      BY <2>2
    <3>2. both[i] = b[i - lo]
      BY <1>3, <1>5, <1>7, <2>2
    <3> QED
      BY <1>6, <1>7, <3>1, <3>2
  <2> QED
    BY <2>1, <2>2
<1> HIDE DEF both
<1>10. both = whole
  BY <1>6, <1>8, <1>9
<1> QED
  BY <1>10 DEF both, a, b, whole, K

(* With every section named once, its rank is its place.                   *)
LEMMA RankIsPlace ==
  ASSUME NEW c, NEW id, c.section_order \in Seq(Nat), IsInjective(c.section_order)
  PROVE  /\ section_rank(c, id) \in 1 .. (Len(c.section_order) + 1)
         /\ \A p \in DOMAIN c.section_order :
              section_of(c, id) = c.section_order[p] <=> section_rank(c, id) = p
<1> DEFINE order == c.section_order
           name == section_of(c, id)
           places == {i \in DOMAIN order : order[i] = name}
           Latest == CHOOSE i \in places : \A j \in places : j <= i
<1>1. section_rank(c, id) = IF places = {} THEN Len(order) + 1 ELSE Latest
  BY DEF section_rank, section_of
<1>2. order \in Seq(Nat) /\ DOMAIN order = 1 .. Len(order) /\ Len(order) \in Nat
      /\ \A i, j \in DOMAIN order : order[i] = order[j] => i = j
  BY DEF IsInjective
<1> HIDE DEF order, name
<1>3. CASE places = {}
  BY <1>1, <1>2, <1>3 DEF order, name
<1>4. CASE places # {}
  <2>1. PICK q \in DOMAIN order : order[q] = name
    BY <1>4
  <2>2. places = {q}
    BY <1>2, <2>1
  <2>3. q \in Nat
    BY <1>2
  <2> HIDE DEF places
  <2>4. Latest = q
    BY <2>2, <2>3
  <2> HIDE DEF Latest
  <2>5. section_rank(c, id) = q
    BY <1>1, <1>4, <2>4
  <2>6. q \in 1 .. (Len(order) + 1)
    BY <1>2
  <2> QED
    BY <1>2, <2>1, <2>5, <2>6 DEF order, name
<1> QED
  BY <1>3, <1>4

LEMMA TableRanks ==
  ASSUME NEW r \in ReceiptMaps, NEW c \in Configs
  PROVE  \A i, j \in DOMAIN Table(r, c) : i < j =>
           section_rank(c, Table(r, c)[i].id) <= section_rank(c, Table(r, c)[j].id)
<1> DEFINE T == Table(r, c)
           summaries == Summaries(r, c)
<1>1. summaries \in Seq(SensorSummary) /\ T \in Seq(SensorSummary) /\ c.section_order \in Seq(Nat)
  BY PartsTyped, ConfigTyped
<1>2. T = sort_sensor_summaries(summaries, c)
  BY DEF Table
<1> HIDE DEF T, summaries
<1>3. PICK p \in Bijection(DOMAIN summaries, DOMAIN summaries) :
        /\ T = [k \in DOMAIN summaries |-> summaries[p[k]]]
        /\ \A k, l \in DOMAIN summaries : k < l =>
             ~KeyLess(SummaryKey(c, summaries[p[l]]), SummaryKey(c, summaries[p[k]]))
  BY <1>1, <1>2, SortSummariesSorts
<1>4. ASSUME NEW i \in DOMAIN T
      PROVE  SummaryKey(c, T[i]) \in Keys(2) /\ SummaryKey(c, T[i])[1] = section_rank(c, T[i].id)
  <2>1. T[i] \in SensorSummary
    BY <1>1
  <2>2. T[i].id \in Nat
    BY <2>1 DEF SensorSummary
  <2>3. section_rank(c, T[i].id) \in Nat
    BY <1>1, SectionRankType
  <2> QED
    BY <2>2, <2>3 DEF SummaryKey, Keys
<1>5. ASSUME NEW i \in DOMAIN T, NEW j \in DOMAIN T, i < j
      PROVE  section_rank(c, T[i].id) <= section_rank(c, T[j].id)
  <2>1. ~KeyLess(SummaryKey(c, T[j]), SummaryKey(c, T[i]))
    BY <1>3, <1>5
  <2>2. SummaryKey(c, T[i])[1] <= SummaryKey(c, T[j])[1]
    <3> DEFINE a == SummaryKey(c, T[j])
               b == SummaryKey(c, T[i])
    <3>1. a \in Keys(2) /\ b \in Keys(2) /\ ~KeyLess(a, b) /\ 2 \in Nat \ {0}
      BY <1>4, <2>1
    <3> HIDE DEF a, b
    <3>2. b[1] <= a[1]
      BY <3>1, KeyFirst
    <3> QED
      BY <3>2 DEF a, b
  <2> QED
    BY <1>4, <2>2
<1> QED
  BY <1>5 DEF T

RankOrdered(T, c) ==
  \A i, j \in DOMAIN T : i < j => section_rank(c, T[i].id) <= section_rank(c, T[j].id)

(* The rows of the k-th section that is listed are those after the rows of *)
(* the sections before it.                                                 *)
Adjoin(sections, table) ==
  \E n \in Nat : \E ends \in [0 .. n -> 0 .. Len(table)] :
    /\ DOMAIN sections = 1 .. n /\ ends[0] = 0
    /\ \A k \in 1 .. n : /\ ends[k - 1] <= ends[k]
                         /\ sections[k].ids = Pick(table, (ends[k - 1] + 1) .. ends[k])

LEMMA SectionsAreIntervals ==
  ASSUME NEW T \in Seq(SensorSummary), NEW c, c.section_order \in Seq(Nat), IsInjective(c.section_order),
         RankOrdered(T, c)
  PROVE  Adjoin(Sections(T, c), [i \in DOMAIN T |-> T[i].id])
<1> DEFINE order == c.section_order
           D == DOMAIN T
           m == Len(T)
           table == [i \in D |-> T[i].id]
           R(i) == section_rank(c, T[i].id)
           Members(name) == {i \in D : section_of(c, T[i].id) = name}
           L == {p \in DOMAIN order : Members(order[p]) # {}}
           all == [p \in DOMAIN order |-> [name |-> order[p], ids |-> Pick(table, Members(order[p]))]]
           a == Ascending(L)
           n == Cardinality(L)
           sections == Sections(T, c)
<1>1. m \in Nat /\ D = 1 .. m /\ DOMAIN order = 1 .. Len(order) /\ Len(order) \in Nat
  OBVIOUS
<1>2. \A i \in D : R(i) \in 1 .. (Len(order) + 1)
  BY RankIsPlace
<1>3. \A p \in DOMAIN order : Members(order[p]) = {i \in D : R(i) = p}
  BY RankIsPlace
<1>4. L \in SUBSET DOMAIN order /\ L \in SUBSET Nat /\ IsFiniteSet(L) /\ n \in Nat
  <2>1. L \in SUBSET DOMAIN order
    OBVIOUS
  <2> HIDE DEF L
  <2> QED
    BY <2>1, IndicesFinite
<1>5. \A p \in DOMAIN order : p \in L <=> \E i \in D : R(i) = p
  <2>1. \A p \in DOMAIN order : p \in L <=> Members(order[p]) # {}
    OBVIOUS
  <2> HIDE DEF L, Members
  <2> QED
    BY <1>3, <2>1
<1>6. sections = Pick(all, L)
  BY DEF Sections
<1>7. \A i, j \in D : i < j => R(i) <= R(j)
  BY DEF RankOrdered
<1>17. Len(table) = m
  BY <1>1
<1> HIDE DEF L, R, order, D, m, table
<1>8. /\ DOMAIN a = 1 .. n
      /\ \A p \in L : \E k \in 1 .. n : a[k] = p
      /\ \A k, l \in 1 .. n : k < l => a[k] < a[l]
      /\ \A k \in 1 .. n : a[k] \in L
  <2>1. /\ a \in Seq(L) /\ DOMAIN a = 1 .. n
        /\ \A p \in L : \E k \in 1 .. n : a[k] = p
        /\ \A k, l \in 1 .. n : k < l => a[k] < a[l]
    BY <1>4, AscendingOrder
  <2> HIDE DEF a
  <2>2. a \in Seq(L)
    BY <2>1
  <2>3. \A k \in DOMAIN a : a[k] \in L
    BY <2>2
  <2> QED
    BY <2>1, <2>3, Zenon
<1>9. sections = [k \in 1 .. n |-> all[a[k]]]
  BY <1>6 DEF Pick
<1> HIDE DEF a, n, sections, Members
<1>10. \A k \in 1 .. n : sections[k].ids = Pick(table, {i \in D : R(i) = a[k]})
  <2> SUFFICES ASSUME NEW k \in 1 .. n PROVE sections[k].ids = Pick(table, {i \in D : R(i) = a[k]})
    OBVIOUS
  <2>1. a[k] \in DOMAIN order
    BY <1>4, <1>8
  <2>2. sections[k] = all[a[k]]
    BY <1>9
  <2>3. all[a[k]].ids = Pick(table, Members(order[a[k]]))
    BY <2>1
  <2>4. Members(order[a[k]]) = {i \in D : R(i) = a[k]}
    BY <1>3, <2>1
  <2> QED
    BY <2>2, <2>3, <2>4
<1> DEFINE E(k) == {i \in D : R(i) <= a[k]}
           ends == [k \in 0 .. n |-> IF k = 0 THEN 0 ELSE CHOOSE e \in 0 .. m : E(k) = 1 .. e]
<1>11. \A k \in 1 .. n : a[k] \in Nat /\ a[k] \in DOMAIN order
  BY <1>4, <1>8
<1>12. \A k \in 1 .. n : ends[k] \in 0 .. m /\ E(k) = 1 .. ends[k]
  <2> SUFFICES ASSUME NEW k \in 1 .. n PROVE ends[k] \in 0 .. m /\ E(k) = 1 .. ends[k]
    OBVIOUS
  <2>1. \A i \in E(k) : \A j \in 1 .. m : j <= i => j \in E(k)
    <3> SUFFICES ASSUME NEW i \in E(k), NEW j \in 1 .. m, j <= i PROVE j \in E(k)
      OBVIOUS
    <3>1. i \in D /\ j \in D /\ R(i) <= a[k] /\ R(i) \in Nat /\ R(j) \in Nat /\ a[k] \in Nat
      BY <1>1, <1>2, <1>11
    <3>2. R(j) <= R(i)
      BY <1>1, <1>7, <3>1
    <3> QED
      BY <3>1, <3>2
  <2>2. E(k) \in SUBSET (1 .. m)
    BY <1>1
  <2> DEFINE S == E(k)
  <2>3. S \in SUBSET (1 .. m) /\ \A i \in S : \A j \in 1 .. m : j <= i => j \in S
    BY <2>1, <2>2
  <2> HIDE DEF S
  <2>4. \E e \in 0 .. m : S = 1 .. e
    BY <1>1, <2>3, DownClosed
  <2>5. \E e \in 0 .. m : E(k) = 1 .. e
    BY <2>4 DEF S
  <2> HIDE DEF E
  <2>6. k \in 0 .. n /\ k # 0
    BY <1>4
  <2>7. ends[k] = CHOOSE e \in 0 .. m : E(k) = 1 .. e
    BY <2>6
  <2> HIDE DEF ends
  <2> QED
    BY <2>5, <2>7
<1>13. ends[0] = 0 /\ ends \in [0 .. n -> 0 .. m]
  <2>1. 0 \in 0 .. n /\ 0 \in 0 .. m /\ \A k \in 0 .. n : k # 0 => k \in 1 .. n
    BY <1>1, <1>4
  <2>2. ends[0] = 0
    BY <2>1
  <2>3. ends = [k \in 0 .. n |-> ends[k]]
    OBVIOUS
  <2> HIDE DEF ends, E
  <2>4. \A k \in 0 .. n : ends[k] \in 0 .. m
    BY <1>12, <2>1, <2>2
  <2> QED
    BY <2>2, <2>3, <2>4
<1> HIDE DEF ends
<1>14. ASSUME NEW k \in 1 .. n
       PROVE  ends[k - 1] <= ends[k] /\ {i \in D : R(i) = a[k]} = (ends[k - 1] + 1) .. ends[k]
  <2> DEFINE Before == 1 .. ends[k - 1]
             Here == {i \in D : R(i) = a[k]}
  <2>1. ends[k] \in Nat /\ ends[k - 1] \in Nat /\ E(k) = 1 .. ends[k] /\ k \in Nat
    <3>1. k \in 0 .. n /\ k - 1 \in 0 .. n
      BY <1>4
    <3>2. ends[k] \in 0 .. m /\ ends[k - 1] \in 0 .. m
      BY <1>13, <3>1
    <3> QED
      BY <1>1, <1>4, <1>12, <3>2
  <2>2. \A i \in D : i \in Before <=> R(i) < a[k]
    <3> SUFFICES ASSUME NEW i \in D PROVE i \in Before <=> R(i) < a[k]
      OBVIOUS
    <3>1. R(i) \in 1 .. (Len(order) + 1) /\ R(i) \in Nat /\ a[k] \in Nat /\ a[k] \in 1 .. Len(order)
      BY <1>1, <1>2, <1>11
    <3>2. ASSUME R(i) < a[k]
          PROVE  \E l \in 1 .. n : l < k /\ a[l] = R(i)
      <4>1. R(i) \in DOMAIN order
        BY <1>1, <3>1, <3>2
      <4>2. R(i) \in L
        BY <1>5, <4>1
      <4>3. PICK l \in 1 .. n : a[l] = R(i)
        BY <1>8, <4>2
      <4>4. ~(k < l) /\ k # l
        BY <1>8, <1>11, <3>1, <3>2, <4>3
      <4> QED
        BY <1>4, <4>3, <4>4
    <3>3. CASE k = 1
      <4>1. Before = {}
        BY <1>13, <3>3
      <4>2. ~(R(i) < a[k])
        BY <1>4, <3>2, <3>3
      <4> QED
        BY <4>1, <4>2
    <3>4. CASE k # 1
      <4>1. k - 1 \in 1 .. n /\ k - 1 < k
        BY <1>4, <3>4
      <4>2. i \in Before <=> R(i) <= a[k - 1]
        BY <1>12, <4>1
      <4>3. a[k - 1] < a[k] /\ a[k - 1] \in Nat
        BY <1>8, <1>11, <4>1
      <4>4. ASSUME R(i) < a[k]
            PROVE  R(i) <= a[k - 1]
        <5>1. PICK l \in 1 .. n : l < k /\ a[l] = R(i)
          BY <3>2, <4>4
        <5>2. l = k - 1 \/ l < k - 1
          BY <1>4, <5>1
        <5>3. a[l] <= a[k - 1]
          BY <1>8, <1>11, <4>1, <4>3, <5>2
        <5> QED
          BY <5>1, <5>3
      <4>5. R(i) <= a[k - 1] => R(i) < a[k]
        BY <3>1, <4>3
      <4> QED
        BY <4>2, <4>4, <4>5
    <3> QED
      BY <3>3, <3>4
  <2>3. \A i \in D : i \in 1 .. ends[k] <=> R(i) <= a[k]
    BY <2>1
  <2>4. \A i \in D : R(i) \in Nat /\ a[k] \in Nat
    BY <1>2, <1>11
  <2>5. ends[k] \in 0 .. m /\ ends[k - 1] \in 0 .. m
    <3>1. k \in 0 .. n /\ k - 1 \in 0 .. n
      BY <1>4
    <3> QED
      BY <1>13, <3>1
  <2> HIDE DEF Before, Here
  <2>6. ends[k - 1] <= ends[k]
    <3> SUFFICES ASSUME ~(ends[k - 1] <= ends[k]) PROVE FALSE
      OBVIOUS
    <3>1. ends[k - 1] \in D /\ ends[k - 1] \in Before /\ ends[k - 1] \notin 1 .. ends[k]
      BY <1>1, <2>1, <2>5 DEF Before
    <3>2. R(ends[k - 1]) < a[k] /\ ~(R(ends[k - 1]) <= a[k])
      BY <2>2, <2>3, <3>1
    <3> QED
      BY <2>4, <3>1, <3>2
  <2>7. \A i \in D : i \in Here <=> i \in (ends[k - 1] + 1) .. ends[k]
    <3> SUFFICES ASSUME NEW i \in D PROVE i \in Here <=> i \in (ends[k - 1] + 1) .. ends[k]
      OBVIOUS
    <3>1. i \in Here <=> R(i) <= a[k] /\ ~(R(i) < a[k])
      BY <2>4 DEF Here
    <3>2. i \in Here <=> i \in 1 .. ends[k] /\ i \notin Before
      BY <2>2, <2>3, <3>1
    <3>3. i \in Nat
      BY <1>1
    <3> QED
      BY <2>1, <3>2, <3>3 DEF Before
  <2>8. Here \subseteq D /\ (ends[k - 1] + 1) .. ends[k] \subseteq D
    BY <1>1, <2>1, <2>5 DEF Here
  <2>9. Here = (ends[k - 1] + 1) .. ends[k]
    BY <2>7, <2>8
  <2> QED
    BY <2>6, <2>9 DEF Here
<1>15. DOMAIN sections = 1 .. n
  BY <1>9
<1>16. \A k \in 1 .. n : ends[k - 1] <= ends[k] /\ sections[k].ids = Pick(table, (ends[k - 1] + 1) .. ends[k])
  BY <1>10, <1>14
<1>18. Adjoin(sections, table)
  BY <1>4, <1>13, <1>15, <1>16, <1>17 DEF Adjoin
<1> QED
  BY <1>18 DEF sections, table, D

(* Adjoining intervals, one after the other, are a prefix.                 *)
Grown(s, lists, n, ends) ==
  \A k \in 1 .. n : ends[k - 1] <= ends[k] /\ lists[k] = Pick(s, (ends[k - 1] + 1) .. ends[k])

LEMMA FlattenIntervals ==
  ASSUME NEW S, NEW s \in Seq(S), NEW lists \in Seq(Seq(S)), NEW n \in Nat, NEW ends \in [0 .. n -> 0 .. Len(s)],
         DOMAIN lists = 1 .. n, ends[0] = 0, Grown(s, lists, n, ends)
  PROVE  ends[n] \in 0 .. Len(s) /\ FlattenSeq(lists) = SubSeq(s, 1, ends[n])
<1>1. Len(lists) = n /\ Len(s) \in Nat /\ \A k \in 0 .. n : ends[k] \in 0 .. Len(s)
  OBVIOUS
<1>2. ends[n] \in 0 .. Len(s)
  BY <1>1
<1>3. CASE n = 0
  <2>1. lists = << >>
    BY <1>1, <1>3
  <2>2. FlattenSeq(lists) = << >>
    BY <2>1 DEF FlattenSeq
  <2>3. SubSeq(s, 1, ends[n]) = << >>
    BY <1>3
  <2> QED
    BY <1>2, <2>2, <2>3
<1>4. CASE n # 0
  <2>0. Len(lists) # 0
    BY <1>1, <1>4
  <2>1. PICK f \in [1 .. Len(lists) -> Seq(S)] :
          /\ FlattenSeq(lists) = f[Len(lists)] /\ f[1] = lists[1]
          /\ \A i \in 2 .. Len(lists) : f[i] = f[i - 1] \o lists[i]
    BY <2>0, FlattenSteps
  <2> DEFINE Prefix(k) == f[k] = SubSeq(s, 1, ends[k])
             Bad == {k \in 1 .. n : ~Prefix(k)}
  <2>2. ASSUME NEW k \in 1 .. n
        PROVE  SubSeq(s, 1, ends[k - 1]) \o lists[k] = SubSeq(s, 1, ends[k])
    <3>1. k - 1 \in 0 .. n /\ k \in 0 .. n
      OBVIOUS
    <3> DEFINE lo == ends[k - 1]
               hi == ends[k]
    <3>2. lo \in Nat /\ hi \in Nat /\ lo <= hi /\ hi <= Len(s) /\ lists[k] = Pick(s, (lo + 1) .. hi)
      BY <1>1, <3>1 DEF Grown
    <3> HIDE DEF lo, hi
    <3>3. SubSeq(s, 1, lo) \o Pick(s, (lo + 1) .. hi) = SubSeq(s, 1, hi)
      BY <3>2, PrefixGrows
    <3> QED
      BY <3>2, <3>3 DEF lo, hi
  <2>3. ASSUME Bad # {}
        PROVE  FALSE
    <3>1. PICK k \in Bad : \A l \in Bad : k <= l
      <4>1. Bad \in SUBSET Nat
        OBVIOUS
      <4> HIDE DEF Bad
      <4> QED
        BY <2>3, <4>1, LeastNatural
    <3>2. k \in 1 .. n /\ ~Prefix(k) /\ k \in Nat
      OBVIOUS
    <3>3. CASE k = 1
      <4>1. SubSeq(s, 1, ends[0]) \o lists[1] = SubSeq(s, 1, ends[1])
        <5>1. SubSeq(s, 1, ends[k - 1]) \o lists[k] = SubSeq(s, 1, ends[k])
          BY <2>2, <3>2
        <5>2. k - 1 = 0
          BY <3>3
        <5> QED
          BY <3>3, <5>1, <5>2
      <4>2. SubSeq(s, 1, ends[0]) = << >>
        OBVIOUS
      <4>3. lists[1] \in Seq(S)
        BY <3>2, <3>3
      <4>4. << >> \o lists[1] = lists[1]
        BY <4>3
      <4>5. Prefix(1)
        BY <2>1, <4>1, <4>2, <4>4
      <4> QED
        BY <3>2, <3>3, <4>5
    <3>4. CASE k # 1
      <4>1. k \in 2 .. n /\ k - 1 \in 1 .. n /\ ~(k <= k - 1)
        BY <3>2, <3>4
      <4>2. Prefix(k - 1)
        <5>1. k - 1 \notin Bad
          <6> HIDE DEF Bad
          <6> QED
            BY <3>1, <4>1
        <5> HIDE DEF Prefix
        <5> QED
          BY <4>1, <5>1
      <4>3. f[k] = SubSeq(s, 1, ends[k - 1]) \o lists[k]
        BY <1>1, <2>1, <4>1, <4>2
      <4>4. Prefix(k)
        BY <2>2, <3>2, <4>3
      <4> QED
        BY <3>2, <4>4
    <3> QED
      BY <3>3, <3>4
  <2>4. Prefix(n)
    <3>1. n \in 1 .. n
      BY <1>4
    <3>2. n \notin Bad
      <4> HIDE DEF Bad
      <4> QED
        BY <2>3
    <3> HIDE DEF Prefix
    <3> QED
      BY <3>1, <3>2
  <2> QED
    BY <1>1, <1>2, <2>1, <2>4
<1> QED
  BY <1>3, <1>4

(* The sections of the comment follow the order of the table.              *)
THEOREM SectionsInOrder == Spec => []SectionsFollowTheSummary
<1>1. ASSUME Kept
      PROVE  SectionsFollowTheSummary
  <2> SUFFICES ASSUME report # None, IsInjective(cfg.section_order) PROVE SectionsFollowTheSummary
    BY DEF SectionsFollowTheSummary
  <2> DEFINE T == report.sensors
             sections == Sections(T, cfg)
             lists == [k \in DOMAIN sections |-> sections[k].ids]
             table == [k \in DOMAIN T |-> T[k].id]
  <2>1. /\ receipts \in ReceiptMaps /\ cfg \in Configs /\ report = build_cockpit_report(receipts, cfg)
        /\ outputs = OutputsOf(report, cfg, baseline) /\ report \in Report
    BY <1>1 DEF Kept, Gathered, TypeOK
  <2>2. outputs.comment.sections = sections
    BY <2>1 DEF OutputsOf, render_comment
  <2>3. T \in Seq(SensorSummary) /\ cfg.section_order \in Seq(Nat)
    BY <2>1, ConfigTyped DEF Report
  <2>4. T = Table(receipts, cfg)
    BY <2>1, ReportIs
  <2> HIDE DEF T
  <2>5. RankOrdered(T, cfg)
    BY <2>1, <2>4, TableRanks DEF RankOrdered
  <2>6. Adjoin(sections, table)
    BY <2>3, <2>5, SectionsAreIntervals
  <2>7. table \in Seq(Nat)
    <3>1. \A i \in DOMAIN T : T[i].id \in Nat
      <4>1. \A i \in DOMAIN T : T[i] \in SensorSummary
        BY <2>3
      <4> QED
        BY <4>1 DEF SensorSummary
    <3> QED
      BY <2>3, <3>1
  <2>8. sections \in Seq([name : Nat, ids : Seq(Nat)])
    BY <2>3, SectionsTyped
  <2> HIDE DEF sections, table
  <2>9. PICK n \in Nat : \E ends \in [0 .. n -> 0 .. Len(table)] :
          /\ DOMAIN sections = 1 .. n /\ ends[0] = 0
          /\ \A k \in 1 .. n : /\ ends[k - 1] <= ends[k]
                               /\ sections[k].ids = Pick(table, (ends[k - 1] + 1) .. ends[k])
    BY <2>6 DEF Adjoin
  <2>10. PICK ends \in [0 .. n -> 0 .. Len(table)] :
           /\ DOMAIN sections = 1 .. n /\ ends[0] = 0
           /\ \A k \in 1 .. n : /\ ends[k - 1] <= ends[k]
                                /\ sections[k].ids = Pick(table, (ends[k - 1] + 1) .. ends[k])
    BY <2>9
  <2>11. \A k \in DOMAIN sections : sections[k].ids \in Seq(Nat)
    <3> DEFINE Section == [name : Nat, ids : Seq(Nat)]
    <3>1. sections \in Seq(Section) /\ \A x \in Section : x.ids \in Seq(Nat)
      BY <2>8
    <3> HIDE DEF Section
    <3>2. \A k \in DOMAIN sections : sections[k] \in Section
      BY <3>1
    <3> QED
      BY <3>1, <3>2
  <2>12. lists \in Seq(Seq(Nat)) /\ DOMAIN lists = 1 .. n /\ \A k \in 1 .. n : lists[k] = sections[k].ids
    <3>1. lists = [k \in 1 .. n |-> sections[k].ids]
      BY <2>10
    <3>2. \A k \in 1 .. n : sections[k].ids \in Seq(Nat)
      BY <2>10, <2>11
    <3> HIDE DEF lists
    <3> QED
      BY <3>1, <3>2
  <2> HIDE DEF lists
  <2>13. Grown(table, lists, n, ends)
    BY <2>10, <2>12 DEF Grown
  <2>14. ends[n] \in 0 .. Len(table) /\ FlattenSeq(lists) = SubSeq(table, 1, ends[n])
    BY <2>7, <2>10, <2>12, <2>13, FlattenIntervals
  <2>15. Len(SubSeq(table, 1, ends[n])) = ends[n]
    BY <2>7, <2>14
  <2>16. FlattenSeq(lists) = SubSeq(table, 1, Len(FlattenSeq(lists)))
    BY <2>14, <2>15
  <2> QED
    BY <2>2, <2>16 DEF SectionsFollowTheSummary, lists, table, T
<1> QED
  BY <1>1, KeptAlways, PTL
=============================================================================
