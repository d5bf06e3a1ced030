----------------------------- MODULE GateProofs -----------------------------
(***************************************************************************)
(* Ingest implements Gate, for every set of sensors, receipts,             *)
(* configurations and limits: each step of execute is a step of the        *)
(* promise or changes nothing the promise speaks of.  Which receipts larger *)
(* than the limit it uses.  And what a report says of itself: its counts   *)
(* are those of what was found, and a red one shows why.                   *)
(***************************************************************************)
EXTENDS IngestProofs

(***************************************************************************)
(* The verdict: the worst effective status of a sensor that blocks.        *)
(***************************************************************************)
Worst(list, status) ==
  \E i \in DOMAIN list : list[i].blocking /\ effective_status(cfg, list[i]) = status

(* The worst status is fail if one is, else warn if one is, else pass.      *)
LEMMA VerdictIsWorst ==
  ASSUME NEW list \in Seq(SensorSummary)
  PROVE  overall_verdict(list, cfg).status =
           IF Worst(list, "fail") THEN "fail" ELSE IF Worst(list, "warn") THEN "warn" ELSE "pass"
<1> DEFINE blocking == {i \in DOMAIN list : list[i].blocking}
           statuses == {"pass"} \cup {effective_status(cfg, list[i]) : i \in blocking}
           worst == CHOOSE w \in statuses :
             \A t \in statuses : verdict_status_rank[w] <= verdict_status_rank[t]
<1>1. \A i \in DOMAIN list : effective_status(cfg, list[i]) \in VerdictStatus
  <2>1. ASSUME NEW i \in DOMAIN list
        PROVE  effective_status(cfg, list[i]) \in VerdictStatus
    <3>1. list[i] \in SensorSummary
      OBVIOUS
    <3> QED
      BY <3>1 DEF SensorSummary, effective_status, VerdictStatus
  <2> QED
    BY <2>1
<1>2. /\ statuses \in SUBSET VerdictStatus /\ "pass" \in statuses
      /\ \A t : t \in statuses <=> t = "pass" \/ Worst(list, t)
  BY <1>1 DEF Worst, VerdictStatus
<1>3. overall_verdict(list, cfg).status = worst
  BY DEF overall_verdict
<1> HIDE DEF statuses
<1>4. worst \in statuses /\ \A t \in statuses : verdict_status_rank[worst] <= verdict_status_rank[t]
  <2>1. \E w \in statuses : \A t \in statuses : verdict_status_rank[w] <= verdict_status_rank[t]
    BY <1>2, WorstStatus
  <2> QED
    BY <2>1
<1> HIDE DEF worst
<1>5. worst \in {"pass", "warn", "fail"}
  BY <1>2, <1>4 DEF verdict_status_rank, VerdictStatus
<1>6. /\ "fail" \in statuses => worst = "fail"
      /\ "fail" \notin statuses /\ "warn" \in statuses => worst = "warn"
      /\ "fail" \notin statuses /\ "warn" \notin statuses => worst = "pass"
  BY <1>2, <1>4, <1>5 DEF verdict_status_rank
<1> QED
  BY <1>2, <1>3, <1>6

(***************************************************************************)
(* What a summary says, and what was seen of its sensor.                   *)
(***************************************************************************)
Judged(s, id, e) ==
  /\ s.id = id /\ s.blocking = policy_of(cfg, id).blocking
  /\ s.status = "fail" <=> e \in {"fail", "rejected"} \/ (e = "missing" /\ policy_of(cfg, id).missing = "fail")
  /\ s.status = "warn" <=> e = "warn" \/ (e = "missing" /\ policy_of(cfg, id).missing = "warn")

(* Every handler's summary agrees with the evidence its branch stands for. *)
LEMMA HandlersJudge ==
  ASSUME NEW id \in Ids, policy_of(cfg, id) \in SensorPolicy, NEW comment_present
  PROVE  LET policy == policy_of(cfg, id)
         IN  /\ Judged(synthesize_path_traversal_sensor(id, policy, comment_present).summary, id, "rejected")
             /\ Judged(synthesize_invalid_sensor(id, policy, comment_present).summary, id, "rejected")
             /\ Judged(synthesize_schema_violation_sensor(id, policy, comment_present).summary, id, "rejected")
             /\ Judged(synthesize_missing_sensor(id, policy, comment_present).summary, id, "missing")
             /\ Judged(synthesize_missing_sensor(id, [policy EXCEPT !.missing = "skip"], comment_present).summary,
                       id, "gated")
             /\ \A size : Judged(synthesize_receipt_oversized_sensor(id, policy, comment_present, size).summary,
                                 id, "rejected")
             /\ \A report, max : report.status \in VerdictStatus =>
                  Judged(summarize_sensor_report(id, comment_present, policy, report, max).summary,
                         id, report.status)
<1> DEFINE policy == policy_of(cfg, id)
           skipping == [policy EXCEPT !.missing = "skip"]
<1>1. policy.missing \in MissingPolicy
  BY DEF SensorPolicy
<1>2. skipping.missing = "skip" /\ skipping.blocking = policy.blocking
  BY DEF SensorPolicy
<1>3. /\ synthesize_path_traversal_sensor(id, policy, comment_present).summary.status = "fail"
      /\ synthesize_invalid_sensor(id, policy, comment_present).summary.status = "fail"
      /\ synthesize_schema_violation_sensor(id, policy, comment_present).summary.status = "fail"
  BY DEF synthesize_path_traversal_sensor, synthesize_invalid_sensor, synthesize_schema_violation_sensor,
         Unusable, Summary
<1>4. /\ \A size : synthesize_receipt_oversized_sensor(id, policy, comment_present, size).summary.status = "fail"
      /\ \A report, max :
           summarize_sensor_report(id, comment_present, policy, report, max).summary.status = report.status
  BY DEF synthesize_receipt_oversized_sensor, summarize_sensor_report, Summary
<1>5. \A p : synthesize_missing_sensor(id, p, comment_present).summary.status = p.missing
  BY DEF synthesize_missing_sensor, Summary
<1> HIDE DEF policy, skipping
<1>6. \A s : Names(s, id, skipping) => Names(s, id, policy)
  BY <1>2 DEF Names
<1>7. /\ Judged(synthesize_path_traversal_sensor(id, policy, comment_present).summary, id, "rejected")
      /\ Judged(synthesize_invalid_sensor(id, policy, comment_present).summary, id, "rejected")
      /\ Judged(synthesize_schema_violation_sensor(id, policy, comment_present).summary, id, "rejected")
  BY <1>3, OutcomesName DEF Judged, Names, policy
<1>8. Judged(synthesize_missing_sensor(id, policy, comment_present).summary, id, "missing")
  <2> DEFINE s == synthesize_missing_sensor(id, policy, comment_present).summary
  <2>1. s.status = policy.missing
    BY <1>5
  <2>2. Names(s, id, policy)
    BY OutcomesName
  <2> HIDE DEF s
  <2>3. policy.missing \in {"fail", "warn", "skip"}
    BY <1>1 DEF MissingPolicy
  <2>4. Judged(s, id, "missing")
    BY <2>1, <2>2, <2>3 DEF Judged, Names, policy
  <2> QED
    BY <2>4 DEF s
<1>9. Judged(synthesize_missing_sensor(id, skipping, comment_present).summary, id, "gated")
  <2>1. synthesize_missing_sensor(id, skipping, comment_present).summary.status = "skip"
    BY <1>2, <1>5
  <2>2. Names(synthesize_missing_sensor(id, skipping, comment_present).summary, id, policy)
    BY <1>6, OutcomesName
  <2> QED
    BY <2>1, <2>2 DEF Judged, Names, policy
<1>10. \A size : Judged(synthesize_receipt_oversized_sensor(id, policy, comment_present, size).summary,
                        id, "rejected")
  BY <1>4, OversizedNames DEF Judged, Names, policy
<1>11. ASSUME NEW report, NEW max, report.status \in VerdictStatus
       PROVE  Judged(summarize_sensor_report(id, comment_present, policy, report, max).summary, id, report.status)
  <2> DEFINE s == summarize_sensor_report(id, comment_present, policy, report, max).summary
  <2>1. s.status = report.status /\ Names(s, id, policy)
    BY <1>4, ReportNames
  <2> HIDE DEF s
  <2>2. Judged(s, id, report.status)
    BY <1>11, <2>1 DEF Judged, Names, VerdictStatus, policy
  <2> QED
    BY <2>2 DEF s
<1> QED
  BY <1>7, <1>8, <1>9, <1>10, <1>11 DEF policy, skipping

(***************************************************************************)
(* The state the promise is about.                                         *)
(***************************************************************************)
PolicyMap == IF cfg = None THEN None ELSE [id \in Expected |-> policy_of(cfg, id)]

WarnIsFail == IF cfg = None THEN FALSE ELSE cfg.warn_is_fail

Published == IF report_file \in {None, Torn} THEN None ELSE report_file.verdict.status

FailingNow(id) ==
  \/ seen[id] \in {"fail", "rejected"}
  \/ seen[id] = "missing" /\ policy_of(cfg, id).missing = "fail"

WarningNow(id) ==
  \/ seen[id] = "warn"
  \/ seen[id] = "missing" /\ policy_of(cfg, id).missing = "warn"

(* The list holds one judged summary of every sensor seen, and no other.   *)
AllJudged(list) ==
  /\ \A i \in DOMAIN list :
       /\ list[i].id \in Ids /\ seen[list[i].id] # None
       /\ Judged(list[i], list[i].id, seen[list[i].id])
  /\ \A id \in Ids : seen[id] # None => \E i \in DOMAIN list : list[i].id = id

(* With every expected sensor seen, the verdict over such a list is the    *)
(* one the promise gives the evidence.                                     *)
LEMMA VerdictAgrees ==
  ASSUME TypeInv, IsConfig(cfg), cfg # None, todo = {},
         NEW list \in Seq(SensorSummary), AllJudged(list)
  PROVE  overall_verdict(list, cfg).status = Promise!Verdict
<1> DEFINE Blocks(id) == policy_of(cfg, id).blocking
<1>1. cfg.warn_is_fail \in BOOLEAN
  BY DEF IsConfig
<1>2. Expected = {id \in Ids : seen[id] # None}
  BY DEF Expected
<1>3. ASSUME NEW i \in DOMAIN list
      PROVE  /\ list[i].id \in Expected /\ list[i].blocking = Blocks(list[i].id)
             /\ effective_status(cfg, list[i]) = "fail" <=>
                  FailingNow(list[i].id) \/ (cfg.warn_is_fail /\ WarningNow(list[i].id))
             /\ effective_status(cfg, list[i]) = "warn" <=>
                  ~cfg.warn_is_fail /\ WarningNow(list[i].id)
  <2> DEFINE s == list[i]
  <2>1. s.id \in Expected /\ Judged(s, s.id, seen[s.id])
    BY <1>2 DEF AllJudged
  <2> HIDE DEF s
  <2>2. s.status = "fail" <=> FailingNow(s.id)
    BY <2>1 DEF Judged, FailingNow
  <2>3. s.status = "warn" <=> WarningNow(s.id)
    BY <2>1 DEF Judged, WarningNow
  <2>4. s.blocking = Blocks(s.id)
    BY <2>1 DEF Judged
  <2>5. /\ effective_status(cfg, s) = "fail" <=>
             FailingNow(s.id) \/ (cfg.warn_is_fail /\ WarningNow(s.id))
        /\ effective_status(cfg, s) = "warn" <=> ~cfg.warn_is_fail /\ WarningNow(s.id)
    BY <1>1, <2>2, <2>3 DEF effective_status
  <2> QED
    BY <2>1, <2>4, <2>5 DEF s
<1>4. \A id \in Expected : \E i \in DOMAIN list : list[i].id = id
  BY <1>2 DEF AllJudged
<1>5. Worst(list, "fail") <=>
        \E id \in Expected : Blocks(id) /\ (FailingNow(id) \/ (cfg.warn_is_fail /\ WarningNow(id)))
  <2> HIDE DEF Blocks
  <2> QED
    BY <1>3, <1>4 DEF Worst
<1>6. Worst(list, "warn") <=>
        \E id \in Expected : Blocks(id) /\ ~cfg.warn_is_fail /\ WarningNow(id)
  <2> HIDE DEF Blocks
  <2> QED
    BY <1>3, <1>4 DEF Worst
<1>7. Promise!Verdict =
        IF \E id \in Expected : Blocks(id) /\ (FailingNow(id) \/ (cfg.warn_is_fail /\ WarningNow(id)))
        THEN "fail" ELSE IF \E id \in Expected : Blocks(id) /\ WarningNow(id) THEN "warn" ELSE "pass"
  <2>1. /\ DOMAIN PolicyMap = Expected /\ WarnIsFail = cfg.warn_is_fail
        /\ \A id \in Expected : PolicyMap[id] = policy_of(cfg, id)
    BY DEF PolicyMap, WarnIsFail
  <2>2. Promise!Blocking = {id \in DOMAIN PolicyMap : PolicyMap[id].blocking}
    BY DEF Promise!Blocking, PolicyMap
  <2>3. Promise!Blocking = {id \in Expected : Blocks(id)}
    BY <2>1, <2>2
  <2>4. \A id \in Expected : /\ Promise!Failing(id) <=> FailingNow(id)
                             /\ Promise!Warning(id) <=> WarningNow(id)
    BY DEF Promise!Failing, Promise!Warning, FailingNow, WarningNow
  <2> HIDE DEF Blocks
  <2>5. Promise!Verdict =
          IF \E id \in Promise!Blocking : Promise!Failing(id) \/ (WarnIsFail /\ Promise!Warning(id))
          THEN "fail" ELSE IF \E id \in Promise!Blocking : Promise!Warning(id) THEN "warn" ELSE "pass"
    BY DEF Promise!Verdict, WarnIsFail
  <2> QED
    BY <2>1, <2>3, <2>4, <2>5
<1> HIDE DEF Blocks
<1> QED
  BY <1>1, <1>5, <1>6, <1>7, VerdictIsWorst

(***************************************************************************)
(* One call of a sensor's processing.                                      *)
(***************************************************************************)

(* A call makes the run stop, or goes on to the next call of the same      *)
(* sensor, or concludes with a summary that agrees with what was seen.     *)
LEMMA ProcessJudges ==
  ASSUME TypeInv, NEW id \in Ids, Process(id)
  PROVE  /\ pc \in {"sensor", "comment", "gate", "canonicalize", "metadata", "read"} /\ IsNext(id)
         /\ \/ Stop
            \/ /\ pc' \in {"comment", "gate", "canonicalize", "metadata", "read"}
               /\ UNCHANGED <<envvars, cfg, todo, summaries, outvars, seen>>
            \/ \E r : \E e \in Evidence :
                 /\ Conclude(id, r, e) /\ Judged(r.summary, id, e)
                 /\ e \in VerdictStatus => pc = "read"
<1> DEFINE policy == policy_of(cfg, id)
           skipping == [policy EXCEPT !.missing = "skip"]
           Ends(r, e) == /\ Conclude(id, r, e) /\ Judged(r.summary, id, e)
                         /\ e \in VerdictStatus => pc = "read"
           Goes == /\ pc' \in {"comment", "gate", "canonicalize", "metadata", "read"}
                   /\ UNCHANGED <<envvars, cfg, todo, summaries, outvars, seen>>
<1>1. pc \in {"sensor", "comment", "gate", "canonicalize", "metadata", "read"} /\ IsNext(id)
  BY DEF Process, RejectId, CheckComment, CanonicalizeComment, SkipGated, CheckExists,
         Canonicalize, CheckSize, ReadReceipt
<1>2. policy \in SensorPolicy
  BY <1>1, PolicyTypes
<1>3. {"gated", "missing", "rejected"} \subseteq Evidence /\ VerdictStatus \subseteq Evidence
  BY DEF Evidence
<1>4. \A step \in {"comment", "gate", "canonicalize", "metadata", "read"} : Continue(step) => Goes
  BY DEF Continue, envvars, outvars
<1>5. \A c : /\ Judged(synthesize_path_traversal_sensor(id, policy, c).summary, id, "rejected")
            /\ Judged(synthesize_invalid_sensor(id, policy, c).summary, id, "rejected")
            /\ Judged(synthesize_schema_violation_sensor(id, policy, c).summary, id, "rejected")
            /\ Judged(synthesize_missing_sensor(id, policy, c).summary, id, "missing")
            /\ Judged(synthesize_missing_sensor(id, skipping, c).summary, id, "gated")
            /\ \A size : Judged(synthesize_receipt_oversized_sensor(id, policy, c, size).summary,
                                id, "rejected")
            /\ \A report, max : report.status \in VerdictStatus =>
                 Judged(summarize_sensor_report(id, c, policy, report, max).summary, id, report.status)
  BY <1>2, HandlersJudge
<1> HIDE DEF policy, skipping
<1>6. Stop \/ Goes \/ \E r : \E e \in Evidence : Ends(r, e)
  <2>1. ASSUME NEW c,
               \/ Conclude(id, synthesize_path_traversal_sensor(id, policy, c), "rejected")
               \/ Conclude(id, synthesize_missing_sensor(id, policy, c), "missing")
               \/ Conclude(id, synthesize_missing_sensor(id, skipping, c), "gated")
               \/ \E size : Conclude(id, synthesize_receipt_oversized_sensor(id, policy, c, size), "rejected")
        PROVE  \E r : \E e \in Evidence : Ends(r, e)
    <3> HIDE DEF Ends
    <3>1. CASE Conclude(id, synthesize_path_traversal_sensor(id, policy, c), "rejected")
      <4>1. Ends(synthesize_path_traversal_sensor(id, policy, c), "rejected")
        BY <1>5, <3>1 DEF Ends, VerdictStatus
      <4> QED
        BY <1>3, <4>1
    <3>2. CASE Conclude(id, synthesize_missing_sensor(id, policy, c), "missing")
      <4>1. Ends(synthesize_missing_sensor(id, policy, c), "missing")
        BY <1>5, <3>2 DEF Ends, VerdictStatus
      <4> QED
        BY <1>3, <4>1
    <3>3. CASE Conclude(id, synthesize_missing_sensor(id, skipping, c), "gated")
      <4>1. Ends(synthesize_missing_sensor(id, skipping, c), "gated")
        BY <1>5, <3>3 DEF Ends, VerdictStatus
      <4> QED
        BY <1>3, <4>1
    <3>4. ASSUME NEW size,
                 Conclude(id, synthesize_receipt_oversized_sensor(id, policy, c, size), "rejected")
          PROVE  \E r : \E e \in Evidence : Ends(r, e)
      <4>1. Ends(synthesize_receipt_oversized_sensor(id, policy, c, size), "rejected")
        BY <1>5, <3>4 DEF Ends, VerdictStatus
      <4> QED
        BY <1>3, <4>1
    <3> QED
      BY <2>1, <3>1, <3>2, <3>3, <3>4
  <2>2. CASE RejectId(id) \/ SkipGated(id)
    BY <2>1, <2>2 DEF RejectId, SkipGated, policy, skipping
  <2>3. CASE CheckComment(id)
    BY <1>4, <2>3 DEF CheckComment
  <2>4. CASE CanonicalizeComment(id)
    BY <2>4 DEF CanonicalizeComment, envvars, outvars
  <2>5. CASE CheckExists(id)
    BY <1>4, <2>1, <2>5 DEF CheckExists, policy
  <2>6. CASE Canonicalize(id)
    BY <1>4, <2>1, <2>6 DEF Canonicalize, policy
  <2>7. CASE CheckSize(id)
    <3>1. CASE store[id] = None
      BY <2>7, <3>1 DEF CheckSize
    <3>2. CASE store[id] # None
      <4>1. PICK file \in Contents(id) :
               IF file.size > MaxReceiptBytes
               THEN Conclude(id, synthesize_receipt_oversized_sensor(id, policy, comment_path,
                                   file.size), "rejected")
               ELSE Continue("read")
        BY <2>7, <3>2 DEF CheckSize, policy
      <4>2. CASE file.size > MaxReceiptBytes
        BY <2>1, <4>1, <4>2
      <4>3. CASE ~(file.size > MaxReceiptBytes)
        BY <1>4, <4>1, <4>3
      <4> QED
        BY <4>2, <4>3
    <3> QED
      BY <3>1, <3>2
  <2>8. CASE ReadReceipt(id)
    <3>1. CASE store[id] = None
      BY <2>8, <3>1 DEF ReadReceipt
    <3>2. CASE store[id] # None
      <4>1. PICK file \in Contents(id) :
               IF Strict /\ ~file.schema_ok
               THEN Conclude(id, synthesize_schema_violation_sensor(id, policy, comment_path),
                             "rejected")
               ELSE IF file.report = None
               THEN Conclude(id, synthesize_invalid_sensor(id, policy, comment_path), "rejected")
               ELSE Conclude(id, summarize_sensor_report(id, comment_path, policy, file.report,
                                   cfg.max_per_sensor_findings), file.report.status)
        BY <2>8, <3>2 DEF ReadReceipt, policy
      <4>2. pc = "read"
        BY <2>8 DEF ReadReceipt
      <4>3. file.report # None => file.report.status \in VerdictStatus
        <5>1. id \in Sensors
          BY <1>1, <4>2 DEF TypeInv, IdChecked, AtFiles
        <5>2. store[id] \in Files \cup {Escape}
          BY <3>2, <5>1, IngestAssumption DEF TypeInv, TypeOK
        <5>3. file \in Files
          BY <4>1, <5>2, IngestAssumption DEF Contents
        <5>4. file.report \in SensorReport \cup {None}
          BY <5>3, IngestAssumption DEF ReceiptFile
        <5> QED
          BY <5>4 DEF SensorReport
      <4>4. ASSUME NEW r, NEW e \in Evidence, Conclude(id, r, e), Judged(r.summary, id, e)
            PROVE  \E s : \E f \in Evidence : Ends(s, f)
        BY <4>2, <4>4
      <4> HIDE DEF Ends
      <4>5. CASE Strict /\ ~file.schema_ok
        BY <1>3, <1>5, <4>1, <4>4, <4>5
      <4>6. CASE ~(Strict /\ ~file.schema_ok) /\ file.report = None
        BY <1>3, <1>5, <4>1, <4>4, <4>6
      <4>7. CASE ~(Strict /\ ~file.schema_ok) /\ file.report # None
        BY <1>3, <1>5, <4>1, <4>3, <4>4, <4>7
      <4> QED
        BY <4>5, <4>6, <4>7
    <3> QED
      BY <3>1, <3>2
  <2> QED
    BY <2>2, <2>3, <2>4, <2>5, <2>6, <2>7, <2>8 DEF Process
<1> QED
  BY <1>1, <1>6

(***************************************************************************)
(* What the run has seen.                                                  *)
(***************************************************************************)

(* Nothing is seen before the configuration is loaded.                     *)
Unseen ==
  pc = "discover" => /\ cfg = None /\ todo = {} /\ summaries = << >>
                     /\ seen = [id \in Ids |-> None]

(* The summaries are judged, and what is still to do was not seen.         *)
Working == pc \notin {"discover", "failed"} => AllJudged(summaries) /\ \A id \in todo : seen[id] = None

(* The report about to be written has the verdict the promise gives.       *)
Ready == pc = "write_report" => todo = {} /\ built.verdict.status = Promise!Verdict

SeenInv == Unseen /\ Working /\ Ready

(* The verdict depends on the configuration and what was seen only.        *)
LEMMA SameVerdict ==
  ASSUME UNCHANGED <<cfg, todo, seen>>
  PROVE  Promise!Verdict' = Promise!Verdict
<1>1. Expected' = Expected
  BY DEF Expected
<1> QED
  BY <1>1 DEF Promise!Verdict, Promise!Blocking, Promise!Failing, Promise!Warning, policy_of

(* Nor does judging depend on anything else.                               *)
LEMMA SameJudged ==
  ASSUME UNCHANGED <<cfg, seen, summaries>>
  PROVE  AllJudged(summaries)' <=> AllJudged(summaries)
BY DEF AllJudged, Judged, policy_of

(* Concluding a sensor adds the judged summary of one not seen before.     *)
LEMMA ConcludeKeepsSeen ==
  ASSUME TypeInv, pc \notin {"discover", "failed"}, Working,
         NEW id \in Ids, IsNext(id), NEW r, NEW e \in Evidence,
         Conclude(id, r, e), Judged(r.summary, id, e)
  PROVE  SeenInv'
<1> DEFINE s == r.summary
           n == Len(summaries)
<1>1. /\ summaries' = Append(summaries, s) /\ seen' = [seen EXCEPT ![id] = e]
      /\ todo' = todo \ {id} /\ pc' = "sensor" /\ cfg' = cfg
  BY DEF Conclude
<1>2. id \in todo /\ seen[id] = None /\ AllJudged(summaries) /\ \A other \in todo : seen[other] = None
  BY DEF IsNext, Working
<1>3. /\ seen'[id] = e /\ e # None /\ \A other \in Ids \ {id} : seen'[other] = seen[other]
  BY <1>1, PromiseAssumption DEF TypeInv, TypeOK
<1>4. Judged(s, id, e) /\ s.id = id
  BY DEF Judged
<1> HIDE DEF s
<1>5. /\ n \in Nat /\ DOMAIN summaries = 1 .. n /\ DOMAIN summaries' = 1 .. (n + 1)
      /\ \A i \in 1 .. n : summaries'[i] = summaries[i]
      /\ summaries'[n + 1] = s
  BY <1>1 DEF TypeInv, TypeOK
<1> HIDE DEF n
<1>6. \A t, other, f : Judged(t, other, f)' <=> Judged(t, other, f)
  BY <1>1 DEF Judged, policy_of
<1>7. ASSUME NEW i \in DOMAIN summaries'
      PROVE  /\ summaries'[i].id \in Ids /\ seen'[summaries'[i].id] # None
             /\ Judged(summaries'[i], summaries'[i].id, seen'[summaries'[i].id])
  <2>1. CASE i = n + 1
    BY <1>3, <1>4, <1>5, <2>1
  <2>2. CASE i # n + 1
    <3>1. i \in DOMAIN summaries /\ summaries'[i] = summaries[i]
      BY <1>5, <2>2
    <3>2. /\ summaries[i].id \in Ids /\ seen[summaries[i].id] # None
          /\ Judged(summaries[i], summaries[i].id, seen[summaries[i].id])
      BY <1>2, <3>1 DEF AllJudged
    <3>3. summaries[i].id # id
      BY <1>2, <3>2
    <3> QED
      BY <1>3, <3>1, <3>2, <3>3
  <2> QED
    BY <2>1, <2>2
<1>8. ASSUME NEW other \in Ids, seen'[other] # None
      PROVE  \E i \in DOMAIN summaries' : summaries'[i].id = other
  <2>1. CASE other = id
    <3>1. n + 1 \in DOMAIN summaries' /\ summaries'[n + 1].id = id
      BY <1>4, <1>5
    <3> QED
      BY <2>1, <3>1
  <2>2. CASE other # id
    <3>1. PICK i \in DOMAIN summaries : summaries[i].id = other
      BY <1>2, <1>3, <1>8, <2>2 DEF AllJudged
    <3>2. i \in DOMAIN summaries' /\ summaries'[i] = summaries[i]
      BY <1>5, <3>1
    <3> QED
      BY <3>1, <3>2
  <2> QED
    BY <2>1, <2>2
<1>9. AllJudged(summaries)'
  BY <1>6, <1>7, <1>8 DEF AllJudged
<1>10. \A other \in todo' : seen'[other] = None
  <2>1. todo \subseteq Ids
    BY DEF TypeInv, TypeOK
  <2> QED
    BY <1>1, <1>2, <1>3, <2>1
<1> QED
  BY <1>1, <1>9, <1>10 DEF SeenInv, Unseen, Working, Ready

(* The report is built from the judged summaries, sorted.                  *)
LEMMA BuildReportIsReady ==
  ASSUME TypeInv, Working, BuildReport
  PROVE  SeenInv'
<1>1. /\ pc = "sensor" /\ todo = {} /\ pc' = "write_report" /\ UNCHANGED <<cfg, todo, seen>>
      /\ summaries' = sort_sensor_summaries(summaries, cfg)
      /\ built'.verdict = overall_verdict(summaries', cfg)
  BY DEF BuildReport
<1>2. IsConfig(cfg) /\ cfg # None
  <2>1. cfg \in Configs \cup {DefaultConfig}
    BY <1>1 DEF TypeInv, Loaded
  <2> QED
    BY <2>1, ConfigTypes, IngestAssumption, PromiseAssumption
<1>3. cfg.section_order \in Seq(Nat) /\ summaries \in Seq(SensorSummary)
  BY <1>2 DEF IsConfig, TypeInv, TypeOK
<1>4. summaries' \in Seq(SensorSummary)
  BY <1>1, <1>3, SortSummariesSorts
<1>5. PICK p \in Bijection(DOMAIN summaries, DOMAIN summaries) :
        summaries' = [k \in DOMAIN summaries |-> summaries[p[k]]]
  BY <1>1, <1>3, SortSummariesSorts
<1>6. /\ p \in [DOMAIN summaries -> DOMAIN summaries]
      /\ \A t \in DOMAIN summaries : \E k \in DOMAIN summaries : p[k] = t
  BY <1>5, Fun_BijectionProperties
<1>7. AllJudged(summaries)
  BY <1>1 DEF Working
<1> DEFINE list == summaries'
<1>8. AllJudged(list)
  <2>1. \A k \in DOMAIN list : p[k] \in DOMAIN summaries /\ list[k] = summaries[p[k]]
    BY <1>5, <1>6
  <2>2. \A i \in DOMAIN summaries : \E k \in DOMAIN list : list[k] = summaries[i]
    <3> SUFFICES ASSUME NEW i \in DOMAIN summaries
                 PROVE  \E k \in DOMAIN list : list[k] = summaries[i]
      OBVIOUS
    <3>1. PICK k \in DOMAIN summaries : p[k] = i
      BY <1>6
    <3>2. k \in DOMAIN list /\ list[k] = summaries[i]
      BY <1>5, <3>1
    <3> QED
      BY <3>2
  <2> HIDE DEF list
  <2> QED
    BY <1>7, <2>1, <2>2 DEF AllJudged
<1>9. built'.verdict.status = Promise!Verdict
  <2>1. \A l \in Seq(SensorSummary) : AllJudged(l) => overall_verdict(l, cfg).status = Promise!Verdict
    BY <1>1, <1>2, VerdictAgrees
  <2> QED
    BY <1>1, <1>4, <1>8, <2>1
<1>10. Promise!Verdict' = Promise!Verdict
  BY <1>1, SameVerdict
<1>11. AllJudged(summaries)'
  BY <1>1, <1>8 DEF AllJudged, Judged, policy_of
<1> QED
  BY <1>1, <1>9, <1>10, <1>11 DEF SeenInv, Unseen, Working, Ready

(* Every step keeps that so.                                               *)
LEMMA StepSeen ==
  TypeInv /\ SeenInv /\ [Next]_vars => SeenInv'
<1> SUFFICES ASSUME TypeInv, SeenInv, [Next]_vars PROVE SeenInv'
  OBVIOUS
<1>1. ASSUME UNCHANGED <<cfg, todo, seen, summaries>>, pc' = pc, built' = built
      PROVE  SeenInv'
  BY <1>1, SameVerdict, SameJudged DEF SeenInv, Unseen, Working, Ready
<1>2. ASSUME UNCHANGED <<cfg, todo, seen, summaries>>, pc' \notin {"discover", "write_report"},
             pc # "discover", pc = "failed" => pc' = "failed"
      PROVE  SeenInv'
  BY <1>2, SameJudged DEF SeenInv, Unseen, Working, Ready
<1>3. ASSUME pc' = "failed"
      PROVE  SeenInv'
  BY <1>3 DEF SeenInv, Unseen, Working, Ready
<1>4. ASSUME NEW name \in Ids, ScanEntry(name)
      PROVE  SeenInv'
  BY <1>1, <1>4 DEF ScanEntry, outvars
<1>5. CASE LoadConfig
  <2>1. CASE pc' = "failed"
    BY <1>3, <2>1
  <2>2. CASE pc' # "failed"
    <3>1. /\ pc = "discover" /\ pc' = "sensor" /\ UNCHANGED <<summaries, seen>>
      BY <1>5, <2>2 DEF LoadConfig, Fail
    <3>2. summaries' = << >> /\ \A id \in Ids : seen'[id] = None
      BY <3>1 DEF SeenInv, Unseen
    <3>3. todo' \subseteq Ids
      BY <1>5, LoadConfigTypes DEF TypeInv, TypeOK
    <3>4. AllJudged(summaries)'
      BY <3>2 DEF AllJudged
    <3> QED
      BY <3>1, <3>2, <3>3, <3>4 DEF SeenInv, Unseen, Working, Ready
  <2> QED
    BY <2>1, <2>2
<1>6. ASSUME NEW id \in Ids, Process(id)
      PROVE  SeenInv'
  <2>1. pc \in {"sensor", "comment", "gate", "canonicalize", "metadata", "read"} /\ IsNext(id)
    BY <1>6, ProcessJudges
  <2>2. CASE Stop
    BY <1>3, <2>2 DEF Stop, Fail
  <2>3. CASE /\ pc' \in {"comment", "gate", "canonicalize", "metadata", "read"}
             /\ UNCHANGED <<cfg, todo, summaries, seen>>
    BY <1>2, <2>1, <2>3
  <2>4. ASSUME NEW r, NEW e \in Evidence, Conclude(id, r, e), Judged(r.summary, id, e)
        PROVE  SeenInv'
    BY <2>1, <2>4, ConcludeKeepsSeen DEF SeenInv
  <2> QED
    BY <1>6, <2>2, <2>3, <2>4, ProcessJudges
<1>7. CASE BuildReport
  BY <1>7, BuildReportIsReady DEF SeenInv
<1>8. CASE WriteReport \/ WriteComment
  BY <1>2, <1>8 DEF WriteReport, WriteComment
<1>9. CASE IoError
  BY <1>3, <1>9 DEF IoError
<1>10. ASSUME \/ \E s \in Sensors : SensorWrites(s) \/ SensorComments(s)
              \/ UNCHANGED vars
       PROVE  SeenInv'
  BY <1>1, <1>10 DEF SensorWrites, SensorComments, vars, outvars
<1> QED
  BY <1>4, <1>5, <1>6, <1>7, <1>8, <1>9, <1>10 DEF Next, Program, Environment

(***************************************************************************)
(* The refinement.                                                         *)
(***************************************************************************)

(* The steps of the promise, said of the state of the run.                 *)
LEMMA PromiseSteps ==
  /\ UNCHANGED Promise!vars <=> UNCHANGED <<PolicyMap, WarnIsFail, seen, Published, exit>>
  /\ Promise!Configure <=>
       /\ PolicyMap = None /\ exit = None
       /\ \E D \in SUBSET Ids : PolicyMap' \in [D -> SensorPolicy]
       /\ WarnIsFail' \in BOOLEAN
       /\ UNCHANGED <<seen, Published, exit>>
  /\ \A id : Promise!Observe(id) <=>
       /\ exit = None /\ PolicyMap # None /\ id \in DOMAIN PolicyMap /\ seen[id] = None
       /\ \E e \in Evidence : seen' = [seen EXCEPT ![id] = e]
       /\ UNCHANGED <<PolicyMap, WarnIsFail, Published, exit>>
  /\ Promise!Publish <=>
       /\ exit = None /\ PolicyMap # None /\ Published = None
       /\ \A id \in DOMAIN PolicyMap : seen[id] # None
       /\ Published' = Promise!Verdict
       /\ UNCHANGED <<PolicyMap, WarnIsFail, seen, exit>>
  /\ Promise!Exit <=>
       /\ exit = None /\ Published # None
       /\ exit' = IF Published = "fail" THEN 2 ELSE 0
       /\ UNCHANGED <<PolicyMap, WarnIsFail, seen, Published>>
  /\ Promise!GiveUp <=>
       /\ exit = None /\ exit' = 1
       /\ UNCHANGED <<PolicyMap, WarnIsFail, seen>>
       /\ Published' = Published
<1>1. Promise!SensorPolicy = SensorPolicy /\ Promise!Evidence = Evidence
  BY DEF Promise!SensorPolicy, Promise!MissingPolicy, SensorPolicy, MissingPolicy,
         Promise!Evidence, Promise!VerdictStatus, Evidence, VerdictStatus
<1> USE DEF PolicyMap, WarnIsFail, Published
<1>2. UNCHANGED Promise!vars <=> UNCHANGED <<PolicyMap, WarnIsFail, seen, Published, exit>>
  BY DEF Promise!vars
<1>3. Promise!Configure <=>
        /\ PolicyMap = None /\ exit = None
        /\ \E D \in SUBSET Ids : PolicyMap' \in [D -> SensorPolicy]
        /\ WarnIsFail' \in BOOLEAN
        /\ UNCHANGED <<seen, Published, exit>>
  BY <1>1 DEF Promise!Configure
<1>4. \A id : Promise!Observe(id) <=>
        /\ exit = None /\ PolicyMap # None /\ id \in DOMAIN PolicyMap /\ seen[id] = None
        /\ \E e \in Evidence : seen' = [seen EXCEPT ![id] = e]
        /\ UNCHANGED <<PolicyMap, WarnIsFail, Published, exit>>
  BY <1>1 DEF Promise!Observe
<1>5. Promise!Publish <=>
        /\ exit = None /\ PolicyMap # None /\ Published = None
        /\ \A id \in DOMAIN PolicyMap : seen[id] # None
        /\ Published' = Promise!Verdict
        /\ UNCHANGED <<PolicyMap, WarnIsFail, seen, exit>>
  BY DEF Promise!Publish
<1>6. Promise!Exit <=>
        /\ exit = None /\ Published # None
        /\ exit' = IF Published = "fail" THEN 2 ELSE 0
        /\ UNCHANGED <<PolicyMap, WarnIsFail, seen, Published>>
  BY DEF Promise!Exit
<1>7. Promise!GiveUp <=>
        /\ exit = None /\ exit' = 1
        /\ UNCHANGED <<PolicyMap, WarnIsFail, seen>>
        /\ Published' = Published
  BY DEF Promise!GiveUp
<1> QED
  BY <1>2, <1>3, <1>4, <1>5, <1>6, <1>7

(* What the promise knows of the policy is fixed with the expected sensors. *)
LEMMA SamePolicy ==
  ASSUME cfg' = cfg, Expected' = Expected
  PROVE  PolicyMap' = PolicyMap /\ WarnIsFail' = WarnIsFail
BY DEF PolicyMap, WarnIsFail, policy_of

(* Once the configuration is loaded, the policy is a function.             *)
LEMMA PolicyIsFixed ==
  ASSUME TypeInv, pc \notin {"discover", "failed"}
  PROVE  /\ cfg # None /\ IsConfig(cfg) /\ WarnIsFail = cfg.warn_is_fail
         /\ Expected \subseteq Ids /\ DOMAIN PolicyMap = Expected
         /\ PolicyMap \in [Expected -> SensorPolicy] /\ PolicyMap # None
<1>1. cfg # None /\ IsConfig(cfg)
  <2>1. cfg \in Configs \cup {DefaultConfig}
    BY DEF TypeInv, Loaded
  <2> QED
    BY <2>1, ConfigTypes, IngestAssumption, PromiseAssumption
<1>2. Expected \subseteq Ids
  BY DEF Expected, TypeInv, TypeOK
<1>3. \A id \in Expected : policy_of(cfg, id) \in SensorPolicy
  BY <1>2, PolicyTypes
<1>4. PolicyMap = [id \in Expected |-> policy_of(cfg, id)] /\ WarnIsFail = cfg.warn_is_fail
  BY <1>1 DEF PolicyMap, WarnIsFail
<1>5. PolicyMap \in [Expected -> SensorPolicy]
  BY <1>3, <1>4
<1> QED
  BY <1>1, <1>2, <1>4, <1>5, PromiseAssumption

(* Each step of the run is a step of the promise, or the promise does not  *)
(* see it.                                                                 *)
LEMMA StepImplements ==
  TypeInv /\ FilesInv /\ SeenInv /\ [Next]_vars => [Promise!Next]_(Promise!vars)
<1> SUFFICES ASSUME TypeInv, FilesInv, SeenInv, [Next]_vars
             PROVE  Promise!Next \/ UNCHANGED Promise!vars
  OBVIOUS
<1>1. ASSUME UNCHANGED <<cfg, todo, seen, report_file, exit>>
      PROVE  UNCHANGED Promise!vars
  <2>1. Expected' = Expected
    BY <1>1 DEF Expected
  <2>2. PolicyMap' = PolicyMap /\ WarnIsFail' = WarnIsFail
    BY <1>1, <2>1, SamePolicy
  <2>3. Published' = Published
    BY <1>1 DEF Published
  <2> QED
    BY <1>1, <2>2, <2>3, PromiseSteps
<1>2. ASSUME UNCHANGED <<cfg, todo, seen>>, Published' = Published, exit = None, exit' = 1
      PROVE  Promise!Next
  <2>1. Expected' = Expected
    BY <1>2 DEF Expected
  <2>2. PolicyMap' = PolicyMap /\ WarnIsFail' = WarnIsFail
    BY <1>2, <2>1, SamePolicy
  <2>3. Promise!GiveUp
    BY <1>2, <2>2, PromiseSteps
  <2> QED
    BY <2>3 DEF Promise!Next
<1>3. ASSUME NEW name \in Ids, ScanEntry(name)
      PROVE  UNCHANGED Promise!vars
  BY <1>1, <1>3 DEF ScanEntry, outvars
<1>4. CASE LoadConfig
  <2>1. /\ pc = "discover" /\ exit = None /\ report_file = None /\ report_file' = report_file
        /\ cfg = None /\ todo = {} /\ seen' = seen /\ \A id \in Ids : seen[id] = None
    BY <1>4 DEF LoadConfig, Fail, FilesInv, Before, SeenInv, Unseen, outvars
  <2>2. Published' = Published
    BY <2>1 DEF Published
  <2>3. CASE input.config = Broken
    <3>1. UNCHANGED <<cfg, todo, seen>> /\ exit' = 1
      BY <1>4, <2>3 DEF LoadConfig, Fail
    <3> QED
      BY <1>2, <2>1, <2>2, <3>1
  <2>4. CASE input.config # Broken
    <3>1. pc' = "sensor" /\ exit' = exit
      BY <1>4, <2>4 DEF LoadConfig, outvars
    <3>2. TypeInv'
      BY <1>4, LoadConfigTypes
    <3>3. /\ Expected' \subseteq Ids /\ PolicyMap' \in [Expected' -> SensorPolicy]
          /\ WarnIsFail' = cfg'.warn_is_fail /\ cfg'.warn_is_fail \in BOOLEAN
      <4>1. (TypeInv /\ pc \notin {"discover", "failed"})'
        BY <3>1, <3>2
      <4>2. (/\ IsConfig(cfg) /\ WarnIsFail = cfg.warn_is_fail
             /\ Expected \subseteq Ids /\ PolicyMap \in [Expected -> SensorPolicy])'
        BY <4>1, PolicyIsFixed, PTL
      <4> QED
        BY <4>2 DEF IsConfig
    <3>4. PolicyMap = None
      BY <2>1 DEF PolicyMap
    <3>5. Promise!Configure
      BY <2>1, <2>2, <3>1, <3>3, <3>4, PromiseSteps
    <3> QED
      BY <3>5 DEF Promise!Next
  <2> QED
    BY <2>3, <2>4
<1>5. ASSUME NEW id \in Ids, Process(id)
      PROVE  Promise!Next \/ UNCHANGED Promise!vars
  <2>1. pc \in {"sensor", "comment", "gate", "canonicalize", "metadata", "read"} /\ IsNext(id)
    BY <1>5, ProcessJudges
  <2>2. exit = None /\ report_file = None
    BY <2>1 DEF FilesInv, Before
  <2>3. CASE Stop
    <3>1. UNCHANGED <<cfg, todo, seen, report_file>> /\ exit' = 1
      BY <2>3 DEF Stop, Fail
    <3>2. Published' = Published
      BY <3>1 DEF Published
    <3> QED
      BY <1>2, <2>2, <3>1, <3>2
  <2>4. CASE UNCHANGED <<cfg, todo, outvars, seen>>
    BY <1>1, <2>4 DEF outvars
  <2>5. ASSUME NEW r, NEW e \in Evidence, Conclude(id, r, e)
        PROVE  Promise!Next
    <3>1. /\ todo' = todo \ {id} /\ seen' = [seen EXCEPT ![id] = e] /\ cfg' = cfg
          /\ report_file' = report_file /\ exit' = exit
      BY <2>5 DEF Conclude, outvars
    <3>2. id \in todo /\ seen[id] = None
      BY <2>1 DEF IsNext, SeenInv, Working
    <3>3. Expected' = Expected
      <4>1. /\ seen'[id] # None /\ \A other \in Ids \ {id} : seen'[other] = seen[other]
        BY <3>1, PromiseAssumption DEF TypeInv, TypeOK
      <4> QED
        BY <3>1, <3>2, <4>1 DEF Expected
    <3>4. PolicyMap' = PolicyMap /\ WarnIsFail' = WarnIsFail
      BY <3>1, <3>3, SamePolicy
    <3>5. Published' = Published
      BY <3>1 DEF Published
    <3>6. PolicyMap # None /\ id \in DOMAIN PolicyMap
      <4>1. id \in Expected
        BY <3>2 DEF Expected
      <4> QED
        BY <2>1, <4>1, PolicyIsFixed
    <3>7. Promise!Observe(id)
      BY <2>2, <3>1, <3>2, <3>4, <3>5, <3>6, PromiseSteps
    <3> QED
      BY <3>7 DEF Promise!Next
  <2> QED
    BY <1>5, <2>3, <2>4, <2>5, ProcessJudges
<1>6. CASE BuildReport
  BY <1>1, <1>6 DEF BuildReport
<1>7. CASE WriteReport
  <2>1. /\ pc = "write_report" /\ report_file' = built /\ UNCHANGED <<cfg, todo, seen, exit>>
        /\ exit = None /\ report_file = None /\ built \in Report
        /\ todo = {} /\ built.verdict.status = Promise!Verdict
    BY <1>7 DEF WriteReport, FilesInv, Between, SeenInv, Ready
  <2>2. Published = None /\ Published' = built.verdict.status
    BY <2>1, IngestAssumption DEF Published
  <2>3. Expected' = Expected /\ \A id \in Expected : seen[id] # None
    BY <2>1 DEF Expected
  <2>4. PolicyMap' = PolicyMap /\ WarnIsFail' = WarnIsFail
    BY <2>1, <2>3, SamePolicy
  <2>5. PolicyMap # None /\ DOMAIN PolicyMap = Expected
    BY <2>1, PolicyIsFixed
  <2>6. Promise!Publish
    BY <2>1, <2>2, <2>3, <2>4, <2>5, PromiseSteps
  <2> QED
    BY <2>6 DEF Promise!Next
<1>8. CASE WriteComment
  <2>1. /\ exit = None /\ report_file = built /\ built \in Report
        /\ exit' = IF built.verdict.status = "fail" THEN 2 ELSE 0
        /\ UNCHANGED <<cfg, todo, seen, report_file>>
    BY <1>8 DEF WriteComment, FilesInv, Between
  <2>2. Published = built.verdict.status /\ Published' = Published
    BY <2>1, IngestAssumption DEF Published
  <2>3. Published # None
    <3>1. built.verdict.status \in VerdictStatus
      BY <2>1 DEF Report
    <3> QED
      BY <2>2, <3>1, PromiseAssumption DEF Evidence
  <2>4. Expected' = Expected
    BY <2>1 DEF Expected
  <2>5. PolicyMap' = PolicyMap /\ WarnIsFail' = WarnIsFail
    BY <2>1, <2>4, SamePolicy
  <2>6. Promise!Exit
    BY <2>1, <2>2, <2>3, <2>5, PromiseSteps
  <2> QED
    BY <2>6 DEF Promise!Next
<1>9. CASE IoError
  <2>1. /\ pc \in Fallible \cup {"sensor"} /\ exit' = 1 /\ UNCHANGED <<cfg, todo, seen>>
        /\ report_file' \in {report_file} \cup (IF pc = "write_report" THEN {Torn} ELSE {})
    BY <1>9 DEF IoError
  <2>2. exit = None /\ (pc = "write_report" => report_file = None)
    BY <2>1 DEF Fallible, FilesInv, Before, Between
  <2>3. Published' = Published
    BY <2>1, <2>2 DEF Published
  <2> QED
    BY <1>2, <2>1, <2>2, <2>3
<1>10. ASSUME \/ \E s \in Sensors : SensorWrites(s) \/ SensorComments(s)
              \/ UNCHANGED vars
       PROVE  UNCHANGED Promise!vars
  BY <1>1, <1>10 DEF SensorWrites, SensorComments, vars, outvars
<1> QED
  BY <1>3, <1>4, <1>5, <1>6, <1>7, <1>8, <1>9, <1>10 DEF Next, Program, Environment

(* Every run keeps the promise of Gate: it takes evidence of each expected *)
(* sensor once, publishes the verdict the policy gives that evidence, and  *)
(* exits with the code of the verdict it published, or gives up with 1.    *)
THEOREM RunImplementsGate == Spec => ImplementsGate
<1>1. Init => SeenInv /\ FilesInv
  BY DEF Init, SeenInv, Unseen, Working, Ready, FilesInv, Before, Between, After
<1>2. Init => Promise!Init
  BY DEF Init, Promise!Init
<1> QED
  BY <1>1, <1>2, InitTypes, StepTypes, StepFiles, StepSeen, StepImplements, PTL
     DEF Spec, ImplementsGate, Promise!Spec

(***************************************************************************)
(* The size of the receipts used.                                          *)
(***************************************************************************)

(* What has been checked of the receipt in hand still holds of it, unless  *)
(* it changed since.                                                       *)
CheckedInv ==
  \A id \in Ids : IsNext(id) =>
    /\ (pc \in {"metadata", "read"} /\ "root" \notin overtaken) => store[id] \in Files
    /\ (pc = "read" /\ "size" \notin overtaken /\ store[id] \in Files) =>
         store[id].size <= MaxReceiptBytes

(* A sensor's job that changes a receipt past a check is on record.        *)
LEMMA WritesKeepChecked ==
  ASSUME TypeInv, CheckedInv, NEW s \in Sensors, SensorWrites(s)
  PROVE  CheckedInv'
<1> SUFFICES ASSUME NEW id \in Ids, IsNext(id)
             PROVE  /\ (pc \in {"metadata", "read"} /\ "root" \notin overtaken') => store'[id] \in Files
                    /\ (pc = "read" /\ "size" \notin overtaken' /\ store'[id] \in Files) =>
                         store'[id].size <= MaxReceiptBytes
  BY DEF SensorWrites, CheckedInv, IsNext
<1>1. CASE id = s
  BY <1>1 DEF SensorWrites, Passed
<1>2. CASE id # s
  <2>1. \E file : store' = [store EXCEPT ![s] = file]
    BY DEF SensorWrites
  <2>2. store'[id] = store[id]
    BY <1>2, <2>1 DEF TypeInv, TypeOK
  <2>3. "root" \in overtaken => "root" \in overtaken'
    BY DEF SensorWrites
  <2>4. "size" \in overtaken => "size" \in overtaken'
    BY DEF SensorWrites
  <2> QED
    BY <2>2, <2>3, <2>4 DEF CheckedInv
<1> QED
  BY <1>1, <1>2

(* Every step keeps that so, and uses only what it says.                   *)
LEMMA StepChecked ==
  TypeInv /\ CheckedInv /\ [Next]_vars => CheckedInv'
<1> SUFFICES ASSUME TypeInv, CheckedInv, [Next]_vars PROVE CheckedInv'
  OBVIOUS
<1>1. ASSUME pc' \notin {"metadata", "read"}
      PROVE  CheckedInv'
  BY <1>1 DEF CheckedInv
<1>2. ASSUME UNCHANGED <<store, overtaken, pc, todo>>
      PROVE  CheckedInv'
  BY <1>2 DEF CheckedInv, IsNext
<1>3. ASSUME NEW name \in Ids, ScanEntry(name)
      PROVE  CheckedInv'
  BY <1>1, <1>3 DEF ScanEntry
<1>4. CASE LoadConfig
  BY <1>1, <1>4 DEF LoadConfig, Fail
<1>5. ASSUME NEW id \in Ids, Process(id)
      PROVE  CheckedInv'
  <2>1. \A r, e : Conclude(id, r, e) => CheckedInv'
    BY <1>1 DEF Conclude
  <2>2. Stop => CheckedInv'
    BY <1>1 DEF Stop, Fail
  <2>3. CASE RejectId(id) \/ SkipGated(id) \/ ReadReceipt(id)
    BY <2>1, <2>2, <2>3 DEF RejectId, SkipGated, ReadReceipt
  <2>4. CASE CheckComment(id) \/ CanonicalizeComment(id)
    BY <1>1, <2>4 DEF CheckComment, CanonicalizeComment, Continue
  <2>5. CASE CheckExists(id)
    BY <1>1, <2>1, <2>5 DEF CheckExists, Continue
  <2>6. IsNext(id) => \A other \in Ids : IsNext(other) => other = id
    <3>1. \A other \in Ids : IsNext(id) /\ IsNext(other) => other <= id /\ id <= other
      BY DEF IsNext
    <3> QED
      BY <3>1, IdTypes
  <2>7. CASE Canonicalize(id)
    <3>1. CASE store[id] \notin {None, Escape} /\ Continue("metadata")
      <4>1. IsNext(id)
        BY <2>7 DEF Canonicalize
      <4>2. id \in Sensors => store[id] \in Files
        BY <3>1, IngestAssumption DEF TypeInv, TypeOK
      <4>3. id \in Sensors
        BY <2>7 DEF Canonicalize, TypeInv, IdChecked, AtFiles
      <4> QED
        BY <2>6, <3>1, <4>1, <4>2, <4>3 DEF Continue, CheckedInv, IsNext, envvars
    <3> QED
      BY <2>1, <2>7, <3>1 DEF Canonicalize
  <2>8. CASE CheckSize(id)
    <3>1. ASSUME NEW file \in Contents(id), file.size <= MaxReceiptBytes, Continue("read")
          PROVE  CheckedInv'
      <4>1. IsNext(id) /\ pc = "metadata"
        BY <2>8 DEF CheckSize
      <4>2. store[id] \in Files => store[id].size <= MaxReceiptBytes
        BY <3>1, IngestAssumption DEF Contents
      <4>3. UNCHANGED <<store, overtaken, todo>> /\ pc' = "read"
        BY <3>1 DEF Continue, envvars
      <4>4. "root" \notin overtaken => store[id] \in Files
        BY <4>1 DEF CheckedInv
      <4> QED
        BY <2>6, <4>1, <4>2, <4>3, <4>4 DEF CheckedInv, IsNext
    <3>2. store[id] # None => \A file \in Contents(id) : file.size \in Nat
      <4>1. id \in Sensors
        BY <2>8 DEF CheckSize, TypeInv, IdChecked, AtFiles
      <4>2. store[id] # None => Contents(id) \subseteq Files
        BY <4>1, IngestAssumption DEF Contents, TypeInv, TypeOK
      <4> QED
        BY <4>2, IngestAssumption DEF ReceiptFile
    <3> QED
      BY <2>1, <2>2, <2>8, <3>1, <3>2, IngestAssumption DEF CheckSize
  <2> QED
    BY <1>5, <2>3, <2>4, <2>5, <2>7, <2>8 DEF Process
<1>6. CASE BuildReport \/ WriteReport \/ WriteComment \/ IoError
  BY <1>1, <1>6 DEF BuildReport, WriteReport, WriteComment, IoError
<1>7. ASSUME NEW s \in Sensors, SensorWrites(s) \/ SensorComments(s)
      PROVE  CheckedInv'
  <2>1. CASE SensorWrites(s)
    BY <2>1, WritesKeepChecked
  <2>2. CASE SensorComments(s)
    BY <1>2, <2>2 DEF SensorComments
  <2> QED
    BY <1>7, <2>1, <2>2
<1>8. CASE UNCHANGED vars
  BY <1>2, <1>8 DEF vars
<1> QED
  BY <1>3, <1>4, <1>5, <1>6, <1>7, <1>8 DEF Next, Program, Environment

(* What a step sees of a sensor, the step of that sensor saw.              *)
LEMMA OnlyReadUses ==
  ASSUME TypeInv, Next, NEW id \in Sensors, seen'[id] # seen[id], seen'[id] \in VerdictStatus
  PROVE  IsNext(id) /\ pc = "read"
<1>1. ASSUME NEW name \in Ids, Process(name)
      PROVE  IsNext(id) /\ pc = "read"
  <2>1. CASE UNCHANGED seen
    BY <2>1
  <2>2. ASSUME NEW r, NEW e \in Evidence, Conclude(name, r, e), Judged(r.summary, name, e),
               e \in VerdictStatus => pc = "read"
        PROVE  IsNext(id) /\ pc = "read"
    <3>1. seen' = [seen EXCEPT ![name] = e]
      BY <2>2 DEF Conclude
    <3>2. id = name /\ e = seen'[id]
      BY <3>1 DEF TypeInv, TypeOK
    <3> QED
      BY <1>1, <2>2, <3>2 DEF Process, RejectId, CheckComment, CanonicalizeComment, SkipGated,
        CheckExists, Canonicalize, CheckSize, ReadReceipt
  <2> QED
    BY <1>1, <2>1, <2>2, ProcessJudges DEF Stop
<1>2. CASE \A name \in Ids : ~Process(name)
  BY <1>2 DEF Next, Program, Environment, ScanEntry, LoadConfig, BuildReport, WriteReport,
    WriteComment, IoError, SensorWrites, SensorComments
<1> QED
  BY <1>1, <1>2

(* A receipt is used outside the root or above the limit only when it was   *)
(* itself replaced after the call that checked it.                         *)
THEOREM UncheckedReceiptsAreNew == Spec => ReceiptUsedAsChecked
<1>1. Init => CheckedInv
  BY DEF Init, CheckedInv
<1>2. TypeInv /\ CheckedInv /\ [Next]_vars =>
        [\A id \in Sensors : seen'[id] # seen[id] /\ seen'[id] \in VerdictStatus =>
           /\ "root" \notin overtaken => store[id] \in Files
           /\ "size" \notin overtaken /\ store[id] \in Files =>
                store[id].size <= MaxReceiptBytes]_vars
  <2> SUFFICES ASSUME TypeInv, CheckedInv, Next, NEW id \in Sensors,
                      seen'[id] # seen[id], seen'[id] \in VerdictStatus
               PROVE  /\ "root" \notin overtaken => store[id] \in Files
                      /\ "size" \notin overtaken /\ store[id] \in Files =>
                           store[id].size <= MaxReceiptBytes
    BY DEF vars
  <2>1. IsNext(id) /\ pc = "read"
    BY OnlyReadUses
  <2>2. id \in Ids
    BY DEF Ids
  <2> QED
    BY <2>1, <2>2 DEF CheckedInv
<1> QED
  BY <1>1, <1>2, InitTypes, StepTypes, StepChecked, PTL DEF Spec, ReceiptUsedAsChecked

(***************************************************************************)
(* What a call adds to the report.                                         *)
(***************************************************************************)

(* The receipt of a sensor is one of the files it may have.                *)
LEMMA ContentsAreFiles ==
  ASSUME TypeInv, NEW id \in Sensors, store[id] # None
  PROVE  \A file \in Contents(id) :
           /\ file \in Files /\ file.size \in Nat
           /\ file.report # None => file.report \in SensorReport
<1>1. Contents(id) \subseteq Files
  BY IngestAssumption DEF Contents, TypeInv, TypeOK
<1>2. \A file \in Files : file.size \in Nat /\ (file.report # None => file.report \in SensorReport)
  BY IngestAssumption DEF ReceiptFile
<1> QED
  BY <1>1, <1>2

(* A sensor's summary and highlights, as a handler returns them.           *)
Accounts(r, id) ==
  /\ r.summary \in SensorSummary /\ r.highlights \in Seq(Highlight)
  /\ r.summary.id = id /\ CountedAs(r) /\ Speaks(r, id)

(* Each handler accounts for its sensor.                                   *)
LEMMA HandlersAccount ==
  ASSUME NEW id \in Nat, NEW policy \in SensorPolicy, NEW c \in BOOLEAN
  PROVE  /\ Accounts(synthesize_path_traversal_sensor(id, policy, c), id)
         /\ Accounts(synthesize_invalid_sensor(id, policy, c), id)
         /\ Accounts(synthesize_schema_violation_sensor(id, policy, c), id)
         /\ Accounts(synthesize_missing_sensor(id, policy, c), id)
         /\ \A size \in Nat : Accounts(synthesize_receipt_oversized_sensor(id, policy, c, size), id)
<1>1. /\ synthesize_path_traversal_sensor(id, policy, c) \in Outcome
      /\ synthesize_missing_sensor(id, policy, c) \in Outcome
      /\ \A size \in Nat : synthesize_receipt_oversized_sensor(id, policy, c, size) \in Outcome
  BY TraversalType, MissingType, OversizedType
<1>2. synthesize_schema_violation_sensor(id, policy, c) \in Outcome
  BY UnusableType DEF synthesize_schema_violation_sensor, SCHEMA_VIOLATION, Reason
<1>3. synthesize_invalid_sensor(id, policy, c) \in Outcome
  BY UnusableType DEF synthesize_invalid_sensor, INVALID_RECEIPT, Reason
<1>4. \A r, p : r \in Outcome /\ Names(r.summary, id, p) /\ CountedAs(r) /\ Speaks(r, id) => Accounts(r, id)
  BY DEF Outcome, Names, Accounts
<1>5. Accounts(synthesize_path_traversal_sensor(id, policy, c), id)
  BY <1>1, <1>4, OutcomesName, MadeUpCounted, MadeUpSpeaks
<1>6. Accounts(synthesize_invalid_sensor(id, policy, c), id)
  BY <1>3, <1>4, OutcomesName, MadeUpCounted, MadeUpSpeaks
<1>7. Accounts(synthesize_schema_violation_sensor(id, policy, c), id)
  BY <1>2, <1>4, OutcomesName, MadeUpCounted, MadeUpSpeaks
<1>8. Accounts(synthesize_missing_sensor(id, policy, c), id)
  BY <1>1, <1>4, OutcomesName, MadeUpCounted, MadeUpSpeaks
<1>9. ASSUME NEW size \in Nat
      PROVE  Accounts(synthesize_receipt_oversized_sensor(id, policy, c, size), id)
  BY <1>1, <1>4, OversizedNames, MadeUpCounted, MadeUpSpeaks
<1> QED
  BY <1>5, <1>6, <1>7, <1>8, <1>9

(* So does that of a receipt that was read.                                *)
LEMMA ReportAccounts ==
  ASSUME NEW id \in Nat, NEW policy \in SensorPolicy, NEW c \in BOOLEAN, NEW max \in Nat,
         NEW file \in Files, file.report # None, file.report \in SensorReport
  PROVE  Accounts(summarize_sensor_report(id, c, policy, file.report, max), id)
<1> DEFINE report == file.report
           r == summarize_sensor_report(id, c, policy, report, max)
<1>1. /\ report.status \in VerdictStatus /\ report.counts \in VerdictCounts
      /\ report.findings \in Seq(Finding) /\ report.reasons \in SUBSET Reason
  BY DEF SensorReport, Reason
<1>2. /\ \A i \in DOMAIN report.findings : report.findings[i].code \notin AboutItself
      /\ \A i \in DOMAIN report.findings :
           report.findings[i].fingerprint # None => report.findings[i].fingerprint[1] = 0
  BY OwnNamesAssumption DEF AboutItself
<1> HIDE DEF report
<1>3. r \in Outcome
  BY <1>1, ReportOutcomeType
<1>4. CountedAs(r)
  BY <1>1, <1>2, ReportCounted
<1>5. Speaks(r, id)
  BY <1>1, <1>2, ReportSpeaks
<1>6. Names(r.summary, id, policy)
  BY ReportNames
<1> HIDE DEF r
<1>7. Accounts(r, id)
  BY <1>3, <1>4, <1>5, <1>6 DEF Accounts, Outcome, Names
<1> QED
  BY <1>7 DEF r, report

(* A call leaves the report as it is but for a highlight about the path of *)
(* a comment, or concludes with a handler's account of the sensor.         *)
LEMMA ProcessAdds ==
  ASSUME TypeInv, NEW id \in Ids, Process(id)
  PROVE  /\ UNCHANGED <<cfg, built>> /\ id \in todo
         /\ \/ /\ UNCHANGED <<todo, summaries>>
               /\ \/ candidates' = candidates
                  \/ candidates' = candidates \o synthesize_path_traversal_highlight(id, 2)
            \/ \E r : /\ Accounts(r, id)
                      /\ todo' = todo \ {id}
                      /\ summaries' = Append(summaries, r.summary)
                      /\ candidates' = candidates \o r.highlights
<1> DEFINE policy == policy_of(cfg, id)
           skipping == [policy EXCEPT !.missing = "skip"]
           Waits == /\ UNCHANGED <<todo, summaries>>
                    /\ \/ candidates' = candidates
                       \/ candidates' = candidates \o synthesize_path_traversal_highlight(id, 2)
           Adds(r) == /\ Accounts(r, id)
                      /\ todo' = todo \ {id}
                      /\ summaries' = Append(summaries, r.summary)
                      /\ candidates' = candidates \o r.highlights
<1>1. /\ pc \in {"sensor", "comment", "gate", "canonicalize", "metadata", "read"} /\ IsNext(id)
      /\ pc # "sensor" => id \in Sensors
  BY DEF Process, RejectId, CheckComment, CanonicalizeComment, SkipGated, CheckExists,
         Canonicalize, CheckSize, ReadReceipt, TypeInv, IdChecked, AtFiles
<1>2. policy \in SensorPolicy /\ id \in Nat /\ comment_path \in BOOLEAN
  BY <1>1, PolicyTypes, IdTypes DEF TypeInv, TypeOK
<1>3. skipping \in SensorPolicy
  BY <1>2 DEF SensorPolicy, MissingPolicy
<1>4. id \in todo /\ UNCHANGED <<cfg, built>>
  BY <1>1, ProcessEffect DEF IsNext
<1>5. \A step : Continue(step) => Waits
  BY DEF Continue
<1>6. Stop => Waits
  BY DEF Stop, Fail
<1>7. ASSUME NEW r, NEW e, Conclude(id, r, e), Accounts(r, id)
      PROVE  \E s : Adds(s)
  BY <1>7 DEF Conclude
<1> HIDE DEF policy, skipping, Waits, Adds
<1>8. Waits \/ \E r : Adds(r)
  <2>1. CASE RejectId(id)
    <3>1. Accounts(synthesize_path_traversal_sensor(id, policy, FALSE), id)
      BY <1>2, HandlersAccount
    <3> QED
      BY <1>7, <2>1, <3>1 DEF RejectId, policy
  <2>2. CASE CheckComment(id)
    BY <1>5, <2>2 DEF CheckComment
  <2>3. CASE CanonicalizeComment(id)
    BY <2>3 DEF CanonicalizeComment, Waits
  <2>4. CASE SkipGated(id)
    <3>1. Accounts(synthesize_missing_sensor(id, skipping, comment_path), id)
      BY <1>2, <1>3, HandlersAccount
    <3> QED
      BY <1>7, <2>4, <3>1 DEF SkipGated, policy, skipping
  <2>5. CASE CheckExists(id)
    <3>1. Accounts(synthesize_missing_sensor(id, policy, comment_path), id)
      BY <1>2, HandlersAccount
    <3> QED
      BY <1>5, <1>7, <2>5, <3>1 DEF CheckExists, policy
  <2>6. CASE Canonicalize(id)
    <3>1. Accounts(synthesize_path_traversal_sensor(id, policy, comment_path), id)
      BY <1>2, HandlersAccount
    <3> QED
      BY <1>5, <1>7, <2>6, <3>1 DEF Canonicalize, policy
  <2>7. CASE CheckSize(id)
    <3>1. CASE store[id] = None
      BY <1>6, <2>7, <3>1 DEF CheckSize
    <3>2. CASE store[id] # None
      <4>1. PICK file \in Contents(id) :
               IF file.size > MaxReceiptBytes
               THEN Conclude(id, synthesize_receipt_oversized_sensor(id, policy, comment_path,
                                   file.size), "rejected")
               ELSE Continue("read")
        BY <2>7, <3>2 DEF CheckSize, policy
      <4>2. file.size \in Nat
        BY <1>1, <2>7, <3>2, <4>1, ContentsAreFiles DEF CheckSize
      <4>3. Accounts(synthesize_receipt_oversized_sensor(id, policy, comment_path, file.size), id)
        BY <1>2, <4>2, HandlersAccount
      <4> QED
        BY <1>5, <1>7, <4>1, <4>3
    <3> QED
      BY <3>1, <3>2
  <2>8. CASE ReadReceipt(id)
    <3>1. CASE store[id] = None
      BY <1>6, <2>8, <3>1 DEF ReadReceipt
    <3>2. CASE store[id] # None
      <4>1. PICK file \in Contents(id) :
               IF Strict /\ ~file.schema_ok
               THEN Conclude(id, synthesize_schema_violation_sensor(id, policy, comment_path),
                             "rejected")
               ELSE IF file.report = None
               THEN Conclude(id, synthesize_invalid_sensor(id, policy, comment_path), "rejected")
               ELSE Conclude(id, summarize_sensor_report(id, comment_path, policy, file.report,
                                   cfg.max_per_sensor_findings), file.report.status)
        BY <2>8, <3>2 DEF ReadReceipt, policy
      <4>2. file \in Files /\ (file.report # None => file.report \in SensorReport)
        BY <1>1, <2>8, <3>2, <4>1, ContentsAreFiles DEF ReadReceipt
      <4>3. cfg.max_per_sensor_findings \in Nat
        BY <1>1, PolicyIsFixed DEF IsConfig
      <4>4. /\ Accounts(synthesize_schema_violation_sensor(id, policy, comment_path), id)
            /\ Accounts(synthesize_invalid_sensor(id, policy, comment_path), id)
        BY <1>2, HandlersAccount
      <4>5. file.report # None =>
              Accounts(summarize_sensor_report(id, comment_path, policy, file.report,
                                               cfg.max_per_sensor_findings), id)
        BY <1>2, <4>2, <4>3, ReportAccounts
      <4> QED
        BY <1>7, <4>1, <4>4, <4>5
    <3> QED
      BY <3>1, <3>2
  <2> QED
    BY <2>1, <2>2, <2>3, <2>4, <2>5, <2>6, <2>7, <2>8 DEF Process
<1> QED
  BY <1>4, <1>8 DEF Waits, Adds

(***************************************************************************)
(* The counts.                                                             *)
(***************************************************************************)

(* At any time the summaries count what the highlights found so far tell,  *)
(* and one error of each sensor rejected for its path.                     *)
Reckoned ==
  \A severity \in Severity :
    Total(summaries, severity) =
      Cardinality(Tallied(candidates, severity))
      + IF severity = "error" THEN Cardinality(Rejections(summaries)) ELSE 0

(* The verdict was taken of the summaries the report lists.                *)
VerdictOfList == built # None => built.verdict = overall_verdict(summaries, cfg)

(* Before the configuration is loaded there is nothing to count.           *)
LEMMA NothingToCount ==
  ASSUME NEW severity \in Severity, summaries = << >>
  PROVE  Total(summaries, severity) = 0 /\ Cardinality(Rejections(summaries)) = 0
<1>1. DOMAIN summaries = {}
  OBVIOUS
<1>2. Units(summaries, severity) = {} /\ Rejections(summaries) = {}
  BY <1>1 DEF Units, Rejections
<1> QED
  BY <1>2, FS_EmptySet DEF Total, Units

(* The highlights of a new run are about cockpitctl's own findings.        *)
LEMMA FirstCandidates ==
  ASSUME TypeInv, LoadConfig, pc' # "failed"
  PROVE  /\ candidates' \in Seq(Highlight)
         /\ \A i \in DOMAIN candidates' :
              /\ candidates'[i].finding.code \in AboutItself
              /\ Form(candidates'[i]) \notin {1, 3}
              /\ Form(candidates'[i]) = 2 => candidates'[i].finding.severity = "error"
<1> DEFINE names == Ascending(invalid)
           first == TraversalHighlights(invalid)
           then == IF Cardinality(found) > MaxReceipts
                   THEN synthesize_sensors_truncated(MaxReceipts, Cardinality(found)) ELSE << >>
           Own(h) == /\ h.finding.code \in AboutItself
                     /\ Form(h) \notin {1, 3}
                     /\ Form(h) = 2 => h.finding.severity = "error"
<1>1. candidates' = first \o then
  BY DEF LoadConfig, Fail
<1>2. invalid \in SUBSET Ids /\ found \in SUBSET Ids
  BY IdTypes DEF TypeInv, TypeOK
<1>3. first \in Seq(Highlight)
  BY <1>2, TraversalHighlightsType
<1>4. \A k \in DOMAIN first : Own(first[k])
  <2> SUFFICES ASSUME NEW k \in DOMAIN first PROVE Own(first[k])
    OBVIOUS
  <2> DEFINE f == Synthesized("error", PATH_TRAVERSAL, names[k], <<2, names[k], 1>>)
             h == first[k]
  <2>1. h = Under(CockpitId, <<f>>)[1]
    BY DEF TraversalHighlights, synthesize_path_traversal_highlight
  <2>2. h = [sensor_id |-> CockpitId, finding |-> f]
    <3> HIDE DEF f, h
    <3> QED
      BY <2>1, UnderOne
  <2>3. <<2, names[k], 1>> # None /\ <<2, names[k], 1>>[1] = 2
    <3>1. k \in DOMAIN names
      BY DEF TraversalHighlights
    <3>2. names[k] \in Nat
      <4>1. invalid \in SUBSET Nat /\ IsFiniteSet(invalid)
        BY <1>2, IdTypes
      <4>2. names \in Seq(invalid)
        BY <4>1, AscendingType
      <4> HIDE DEF names
      <4>3. names[k] \in invalid
        BY <3>1, <4>2
      <4> QED
        BY <4>1, <4>3
    <3>3. <<2, names[k], 1>> \in Seq(Nat)
      BY <3>2
    <3> QED
      BY <3>3, TypesAssumption
  <2>4. Form(h) = 2 /\ h.finding.severity = "error"
    <3> HIDE DEF h
    <3> QED
      BY <2>2, <2>3, FormOfOwn
  <2>5. h.finding.code = PATH_TRAVERSAL
    <3> HIDE DEF h
    <3> QED
      BY <2>2 DEF Synthesized
  <2> HIDE DEF h
  <2>6. Own(h)
    BY <2>4, <2>5 DEF AboutItself
  <2> QED
    BY <2>6 DEF h
<1>5. then \in Seq(Highlight) /\ \A k \in DOMAIN then : Own(then[k])
  <2> DEFINE n == Cardinality(found)
             fp == <<5, MaxReceipts, n>>
             f == Synthesized("warn", SENSORS_TRUNCATED, 0, fp)
             note == Under(CockpitId, <<f>>)
  <2>1. n \in Nat /\ MaxReceipts \in Nat
    BY <1>2, IdTypes, IngestAssumption
  <2>2. synthesize_sensors_truncated(MaxReceipts, n) \in Seq(Highlight)
    BY <2>1, TruncatedType
  <2>3. note \in Seq(Highlight)
    BY <2>2 DEF synthesize_sensors_truncated
  <2>4. fp # None /\ fp[1] = 5
    <3>1. fp \in Seq(Nat)
      BY <2>1
    <3> QED
      BY <3>1, TypesAssumption
  <2>5. then = note \/ then = << >>
    BY DEF synthesize_sensors_truncated
  <2> HIDE DEF then, fp, n
  <2>6. DOMAIN note = {1} /\ note[1] = [sensor_id |-> CockpitId, finding |-> f]
    <3> HIDE DEF f
    <3> QED
      BY UnderOne
  <2> HIDE DEF note
  <2>7. Form(note[1]) = 5
    BY <2>4, <2>6, FormOfOwn
  <2>8. note[1].finding.code = SENSORS_TRUNCATED
    BY <2>6 DEF Synthesized
  <2>9. Own(note[1])
    BY <2>7, <2>8 DEF AboutItself
  <2>10. << >> \in Seq(Highlight) /\ DOMAIN << >> = {}
    OBVIOUS
  <2>11. CASE then = note
    BY <2>3, <2>6, <2>9, <2>11
  <2>12. CASE then = << >>
    BY <2>10, <2>12
  <2> QED
    BY <2>5, <2>11, <2>12
<1> HIDE DEF first, then, Own
<1>6. ASSUME NEW i \in DOMAIN (first \o then)
      PROVE  Own((first \o then)[i])
  <2>1. \/ i \in DOMAIN first /\ (first \o then)[i] = first[i]
        \/ i - Len(first) \in DOMAIN then /\ (first \o then)[i] = then[i - Len(first)]
    BY <1>3, <1>5
  <2> QED
    BY <1>4, <1>5, <2>1
<1>7. first \o then \in Seq(Highlight)
  BY <1>3, <1>5
<1> QED
  BY <1>1, <1>6, <1>7 DEF Own

(* Rejected sensors in a list one summary longer.                          *)
LEMMA RejectionsOfAppend ==
  ASSUME NEW list \in Seq(SensorSummary), NEW s \in SensorSummary
  PROVE  Cardinality(Rejections(Append(list, s))) =
           Cardinality(Rejections(list))
           + IF s.presence = "missing" /\ "path_traversal" \in s.reasons THEN 1 ELSE 0
<1> DEFINE n == Len(list)
           longer == Append(list, s)
           Refused(t) == t.presence = "missing" /\ "path_traversal" \in t.reasons
<1>1. /\ n \in Nat /\ DOMAIN list = 1 .. n /\ DOMAIN longer = 1 .. (n + 1)
      /\ \A i \in 1 .. n : longer[i] = list[i]
      /\ longer[n + 1] = s
  OBVIOUS
<1>2. Rejections(list) \in SUBSET DOMAIN list
  BY DEF Rejections
<1>3. IsFiniteSet(Rejections(list)) /\ Cardinality(Rejections(list)) \in Nat
  BY <1>2, IndicesFinite
<1>4. Rejections(list) = {i \in 1 .. n : Refused(list[i])}
  BY <1>1 DEF Rejections
<1>5. Rejections(longer) = {i \in 1 .. (n + 1) : Refused(longer[i])}
  BY <1>1 DEF Rejections
<1> HIDE DEF Refused, n, longer
<1>6. 1 .. (n + 1) = (1 .. n) \cup {n + 1} /\ n + 1 \notin 1 .. n
  BY <1>1
<1>7. CASE Refused(s)
  <2>1. Rejections(longer) = Rejections(list) \cup {n + 1} /\ n + 1 \notin Rejections(list)
    BY <1>1, <1>4, <1>5, <1>6, <1>7
  <2>2. Cardinality(Rejections(longer)) = Cardinality(Rejections(list)) + 1
    BY <1>3, <2>1, FS_AddElement
  <2> QED
    BY <1>7, <2>2 DEF longer, Refused
<1>8. CASE ~Refused(s)
  <2>1. Rejections(longer) = Rejections(list)
    BY <1>1, <1>4, <1>5, <1>6, <1>8
  <2> QED
    BY <1>3, <1>8, <2>1 DEF longer, Refused
<1> QED
  BY <1>7, <1>8

(* A sensor's account adds to both sides alike.                            *)
LEMMA AccountReckons ==
  ASSUME TypeInv, Reckoned, NEW id, NEW r, Accounts(r, id),
         summaries' = Append(summaries, r.summary), candidates' = candidates \o r.highlights
  PROVE  Reckoned'
<1> SUFFICES ASSUME NEW severity \in Severity
             PROVE  Total(summaries', severity) =
                      Cardinality(Tallied(candidates', severity))
                      + IF severity = "error" THEN Cardinality(Rejections(summaries')) ELSE 0
  BY DEF Reckoned
<1> DEFINE s == r.summary
           list == r.highlights
           rejected == s.presence = "missing" /\ "path_traversal" \in s.reasons
<1>1. /\ summaries \in Seq(SensorSummary) /\ candidates \in Seq(Highlight)
      /\ s \in SensorSummary /\ list \in Seq(Highlight)
  BY DEF TypeInv, TypeOK, Accounts
<1>2. s.counts[severity] = Cardinality(Tallied(list, severity)) + IF severity = "error" /\ rejected THEN 1 ELSE 0
  BY DEF Accounts, CountedAs
<1>3. severity \in {"info", "warn", "error"}
  BY DEF Severity
<1>4. Total(summaries', severity) = Total(summaries, severity) + s.counts[severity]
  BY <1>1, <1>3, TotalOfAppend
<1>5. Cardinality(Tallied(candidates', severity)) =
        Cardinality(Tallied(candidates, severity)) + Cardinality(Tallied(list, severity))
  BY <1>1, TalliedConcat
<1>6. Cardinality(Rejections(summaries')) = Cardinality(Rejections(summaries)) + IF rejected THEN 1 ELSE 0
  BY <1>1, RejectionsOfAppend
<1>7. Total(summaries, severity) =
        Cardinality(Tallied(candidates, severity))
        + IF severity = "error" THEN Cardinality(Rejections(summaries)) ELSE 0
  BY DEF Reckoned
<1>8. /\ Total(summaries, severity) \in Nat /\ Cardinality(Tallied(candidates, severity)) \in Nat
      /\ Cardinality(Tallied(list, severity)) \in Nat
  BY <1>1, <1>3, TotalType, TallyType
<1>9. Cardinality(Rejections(summaries)) \in Nat
  <2>1. Rejections(summaries) \in SUBSET DOMAIN summaries
    BY DEF Rejections
  <2> QED
    BY <1>1, <2>1, IndicesFinite
<1> HIDE DEF s, list, rejected
<1> QED
  BY <1>2, <1>4, <1>5, <1>6, <1>7, <1>8, <1>9

(* Sorting the summaries changes neither.                                  *)
LEMMA SortReckons ==
  ASSUME TypeInv, Reckoned, BuildReport
  PROVE  Reckoned' /\ VerdictOfList'
<1>1. /\ summaries' = sort_sensor_summaries(summaries, cfg) /\ candidates' = candidates /\ cfg' = cfg
      /\ built'.verdict = overall_verdict(summaries', cfg) /\ pc = "sensor"
  BY DEF BuildReport
<1>2. cfg.section_order \in Seq(Nat) /\ summaries \in Seq(SensorSummary)
  BY <1>1, PolicyIsFixed DEF IsConfig, TypeInv, TypeOK
<1> DEFINE D == DOMAIN summaries
<1>3. PICK p \in Bijection(D, D) : summaries' = [k \in D |-> summaries[p[k]]]
  BY <1>1, <1>2, SortSummariesSorts
<1>4. p \in [D -> D]
  BY <1>3, Fun_BijectionProperties
<1>5. \A severity \in Severity : Total(summaries', severity) = Total(summaries, severity)
  BY <1>2, <1>3, TotalReordered DEF Severity
<1>6. Cardinality(Rejections(summaries')) = Cardinality(Rejections(summaries))
  <2> DEFINE K == Rejections(summaries)
  <2>1. IsFiniteSet(D)
    BY <1>2, DomainFinite
  <2>2. K \in SUBSET D
    BY DEF Rejections
  <2>3. Rejections(summaries') = {k \in D : p[k] \in K}
    <3>1. DOMAIN summaries' = D /\ \A k \in D : p[k] \in D /\ summaries'[k] = summaries[p[k]]
      BY <1>3, <1>4
    <3> QED
      BY <3>1 DEF Rejections
  <2> HIDE DEF K, D
  <2>4. Cardinality({k \in D : p[k] \in K}) = Cardinality(K)
    BY <1>3, <2>1, <2>2, ReorderedSize
  <2> QED
    BY <2>3, <2>4 DEF K
<1>7. Reckoned'
  BY <1>1, <1>5, <1>6 DEF Reckoned
<1> QED
  BY <1>1, <1>7 DEF VerdictOfList

(* Every step keeps the account.                                           *)
LEMMA StepReckoned ==
  TypeInv /\ FilesInv /\ SeenInv /\ Reckoned /\ VerdictOfList /\ [Next]_vars => Reckoned' /\ VerdictOfList'
<1> SUFFICES ASSUME TypeInv, FilesInv, SeenInv, Reckoned, VerdictOfList, [Next]_vars
             PROVE  Reckoned' /\ VerdictOfList'
  OBVIOUS
<1>1. ASSUME UNCHANGED <<cfg, candidates, summaries, built>>
      PROVE  Reckoned' /\ VerdictOfList'
  BY <1>1 DEF Reckoned, VerdictOfList
<1>2. ASSUME built' = built, pc \in {"discover", "sensor", "comment", "gate", "canonicalize", "metadata", "read"}
      PROVE  VerdictOfList'
  BY <1>2 DEF FilesInv, Before, VerdictOfList
<1>3. ASSUME NEW name \in Ids, ScanEntry(name)
      PROVE  Reckoned' /\ VerdictOfList'
  BY <1>1, <1>3 DEF ScanEntry, outvars
<1>4. CASE LoadConfig
  <2>1. /\ pc = "discover" /\ summaries' = summaries /\ built' = built /\ summaries = << >>
    BY <1>4 DEF LoadConfig, Fail, outvars, SeenInv, Unseen
  <2>2. CASE pc' = "failed"
    BY <1>1, <1>4, <2>2 DEF LoadConfig, Fail
  <2>3. CASE pc' # "failed"
    <3>1. \A severity \in Severity : Cardinality(Tallied(candidates', severity)) = 0
      BY <1>4, <2>3, FirstCandidates, OwnNotTallied
    <3>2. \A severity \in Severity : Total(summaries, severity) = 0 /\ Cardinality(Rejections(summaries)) = 0
      BY <2>1, NothingToCount
    <3>3. Reckoned'
      BY <2>1, <3>1, <3>2 DEF Reckoned
    <3> QED
      BY <1>2, <2>1, <3>3
  <2> QED
    BY <2>2, <2>3
<1>5. ASSUME NEW id \in Ids, Process(id)
      PROVE  Reckoned' /\ VerdictOfList'
  <2>1. pc \in {"sensor", "comment", "gate", "canonicalize", "metadata", "read"} /\ built' = built
    BY <1>5, ProcessJudges, ProcessAdds
  <2>2. CASE UNCHANGED <<summaries, candidates>>
    BY <1>2, <2>1, <2>2 DEF Reckoned
  <2>3. CASE summaries' = summaries /\ candidates' = candidates \o synthesize_path_traversal_highlight(id, 2)
    <3> DEFINE note == synthesize_path_traversal_highlight(id, 2)
               f == Synthesized("error", PATH_TRAVERSAL, id, <<2, id, 2>>)
    <3>1. note \in Seq(Highlight) /\ candidates \in Seq(Highlight)
      BY IdTypes, TraversalHighlightType DEF TypeInv, TypeOK
    <3>2. \A i \in DOMAIN note : note[i].finding.code \in AboutItself
      <4>1. note = Under(CockpitId, <<f>>) /\ f.code = PATH_TRAVERSAL
        BY DEF synthesize_path_traversal_highlight, Synthesized
      <4> HIDE DEF f, note
      <4>2. DOMAIN note = {1} /\ note[1] = [sensor_id |-> CockpitId, finding |-> f]
        BY <4>1, UnderOne
      <4> QED
        BY <4>1, <4>2 DEF AboutItself
    <3> HIDE DEF note
    <3>3. ASSUME NEW severity \in Severity
          PROVE  Cardinality(Tallied(candidates', severity)) = Cardinality(Tallied(candidates, severity))
      <4>1. Cardinality(Tallied(note, severity)) = 0
        BY <3>2, OwnNotTallied
      <4>2. Cardinality(Tallied(candidates, severity)) \in Nat
        BY <3>1, TallyType
      <4>3. candidates' = candidates \o note
        BY <2>3 DEF note
      <4> QED
        BY <3>1, <4>1, <4>2, <4>3, TalliedConcat
    <3>4. Reckoned'
      BY <2>3, <3>3 DEF Reckoned
    <3> QED
      BY <1>2, <2>1, <3>4
  <2>4. ASSUME NEW r, Accounts(r, id), summaries' = Append(summaries, r.summary),
               candidates' = candidates \o r.highlights
        PROVE  Reckoned' /\ VerdictOfList'
    BY <1>2, <2>1, <2>4, AccountReckons
  <2> QED
    BY <1>5, <2>2, <2>3, <2>4, ProcessAdds
<1>6. CASE BuildReport
  BY <1>6, SortReckons
<1>7. CASE WriteReport \/ WriteComment
  BY <1>1, <1>7 DEF WriteReport, WriteComment
<1>8. CASE IoError
  BY <1>1, <1>8 DEF IoError
<1>9. ASSUME \/ \E s \in Sensors : SensorWrites(s) \/ SensorComments(s)
             \/ UNCHANGED vars
      PROVE  Reckoned' /\ VerdictOfList'
  BY <1>1, <1>9 DEF SensorWrites, SensorComments, vars, outvars
<1> QED
  BY <1>3, <1>4, <1>5, <1>6, <1>7, <1>8, <1>9 DEF Next, Program, Environment

(* What is reckoned at any time.                                           *)
LEMMA ReckonedAlways == Spec => [](TypeInv /\ FilesInv /\ SeenInv /\ Reckoned /\ VerdictOfList)
<1>1. Init => SeenInv /\ FilesInv /\ VerdictOfList
  BY DEF Init, SeenInv, Unseen, Working, Ready, FilesInv, Before, Between, After, VerdictOfList
<1>2. Init => Reckoned
  <2> SUFFICES ASSUME Init, NEW severity \in Severity
               PROVE  Total(summaries, severity) =
                        Cardinality(Tallied(candidates, severity))
                        + IF severity = "error" THEN Cardinality(Rejections(summaries)) ELSE 0
    BY DEF Reckoned
  <2>1. summaries = << >> /\ candidates = << >> /\ DOMAIN candidates = {}
    BY DEF Init
  <2>2. Total(summaries, severity) = 0 /\ Cardinality(Rejections(summaries)) = 0
    BY <2>1, NothingToCount
  <2>3. Cardinality(Tallied(candidates, severity)) = 0
    BY <2>1, OwnNotTallied
  <2> QED
    BY <2>2, <2>3
<1> QED
  BY <1>1, <1>2, InitTypes, StepTypes, StepFiles, StepSeen, StepReckoned, PTL DEF Spec

(* The totals in the verdict count every finding the report can show once, *)
(* and each sensor rejected for its path as one error.                     *)
THEOREM VerdictCountsFindings == Spec => []CountsAddUp
<1>1. Reckoned /\ VerdictOfList => CountsAddUp
  <2> SUFFICES ASSUME Reckoned, VerdictOfList, built # None, NEW severity \in Severity
               PROVE  built.verdict.counts[severity] =
                        Cardinality(Tallied(candidates, severity))
                        + IF severity # "error" THEN 0 ELSE Cardinality(Rejections(summaries))
    BY DEF CountsAddUp, Tallied, AboutItself, Rejections
  <2>1. built.verdict = overall_verdict(summaries, cfg)
    BY DEF VerdictOfList
  <2>2. overall_verdict(summaries, cfg).counts[severity] = Total(summaries, severity)
    BY DEF overall_verdict, Severity
  <2> QED
    BY <2>1, <2>2 DEF Reckoned
<1> QED
  BY <1>1, ReckonedAlways, PTL

(***************************************************************************)
(* Why a run is red.                                                       *)
(***************************************************************************)

(* The summary of a sensor whose receipt was not read shows among the      *)
(* candidates, at its severity, and no candidate that could be taken for   *)
(* the same finding is milder.                                             *)
Voiced(s, list) ==
  s.presence # "present" /\ s.status \in {"fail", "warn"} =>
    \E i \in DOMAIN list :
      /\ list[i].finding.severity = Grade(s.status)
      /\ \/ Form(list[i]) \in {2, 3}
         \/ /\ Form(list[i]) = 1 /\ Origin(list[i]) = s.id
            /\ \A j \in DOMAIN list :
                 Form(list[j]) = 1 /\ Origin(list[j]) = s.id => list[j].finding.severity = Grade(s.status)

(* So far no candidate has a derived fingerprint of a sensor still to do.  *)
Explained ==
  /\ \A i \in DOMAIN candidates :
       /\ Form(candidates[i]) \in {2, 3} => candidates[i].finding.severity = "error"
       /\ Form(candidates[i]) = 1 => Origin(candidates[i]) \notin todo
  /\ \A m \in DOMAIN summaries : summaries[m].id \notin todo /\ Voiced(summaries[m], candidates)

(* New highlights about one sensor still to do leave the others voiced.    *)
LEMMA StaysVoiced ==
  ASSUME TypeInv, Explained, NEW list \in Seq(Highlight), candidates' = candidates \o list,
         todo' \subseteq todo,
         \A i \in DOMAIN list : /\ Form(list[i]) \in {2, 3} => list[i].finding.severity = "error"
                                /\ Form(list[i]) = 1 => Origin(list[i]) \in todo \ todo'
  PROVE  /\ \A i \in DOMAIN candidates' :
              /\ Form(candidates'[i]) \in {2, 3} => candidates'[i].finding.severity = "error"
              /\ Form(candidates'[i]) = 1 => Origin(candidates'[i]) \notin todo'
         /\ \A m \in DOMAIN summaries : summaries[m].id \notin todo' /\ Voiced(summaries[m], candidates')
         /\ \A i \in DOMAIN candidates :
              i \in DOMAIN candidates' /\ candidates'[i] = candidates[i]
         /\ \A i \in DOMAIN list :
              Len(candidates) + i \in DOMAIN candidates' /\ candidates'[Len(candidates) + i] = list[i]
         /\ \A i \in DOMAIN candidates' :
              \/ i \in DOMAIN candidates /\ candidates'[i] = candidates[i]
              \/ i - Len(candidates) \in DOMAIN list /\ candidates'[i] = list[i - Len(candidates)]
<1>1. candidates \in Seq(Highlight)
  BY DEF TypeInv, TypeOK
<1>2. \A i \in DOMAIN candidates' :
        \/ i \in DOMAIN candidates /\ candidates'[i] = candidates[i]
        \/ i - Len(candidates) \in DOMAIN list /\ candidates'[i] = list[i - Len(candidates)]
  BY <1>1
<1>3. /\ \A i \in DOMAIN candidates : i \in DOMAIN candidates' /\ candidates'[i] = candidates[i]
      /\ \A i \in DOMAIN list :
           Len(candidates) + i \in DOMAIN candidates' /\ candidates'[Len(candidates) + i] = list[i]
  BY <1>1
<1>4. ASSUME NEW i \in DOMAIN candidates'
      PROVE  /\ Form(candidates'[i]) \in {2, 3} => candidates'[i].finding.severity = "error"
             /\ Form(candidates'[i]) = 1 => Origin(candidates'[i]) \notin todo'
  BY <1>2 DEF Explained
<1>5. ASSUME NEW m \in DOMAIN summaries
      PROVE  summaries[m].id \notin todo' /\ Voiced(summaries[m], candidates')
  <2> DEFINE s == summaries[m]
  <2>1. s.id \notin todo /\ Voiced(s, candidates)
    BY DEF Explained
  <2>2. s.id \notin todo'
    BY <2>1
  <2>3. ASSUME s.presence # "present", s.status \in {"fail", "warn"}
        PROVE  \E i \in DOMAIN candidates' :
                 /\ candidates'[i].finding.severity = Grade(s.status)
                 /\ \/ Form(candidates'[i]) \in {2, 3}
                    \/ /\ Form(candidates'[i]) = 1 /\ Origin(candidates'[i]) = s.id
                       /\ \A j \in DOMAIN candidates' :
                            Form(candidates'[j]) = 1 /\ Origin(candidates'[j]) = s.id =>
                              candidates'[j].finding.severity = Grade(s.status)
    <3> HIDE DEF s
    <3>1. PICK i \in DOMAIN candidates :
            /\ candidates[i].finding.severity = Grade(s.status)
            /\ \/ Form(candidates[i]) \in {2, 3}
               \/ /\ Form(candidates[i]) = 1 /\ Origin(candidates[i]) = s.id
                  /\ \A j \in DOMAIN candidates :
                       Form(candidates[j]) = 1 /\ Origin(candidates[j]) = s.id =>
                         candidates[j].finding.severity = Grade(s.status)
      BY <2>1, <2>3 DEF Voiced
    <3>2. i \in DOMAIN candidates' /\ candidates'[i] = candidates[i]
      BY <1>3
    <3>3. CASE Form(candidates[i]) \in {2, 3}
      BY <3>1, <3>2, <3>3
    <3>4. CASE Form(candidates[i]) \notin {2, 3}
      <4>1. \A j \in DOMAIN candidates' :
              Form(candidates'[j]) = 1 /\ Origin(candidates'[j]) = s.id =>
                candidates'[j].finding.severity = Grade(s.status)
        BY <1>2, <2>1, <3>1, <3>4
      <4> QED
        BY <3>1, <3>2, <3>4, <4>1
    <3> QED
      BY <3>3, <3>4
  <2>4. Voiced(s, candidates')
    BY <2>3 DEF Voiced
  <2> QED
    BY <2>2, <2>4
<1> QED
  BY <1>2, <1>3, <1>4, <1>5

(* A sensor's account voices its summary.                                  *)
LEMMA AccountVoices ==
  ASSUME TypeInv, Explained, NEW id \in todo, NEW r, Accounts(r, id),
         todo' = todo \ {id}, summaries' = Append(summaries, r.summary),
         candidates' = candidates \o r.highlights
  PROVE  Explained'
<1> DEFINE s == r.summary
           list == r.highlights
           n == Len(candidates)
<1>1. /\ summaries \in Seq(SensorSummary) /\ list \in Seq(Highlight) /\ s.id = id
      /\ \A i \in DOMAIN list : /\ Form(list[i]) \in {2, 3} => list[i].finding.severity = "error"
                                /\ Form(list[i]) = 1 => Origin(list[i]) = id
      /\ s.presence # "present" /\ s.status \in {"fail", "warn"} =>
           /\ \E i \in DOMAIN list : Form(list[i]) \in {1, 2, 3}
           /\ \A i \in DOMAIN list : list[i].finding.severity = Grade(s.status)
  BY DEF TypeInv, TypeOK, Accounts, Speaks
<1>2. \A i \in DOMAIN list : /\ Form(list[i]) \in {2, 3} => list[i].finding.severity = "error"
                             /\ Form(list[i]) = 1 => Origin(list[i]) \in todo \ todo'
  BY <1>1
<1>3. candidates' = candidates \o list /\ todo' \subseteq todo /\ summaries' = Append(summaries, s)
  OBVIOUS
<1> HIDE DEF s, list
<1>4. /\ \A i \in DOMAIN candidates' :
           /\ Form(candidates'[i]) \in {2, 3} => candidates'[i].finding.severity = "error"
           /\ Form(candidates'[i]) = 1 => Origin(candidates'[i]) \notin todo'
      /\ \A m \in DOMAIN summaries : summaries[m].id \notin todo' /\ Voiced(summaries[m], candidates')
      /\ \A i \in DOMAIN list : n + i \in DOMAIN candidates' /\ candidates'[n + i] = list[i]
      /\ \A i \in DOMAIN candidates' :
           \/ i \in DOMAIN candidates /\ candidates'[i] = candidates[i]
           \/ i - n \in DOMAIN list /\ candidates'[i] = list[i - n]
  BY <1>1, <1>2, <1>3, StaysVoiced
<1> HIDE DEF n
<1>5. Voiced(s, candidates')
  <2> SUFFICES ASSUME s.presence # "present", s.status \in {"fail", "warn"}
               PROVE  \E i \in DOMAIN candidates' :
                        /\ candidates'[i].finding.severity = Grade(s.status)
                        /\ \/ Form(candidates'[i]) \in {2, 3}
                           \/ /\ Form(candidates'[i]) = 1 /\ Origin(candidates'[i]) = s.id
                              /\ \A j \in DOMAIN candidates' :
                                   Form(candidates'[j]) = 1 /\ Origin(candidates'[j]) = s.id =>
                                     candidates'[j].finding.severity = Grade(s.status)
    BY DEF Voiced
  <2>1. PICK i \in DOMAIN list : Form(list[i]) \in {1, 2, 3}
    BY <1>1
  <2>2. \A k \in DOMAIN list : list[k].finding.severity = Grade(s.status)
    BY <1>1
  <2>3. ASSUME NEW j \in DOMAIN candidates', Form(candidates'[j]) = 1, Origin(candidates'[j]) = s.id
        PROVE  candidates'[j].finding.severity = Grade(s.status)
    <3>1. CASE j \in DOMAIN candidates /\ candidates'[j] = candidates[j]
      <4>1. Origin(candidates[j]) \notin todo
        BY <2>3, <3>1 DEF Explained
      <4> QED
        BY <1>1, <2>3, <3>1, <4>1
    <3>2. CASE j - n \in DOMAIN list /\ candidates'[j] = list[j - n]
      BY <2>2, <3>2
    <3> QED
      BY <1>4, <3>1, <3>2
  <2>4. /\ n + i \in DOMAIN candidates' /\ candidates'[n + i] = list[i]
        /\ Form(list[i]) = 1 => Origin(list[i]) = s.id
    BY <1>1, <1>4
  <2> QED
    BY <2>1, <2>2, <2>3, <2>4
<1>6. \A m \in DOMAIN summaries' :
        summaries'[m] = s \/ (m \in DOMAIN summaries /\ summaries'[m] = summaries[m])
  BY <1>1, <1>3
<1>7. s.id \notin todo'
  BY <1>1
<1> QED
  BY <1>4, <1>5, <1>6, <1>7 DEF Explained

(* Every step keeps the explanations.                                      *)
LEMMA StepExplained ==
  TypeInv /\ SeenInv /\ Explained /\ [Next]_vars => Explained'
<1> SUFFICES ASSUME TypeInv, SeenInv, Explained, [Next]_vars PROVE Explained'
  OBVIOUS
<1>1. ASSUME UNCHANGED <<todo, candidates, summaries>>
      PROVE  Explained'
  BY <1>1 DEF Explained
<1>2. ASSUME NEW name \in Ids, ScanEntry(name)
      PROVE  Explained'
  BY <1>1, <1>2 DEF ScanEntry
<1>3. CASE LoadConfig
  <2>1. pc = "discover" /\ summaries' = << >> /\ DOMAIN << >> = {}
    BY <1>3 DEF LoadConfig, SeenInv, Unseen
  <2>2. CASE pc' = "failed"
    BY <1>1, <1>3, <2>2 DEF LoadConfig, Fail
  <2>3. CASE pc' # "failed"
    BY <1>3, <2>1, <2>3, FirstCandidates DEF Explained
  <2> QED
    BY <2>2, <2>3
<1>4. ASSUME NEW id \in Ids, Process(id)
      PROVE  Explained'
  <2>1. CASE UNCHANGED <<todo, summaries>> /\ candidates' = candidates \o synthesize_path_traversal_highlight(id, 2)
    <3> DEFINE note == synthesize_path_traversal_highlight(id, 2)
               f == Synthesized("error", PATH_TRAVERSAL, id, <<2, id, 2>>)
    <3>1. note \in Seq(Highlight)
      BY IdTypes, TraversalHighlightType
    <3>2. note = Under(CockpitId, <<f>>)
      BY DEF synthesize_path_traversal_highlight
    <3>3. <<2, id, 2>> # None /\ <<2, id, 2>>[1] = 2
      <4>1. <<2, id, 2>> \in Seq(Nat)
        BY IdTypes
      <4> QED
        BY <4>1, TypesAssumption
    <3> HIDE DEF note
    <3>4. DOMAIN note = {1} /\ note[1] = [sensor_id |-> CockpitId, finding |-> f]
      <4> HIDE DEF f
      <4> QED
        BY <3>2, UnderOne
    <3>5. Form(note[1]) = 2 /\ note[1].finding.severity = "error"
      BY <3>3, <3>4, FormOfOwn
    <3>6. \A i \in DOMAIN note : /\ Form(note[i]) \in {2, 3} => note[i].finding.severity = "error"
                                 /\ Form(note[i]) = 1 => Origin(note[i]) \in todo \ todo'
      BY <3>4, <3>5
    <3>7. /\ \A i \in DOMAIN candidates' :
               /\ Form(candidates'[i]) \in {2, 3} => candidates'[i].finding.severity = "error"
               /\ Form(candidates'[i]) = 1 => Origin(candidates'[i]) \notin todo'
          /\ \A m \in DOMAIN summaries : summaries[m].id \notin todo' /\ Voiced(summaries[m], candidates')
      <4>1. candidates' = candidates \o note /\ todo' \subseteq todo
        BY <2>1 DEF note
      <4> QED
        BY <3>1, <3>6, <4>1, StaysVoiced
    <3> QED
      BY <2>1, <3>7 DEF Explained
  <2>2. ASSUME NEW r, Accounts(r, id), todo' = todo \ {id}, summaries' = Append(summaries, r.summary),
               candidates' = candidates \o r.highlights
        PROVE  Explained'
    BY <1>4, <2>2, AccountVoices, ProcessAdds
  <2> QED
    BY <1>1, <1>4, <2>1, <2>2, ProcessAdds
<1>5. CASE BuildReport
  <2>1. /\ summaries' = sort_sensor_summaries(summaries, cfg) /\ UNCHANGED <<candidates, todo>> /\ pc = "sensor"
    BY <1>5 DEF BuildReport
  <2>2. cfg.section_order \in Seq(Nat) /\ summaries \in Seq(SensorSummary)
    BY <2>1, PolicyIsFixed DEF IsConfig, TypeInv, TypeOK
  <2>3. PICK p \in Bijection(DOMAIN summaries, DOMAIN summaries) :
          summaries' = [k \in DOMAIN summaries |-> summaries[p[k]]]
    BY <2>1, <2>2, SortSummariesSorts
  <2>4. p \in [DOMAIN summaries -> DOMAIN summaries]
    BY <2>3, Fun_BijectionProperties
  <2>5. \A k \in DOMAIN summaries' : p[k] \in DOMAIN summaries /\ summaries'[k] = summaries[p[k]]
    BY <2>3, <2>4
  <2> QED
    BY <2>1, <2>5 DEF Explained
<1>6. CASE WriteReport \/ WriteComment \/ IoError
  BY <1>1, <1>6 DEF WriteReport, WriteComment, IoError
<1>7. ASSUME \/ \E s \in Sensors : SensorWrites(s) \/ SensorComments(s)
             \/ UNCHANGED vars
      PROVE  Explained'
  BY <1>1, <1>7 DEF SensorWrites, SensorComments, vars
<1> QED
  BY <1>2, <1>3, <1>4, <1>5, <1>6, <1>7 DEF Next, Program, Environment

(* The first highlight is at least as severe as any candidate whose         *)
(* fingerprint all share its severity.                                     *)
LEMMA FirstIsAsSevere ==
  ASSUME NEW list \in Seq(Highlight), NEW max \in Nat, max > 0, NEW blocking_ids, NEW c \in DOMAIN list,
         \A j \in DOMAIN list : fingerprint_of(list[j]) = fingerprint_of(list[c]) =>
           list[j].finding.severity = list[c].finding.severity
  PROVE  LET shown == select_highlights(list, max, blocking_ids)
         IN  /\ shown # << >> /\ shown \in Seq(Highlight)
             /\ severity_rank[shown[1].finding.severity] <= severity_rank[list[c].finding.severity]
<1> DEFINE shown == select_highlights(list, max, blocking_ids)
           Key(h) == HighlightKey(h, blocking_ids)
           Alike == {j \in DOMAIN list : fingerprint_of(list[j]) = fingerprint_of(list[c])}
<1>1. Alike \in SUBSET Nat /\ Alike # {}
  OBVIOUS
<1>2. PICK first \in Alike : \A j \in Alike : first <= j
  BY <1>1, LeastNatural
<1>3. first \in Deduped(list)
  <2>1. \A j \in 1 .. (first - 1) : j \in DOMAIN list /\ j \notin Alike
    BY <1>1, <1>2
  <2> QED
    BY <2>1 DEF Deduped
<1>4. list[first] \in Highlight /\ list[first].finding.severity = list[c].finding.severity
  OBVIOUS
<1>5. shown \in Seq(Highlight)
  BY SelectType
<1>6. \/ \E k \in DOMAIN shown : shown[k] = Marked(list[first])
      \/ /\ Len(shown) = max
         /\ \A k \in DOMAIN shown : ~KeyLess(Key(list[first]), Key(shown[k]))
  BY <1>3, KeptIsShown
<1>7. \A k, l \in DOMAIN shown : k < l => ~KeyLess(Key(shown[l]), Key(shown[k]))
  BY ShownAscends
<1>8. Key(Marked(list[first])) = Key(list[first])
  BY <1>4, MarkedFacts
<1> HIDE DEF shown, Key
<1>9. 1 \in DOMAIN shown /\ shown # << >> /\ shown[1] \in Highlight
  BY <1>5, <1>6
<1>10. ~KeyLess(Key(list[first]), Key(shown[1]))
  <2>1. CASE \E k \in DOMAIN shown : shown[k] = Marked(list[first])
    <3>1. PICK k \in DOMAIN shown : shown[k] = Marked(list[first])
      BY <2>1
    <3>2. CASE k = 1
      <4>1. Key(shown[1]) \in Keys(7)
        BY <1>9, HighlightKeyType DEF Key
      <4> QED
        BY <1>8, <3>1, <3>2, <4>1, KeyIrreflexive
    <3>3. CASE k # 1
      <4>1. 1 < k
        BY <1>5, <3>3
      <4> QED
        BY <1>7, <1>8, <1>9, <3>1, <4>1
    <3> QED
      BY <3>2, <3>3
  <2> QED
    BY <1>6, <1>9, <2>1
<1>11. Key(shown[1])[1] <= Key(list[first])[1]
  <2>1. Key(shown[1]) \in Keys(7) /\ Key(list[first]) \in Keys(7)
    BY <1>4, <1>9, HighlightKeyType DEF Key
  <2> QED
    BY <1>10, <2>1, KeyFirst
<1>12. \A h : Key(h)[1] = severity_rank[h.finding.severity]
  BY DEF Key, HighlightKey
<1> QED
  BY <1>4, <1>5, <1>9, <1>11, <1>12 DEF shown

(* A red run shows why: when no receipt that could be read failed a        *)
(* blocking sensor, the first highlight is one as severe as what did.      *)
THEOREM RedShowsItsReason == Spec => []RedIsExplained
<1>1. Init => Explained /\ Chosen
  BY DEF Init, Explained, Chosen
<1>2. TypeInv /\ FilesInv /\ VerdictOfList /\ Chosen /\ Explained => RedIsExplained
  <2> SUFFICES ASSUME TypeInv, FilesInv, VerdictOfList, Chosen, Explained,
                      pc = "done", exit = 2, cfg.max_highlights > 0
               PROVE  RedIsExplained
    BY DEF RedIsExplained
  <2>1. report_file = built /\ built \in Report /\ built # None /\ built.verdict.status = "fail"
    BY IngestAssumption DEF FilesInv, After
  <2>2. overall_verdict(summaries, cfg).status = "fail" /\ summaries \in Seq(SensorSummary)
    BY <2>1 DEF VerdictOfList, TypeInv, TypeOK
  <2>3. PICK m \in DOMAIN summaries :
          summaries[m].blocking /\ effective_status(cfg, summaries[m]) = "fail"
    BY <2>2, VerdictIsWorst DEF Worst
  <2> DEFINE s == summaries[m]
             max == cfg.max_highlights
             shown == built.highlights
  <2>4. CASE s.presence = "present"
    BY <2>3, <2>4 DEF RedIsExplained
  <2>5. CASE s.presence # "present"
    <3>1. s.status = "fail" \/ (cfg.warn_is_fail /\ s.status = "warn")
      BY <2>3 DEF effective_status
    <3>2. Voiced(s, candidates) /\ candidates \in Seq(Highlight)
      BY DEF Explained, TypeInv, TypeOK
    <3>3. shown = select_highlights(candidates, max, BlockingIds) /\ max \in Nat /\ max > 0
      BY <2>1 DEF Chosen
    <3> HIDE DEF s, max, shown
    <3>4. PICK c \in DOMAIN candidates :
            /\ candidates[c].finding.severity = Grade(s.status)
            /\ \/ Form(candidates[c]) \in {2, 3}
               \/ /\ Form(candidates[c]) = 1 /\ Origin(candidates[c]) = s.id
                  /\ \A j \in DOMAIN candidates :
                       Form(candidates[j]) = 1 /\ Origin(candidates[j]) = s.id =>
                         candidates[j].finding.severity = Grade(s.status)
      BY <2>5, <3>1, <3>2 DEF Voiced
    <3>5. ASSUME NEW j \in DOMAIN candidates, fingerprint_of(candidates[j]) = fingerprint_of(candidates[c])
          PROVE  candidates[j].finding.severity = candidates[c].finding.severity
      <4>1. Form(candidates[j]) = Form(candidates[c]) /\ Origin(candidates[j]) = Origin(candidates[c])
        BY <3>5 DEF Form, Origin
      <4>2. CASE Form(candidates[c]) \in {2, 3}
        BY <4>1, <4>2 DEF Explained
      <4>3. CASE Form(candidates[c]) \notin {2, 3}
        BY <3>4, <4>1, <4>3
      <4> QED
        BY <4>2, <4>3
    <3>6. /\ shown # << >> /\ shown \in Seq(Highlight)
          /\ severity_rank[shown[1].finding.severity] <= severity_rank[candidates[c].finding.severity]
      BY <3>2, <3>3, <3>5, FirstIsAsSevere
    <3>7. shown[1].finding.severity \in {"info", "warn", "error"}
      <4>1. shown[1] \in Highlight
        BY <3>6
      <4> QED
        BY <4>1 DEF Highlight, Finding, Severity
    <3>8. \/ shown[1].finding.severity = "error"
          \/ cfg.warn_is_fail /\ shown[1].finding.severity = "warn"
      BY <3>1, <3>4, <3>6, <3>7 DEF severity_rank, Grade
    <3> QED
      BY <2>1, <3>6, <3>8 DEF RedIsExplained, shown
  <2> QED
    BY <2>4, <2>5
<1> QED
  BY <1>1, <1>2, ReckonedAlways, StepExplained, StepChosen, PTL DEF Spec
=============================================================================
