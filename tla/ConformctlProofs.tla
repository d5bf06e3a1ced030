-------------------------- MODULE ConformctlProofs --------------------------
(***************************************************************************)
(* What the conformance tools say is earned, whatever the receipts and the *)
(* command line are and whoever writes the files meanwhile; and            *)
(* cockpitctl's own report keeps the rules it is checked against.          *)
(***************************************************************************)
EXTENDS Conformctl, DomainProofs

Dirwise(a) == a.command \in {"check_dir", "conform_dir"}

ChecksOf(a) == IF a.all THEN Checks ELSE a.flags

(* The sensor id a directory's receipt is judged under. *)
IdUnder(a, d) == IF Dirwise(a) THEN d ELSE IF a.sensor_id = None THEN Unknown ELSE a.sensor_id

(* A content that is found good under a command line. *)
Fit(a, d, content) ==
  \/ content = Absent /\ a.allow_missing_report
  \/ content \in Contents /\ a.command = "validate" /\ validate(content, a.lax)
  \/ content \in Contents /\ a.command # "validate"
       /\ conform_single(content, IdUnder(a, d), ChecksOf(a)) = {}

(***************************************************************************)
(* The inductive invariant: what a command holds at each of its calls, and *)
(* what it has to show for the directories it is through with.             *)
(***************************************************************************)
Placed ==
  /\ pc = "start" => todo = << >> /\ DOMAIN judged = {} /\ DOMAIN results = {} /\ ~had_failure
  /\ pc \in {"golden", "judge"} =>
       args.command \in {"check", "conform"} /\ held \in Contents /\ DOMAIN judged = {}
  /\ pc \in {"exists", "read", "cockpit", "finish"} => Dirwise(args)
  /\ pc = "read" => todo # << >>
  /\ pc \in {"cockpit", "finish"} => todo = << >>
  /\ ~Dirwise(args) => todo = << >> /\ DOMAIN results = {} /\ ~had_failure

(* Only directories that were listed are still to be looked at. *)
Listed == \A i \in DOMAIN todo : todo[i] \in DOMAIN judged

(* A directory that was listed is still to be looked at, or was found good, *)
(* or the run is known to fail.                                            *)
Decided ==
  /\ \A d \in DOMAIN judged :
       (\E i \in DOMAIN todo : todo[i] = d) \/ had_failure \/ exit = 1 \/ Fit(args, d, judged[d])
  /\ \A d \in DOMAIN results :
       results[d] = "PASS" => judged[d] \in Contents /\ Fit(args, d, judged[d])
  /\ exit = 0 => todo = << >> /\ ~had_failure

Kept == TypeOK /\ Placed /\ Listed /\ Decided

LEMMA NoIndices == DOMAIN << >> = {}
OBVIOUS

(* A list without its head. *)
LEMMA AfterHead ==
  ASSUME NEW S, NEW s \in Seq(S), s # << >>
  PROVE  /\ Head(s) \in S /\ Tail(s) \in Seq(S)
         /\ \E i \in DOMAIN s : s[i] = Head(s)
         /\ \A i \in DOMAIN Tail(s) : \E j \in DOMAIN s : Tail(s)[i] = s[j]
         /\ \A j \in DOMAIN s : s[j] = Head(s) \/ \E i \in DOMAIN Tail(s) : Tail(s)[i] = s[j]
<1>1. /\ 1 \in DOMAIN s /\ Head(s) = s[1] /\ Tail(s) \in Seq(S) /\ Head(s) \in S
      /\ \A i \in DOMAIN Tail(s) : i + 1 \in DOMAIN s /\ Tail(s)[i] = s[i + 1]
  OBVIOUS
<1>2. \A j \in DOMAIN s : j # 1 => j - 1 \in DOMAIN Tail(s) /\ Tail(s)[j - 1] = s[j]
  OBVIOUS
<1> QED
  BY <1>1, <1>2

(* Listing a set of directories. *)
LEMMA AscendingDirs ==
  ASSUME NEW entries \in SUBSET Dirs
  PROVE  /\ Ascending(entries) \in Seq(Dirs)
         /\ \A i \in DOMAIN Ascending(entries) : Ascending(entries)[i] \in entries
         /\ \A d \in entries : \E i \in DOMAIN Ascending(entries) : Ascending(entries)[i] = d
<1>1. entries \in SUBSET Nat /\ IsFiniteSet(entries)
  BY ConformctlAssumption, FS_Subset
<1> DEFINE a == Ascending(entries)
<1>2. /\ a \in Seq(entries) /\ DOMAIN a = 1 .. Len(a) /\ \A d \in entries : \E i \in DOMAIN a : a[i] = d
  BY <1>1, AscendingOrder
<1> HIDE DEF a
<1>3. a \in Seq(Dirs) /\ \A i \in DOMAIN a : a[i] \in entries
  BY <1>2
<1> QED
  BY <1>2, <1>3 DEF a

(***************************************************************************)
(* One directory is put in the table.                                      *)
(***************************************************************************)
LEMMA Recorded ==
  ASSUME NEW status \in {"PASS", "FAIL", "skip"},
         NEW content \in Contents \cup {Absent, Unreadable},
         TypeOK, Listed, Decided, todo # << >>, exit = None,
         Record(Head(todo), status, content),
         UNCHANGED <<args, exit>>,
         had_failure' \in BOOLEAN, had_failure => had_failure',
         had_failure' \/ Fit(args, Head(todo), content),
         status = "PASS" => content \in Contents /\ Fit(args, Head(todo), content)
  PROVE  /\ todo' \in Seq(Dirs)
         /\ DOMAIN judged' = DOMAIN judged /\ DOMAIN results' \subseteq DOMAIN judged'
         /\ \A d \in DOMAIN judged' : judged'[d] \in Contents \cup {Pending, Absent, Unreadable}
         /\ \A d \in DOMAIN results' : results'[d] \in {"PASS", "FAIL", "skip"}
         /\ Listed' /\ Decided'
<1> DEFINE h == Head(todo)
<1>1. todo \in Seq(Dirs)
  BY DEF TypeOK
<1>2. /\ Tail(todo) \in Seq(Dirs)
      /\ \E i \in DOMAIN todo : todo[i] = h
      /\ \A i \in DOMAIN Tail(todo) : \E j \in DOMAIN todo : Tail(todo)[i] = todo[j]
      /\ \A j \in DOMAIN todo : todo[j] = h \/ \E i \in DOMAIN Tail(todo) : Tail(todo)[i] = todo[j]
  BY <1>1, AfterHead
<1> HIDE DEF h
<1>3. /\ results' = [e \in DOMAIN results \cup {h} |-> IF e = h THEN status ELSE results[e]]
      /\ judged' = [judged EXCEPT ![h] = content] /\ todo' = Tail(todo)
  BY DEF Record, h
<1>4. h \in DOMAIN judged
  BY <1>2 DEF Listed
<1>5. /\ DOMAIN judged' = DOMAIN judged /\ judged'[h] = content
      /\ \A d \in DOMAIN judged : d # h => judged'[d] = judged[d]
  BY <1>3, <1>4
<1>6. /\ DOMAIN results' = DOMAIN results \cup {h} /\ results'[h] = status
      /\ \A d \in DOMAIN results : d # h => results'[d] = results[d]
  BY <1>3
<1>7. /\ todo' \in Seq(Dirs)
      /\ DOMAIN judged' = DOMAIN judged /\ DOMAIN results' \subseteq DOMAIN judged'
  BY <1>2, <1>3, <1>4, <1>5, <1>6 DEF TypeOK
<1>8. /\ \A d \in DOMAIN judged' : judged'[d] \in Contents \cup {Pending, Absent, Unreadable}
      /\ \A d \in DOMAIN results' : results'[d] \in {"PASS", "FAIL", "skip"}
  BY <1>5, <1>6 DEF TypeOK
<1>9. Listed'
  BY <1>2, <1>3, <1>5 DEF Listed
<1>10. ASSUME NEW d \in DOMAIN judged'
       PROVE  (\E i \in DOMAIN todo' : todo'[i] = d) \/ had_failure' \/ exit' = 1
                \/ Fit(args, d, judged'[d])
  <2>1. CASE d = h
    BY <2>1, <1>5 DEF h
  <2>2. CASE d # h
    BY <2>2, <1>2, <1>3, <1>5 DEF Decided
  <2> QED
    BY <2>1, <2>2
<1>11. ASSUME NEW d \in DOMAIN results', results'[d] = "PASS"
       PROVE  judged'[d] \in Contents /\ Fit(args, d, judged'[d])
  <2>1. CASE d = h
    BY <2>1, <1>5, <1>6, <1>11 DEF h
  <2>2. CASE d # h
    BY <2>2, <1>5, <1>6, <1>11 DEF Decided, TypeOK
  <2> QED
    BY <2>1, <2>2
<1>12. exit' # 0
  BY TypesAssumption
<1>13. Decided'
  BY <1>10, <1>11, <1>12 DEF Decided
<1> QED
  BY <1>7, <1>8, <1>9, <1>13

(* The others change files, and nothing the tool knows.                    *)
LEMMA OthersKeep ==
  ASSUME Kept, IngestPublishes \/ \E d \in Dirs : SensorWrites(d)
  PROVE  Kept'
<1>1. UNCHANGED <<args, pc, todo, held, results, had_failure, exit, judged>>
  BY DEF IngestPublishes, SensorWrites, progress
<1>2. store' \in [Dirs -> Contents \cup {None, Unreadable}] /\ budget' \in 0 .. EnvBudget
  <2>1. store \in [Dirs -> Contents \cup {None, Unreadable}] /\ budget \in 0 .. EnvBudget
        /\ EnvBudget \in Nat
    BY ConformctlAssumption DEF Kept, TypeOK
  <2>2. CASE IngestPublishes
    BY <2>1, <2>2 DEF IngestPublishes
  <2>3. ASSUME NEW d \in Dirs, SensorWrites(d)
        PROVE  store' \in [Dirs -> Contents \cup {None, Unreadable}] /\ budget' \in 0 .. EnvBudget
    BY <2>1, <2>3 DEF SensorWrites
  <2> QED
    BY <2>2, <2>3
<1>3. TypeOK'
  BY <1>1, <1>2 DEF Kept, TypeOK
<1>4. Placed' /\ Listed' /\ Decided'
  BY <1>1 DEF Kept, Placed, Listed, Decided
<1> QED
  BY <1>3, <1>4 DEF Kept

(* check and conform.                                                      *)
LEMMA OneReceiptKeeps ==
  ASSUME Kept, args.command \in {"check", "conform"}, OneReceipt
  PROVE  Kept'
<1>1. /\ None \notin {0, 1} /\ args \in CommandLine /\ ~Dirwise(args) /\ args.command # "validate"
      /\ exit = None
  BY TypesAssumption, ConformctlAssumption
     DEF Kept, TypeOK, OneReceipt, RefuseWithoutId, ReadReport, CompareWithGolden, JudgeReport, Dirwise
<1>2. args.report \in Dirs
  BY <1>1 DEF CommandLine
<1>3. CASE RefuseWithoutId
  BY <1>1, <1>3 DEF RefuseWithoutId, End, Kept, TypeOK, Placed, Listed, Decided, envvars, progress
<1>4. CASE ReadReport
  <2>1. store[args.report] \notin {None, Unreadable} => store[args.report] \in Contents
    BY <1>2 DEF Kept, TypeOK
  <2> QED
    BY <1>1, <1>4, <2>1 DEF ReadReport, End, Kept, TypeOK, Placed, Listed, Decided, envvars, progress
<1>5. CASE CompareWithGolden
  BY <1>1, <1>5 DEF CompareWithGolden, End, Kept, TypeOK, Placed, Listed, Decided, envvars, progress
<1>6. CASE JudgeReport
  <2>1. held \in Contents /\ todo = << >> /\ DOMAIN results = {} /\ ~had_failure
    BY <1>1, <1>6 DEF JudgeReport, Kept, Placed
  <2>2. /\ judged' = [d \in {args.report} |-> held]
        /\ UNCHANGED <<store, budget, args, held, todo, results, had_failure>>
        /\ pc' = "done" /\ exit' \in {0, 1}
    BY <1>6 DEF JudgeReport, End, envvars
  <2>3. DOMAIN judged' = {args.report} /\ \A d \in DOMAIN judged' : judged'[d] = held
    BY <2>2
  <2>4. TypeOK'
    BY <1>1, <1>2, <2>1, <2>2, <2>3 DEF Kept, TypeOK
  <2>5. Placed' /\ Listed'
    BY <1>1, <2>1, <2>2, NoIndices DEF Placed, Listed
  <2>6. exit' = 0 => \A d \in DOMAIN judged' : Fit(args, d, judged'[d])
    BY <1>1, <1>6, <2>1, <2>3 DEF JudgeReport, End, Fit, IdUnder, ChecksOf, EnabledChecks
  <2>7. Decided'
    BY <2>1, <2>2, <2>6, NoIndices DEF Decided
  <2> QED
    BY <2>4, <2>5, <2>7 DEF Kept
<1> QED
  BY <1>3, <1>4, <1>5, <1>6 DEF OneReceipt

(* cockpitctl validate.                                                    *)
LEMMA ValidateKeeps ==
  ASSUME Kept, args.command = "validate", Validate
  PROVE  Kept'
<1>1. /\ None \notin {0, 1} /\ args \in CommandLine /\ ~Dirwise(args) /\ exit = None
      /\ todo = << >> /\ DOMAIN results = {} /\ ~had_failure /\ DOMAIN judged = {}
  BY TypesAssumption, ConformctlAssumption DEF Kept, TypeOK, Placed, Validate, Dirwise
<1>2. args.report \in Dirs
  BY <1>1 DEF CommandLine
<1>3. /\ UNCHANGED <<store, budget, args, held, todo, results, had_failure>>
      /\ pc' = "done" /\ exit' \in {0, 1}
  BY DEF Validate, End, envvars
<1>4. CASE store[args.report] \in {None, Unreadable}
  <2>1. UNCHANGED judged /\ exit' = 1
    BY <1>4 DEF Validate, End
  <2> QED
    BY <1>1, <1>3, <2>1 DEF Kept, TypeOK, Placed, Listed, Decided
<1>5. CASE store[args.report] \notin {None, Unreadable}
  <2>1. store[args.report] \in Contents
    BY <1>2, <1>5 DEF Kept, TypeOK
  <2>2. /\ DOMAIN judged' = {args.report} /\ judged'[args.report] = store[args.report]
        /\ exit' = 0 => validate(store[args.report], args.lax)
    BY <1>5 DEF Validate, End
  <2>3. TypeOK'
    BY <1>1, <1>2, <1>3, <2>1, <2>2 DEF Kept, TypeOK
  <2>4. Placed' /\ Listed'
    BY <1>1, <1>3, NoIndices DEF Placed, Listed
  <2>5. exit' = 0 => \A d \in DOMAIN judged' : Fit(args, d, judged'[d])
    BY <2>1, <2>2 DEF Fit
  <2>6. Decided'
    BY <1>1, <1>3, <2>5, NoIndices DEF Decided
  <2> QED
    BY <2>3, <2>4, <2>6 DEF Kept
<1> QED
  BY <1>4, <1>5

(* check-dir and conform-dir.                                              *)
LEMMA ScanKeeps ==
  ASSUME Kept, Dirwise(args), ScanDir
  PROVE  Kept'
<1>1. /\ None \notin {0, 1} /\ exit = None /\ pc = "start"
      /\ todo = << >> /\ DOMAIN results = {} /\ ~had_failure /\ DOMAIN judged = {}
  BY TypesAssumption DEF Kept, TypeOK, Placed, ScanDir
<1>2. UNCHANGED <<store, budget, args, held>>
  BY DEF ScanDir, envvars
<1>3. CASE End(1) /\ UNCHANGED progress
  BY <1>1, <1>2, <1>3 DEF End, progress, Kept, TypeOK, Placed, Listed, Decided
<1>4. ASSUME NEW entries \in SUBSET Dirs,
             todo' = Ascending(entries), judged' = [d \in entries |-> Pending],
             pc' = "exists", UNCHANGED <<exit, results, had_failure>>
      PROVE  Kept'
  <2>1. /\ todo' \in Seq(Dirs) /\ \A i \in DOMAIN todo' : todo'[i] \in entries
        /\ \A d \in entries : \E i \in DOMAIN todo' : todo'[i] = d
    BY <1>4, AscendingDirs
  <2>2. DOMAIN judged' = entries /\ \A d \in entries : judged'[d] = Pending
    BY <1>4
  <2>3. TypeOK'
    BY <1>1, <1>2, <1>4, <2>1, <2>2 DEF Kept, TypeOK
  <2>4. Placed' /\ Listed' /\ Decided'
    BY <1>1, <1>2, <1>4, <2>1, <2>2 DEF Placed, Listed, Decided
  <2> QED
    BY <2>3, <2>4 DEF Kept
<1> QED
  BY <1>3, <1>4 DEF ScanDir

LEMMA RecordKeeps ==
  ASSUME NEW status \in {"PASS", "FAIL", "skip"},
         NEW content \in Contents \cup {Absent, Unreadable},
         Kept, Dirwise(args), todo # << >>, exit = None,
         Record(Head(todo), status, content),
         UNCHANGED <<store, budget, args, held, exit>>,
         had_failure' \in BOOLEAN, had_failure => had_failure',
         had_failure' \/ Fit(args, Head(todo), content),
         status = "PASS" => content \in Contents /\ Fit(args, Head(todo), content)
  PROVE  Kept'
<1>1. /\ todo' \in Seq(Dirs)
      /\ DOMAIN judged' = DOMAIN judged /\ DOMAIN results' \subseteq DOMAIN judged'
      /\ \A d \in DOMAIN judged' : judged'[d] \in Contents \cup {Pending, Absent, Unreadable}
      /\ \A d \in DOMAIN results' : results'[d] \in {"PASS", "FAIL", "skip"}
      /\ Listed' /\ Decided'
  BY Recorded DEF Kept
<1>2. pc' = "exists"
  BY DEF Record
<1>3. TypeOK'
  BY <1>1, <1>2, TypesAssumption DEF Kept, TypeOK
<1>4. Placed'
  BY <1>2 DEF Placed
<1> QED
  BY <1>1, <1>3, <1>4 DEF Kept

LEMMA LookKeeps ==
  ASSUME Kept, Dirwise(args), LookForReport
  PROVE  Kept'
<1>1. /\ exit = None /\ pc = "exists" /\ todo # << >> /\ had_failure \in BOOLEAN
      /\ UNCHANGED <<store, budget, args, held, exit>>
  BY DEF Kept, TypeOK, LookForReport, envvars
<1>2. CASE pc' = "read" /\ UNCHANGED progress
  BY <1>1, <1>2 DEF progress, Kept, TypeOK, Placed, Listed, Decided
<1>3. CASE args.allow_missing_report /\ Record(Head(todo), "skip", Absent) /\ UNCHANGED had_failure
  <2>1. Fit(args, Head(todo), Absent)
    BY <1>3 DEF Fit
  <2> QED
    BY <1>1, <1>3, <2>1, RecordKeeps
<1>4. CASE Record(Head(todo), "FAIL", Absent) /\ had_failure' = TRUE
  BY <1>1, <1>4, RecordKeeps
<1> QED
  BY <1>2, <1>3, <1>4 DEF LookForReport

LEMMA ReadKeeps ==
  ASSUME Kept, Dirwise(args), ReadSensorReport
  PROVE  Kept'
<1>1. /\ exit = None /\ pc = "read" /\ todo # << >> /\ had_failure \in BOOLEAN
      /\ UNCHANGED <<store, budget, args, held, exit>>
  BY DEF Kept, TypeOK, Placed, ReadSensorReport, envvars
<1>2. Head(todo) \in Dirs
  <2>1. todo \in Seq(Dirs)
    BY DEF Kept, TypeOK
  <2> QED
    BY <1>1, <2>1, AfterHead
<1>3. PICK content : content = store[Head(todo)]
  OBVIOUS
<1>4. content \notin {None, Unreadable} => content \in Contents
  BY <1>2, <1>3 DEF Kept, TypeOK
<1>5. \/ Record(Head(todo), "FAIL", Unreadable) /\ had_failure' = TRUE
      \/ /\ content \in Contents /\ conform_single(content, Head(todo), EnabledChecks) = {}
         /\ Record(Head(todo), "PASS", content) /\ UNCHANGED had_failure
      \/ content \in Contents /\ Record(Head(todo), "FAIL", content) /\ had_failure' = TRUE
  BY <1>3, <1>4 DEF ReadSensorReport
<1>6. CASE Record(Head(todo), "FAIL", Unreadable) /\ had_failure' = TRUE
  BY <1>1, <1>6, RecordKeeps
<1>7. CASE /\ content \in Contents /\ conform_single(content, Head(todo), EnabledChecks) = {}
           /\ Record(Head(todo), "PASS", content) /\ UNCHANGED had_failure
  <2>1. Fit(args, Head(todo), content)
    BY <1>7 DEF Fit, Dirwise, IdUnder, ChecksOf, EnabledChecks
  <2> QED
    BY <1>1, <1>7, <2>1, RecordKeeps
<1>8. CASE content \in Contents /\ Record(Head(todo), "FAIL", content) /\ had_failure' = TRUE
  BY <1>1, <1>8, RecordKeeps
<1> QED
  BY <1>5, <1>6, <1>7, <1>8

LEMMA EveryReceiptKeeps ==
  ASSUME Kept, Dirwise(args), EveryReceipt
  PROVE  Kept'
<1>1. None \notin {0, 1}
  BY TypesAssumption
<1>2. CASE LookForCockpit
  BY <1>1, <1>2 DEF LookForCockpit, envvars, progress, Kept, TypeOK, Placed, Listed, Decided
<1>3. CASE ReadCockpit
  <2>1. /\ UNCHANGED <<store, budget, args, held, todo, results, judged>> /\ pc = "cockpit" /\ exit = None
        /\ \/ pc' = "done" /\ exit' = 1 /\ UNCHANGED had_failure
           \/ pc' = "finish" /\ UNCHANGED <<exit, had_failure>>
           \/ pc' = "finish" /\ had_failure' = TRUE /\ UNCHANGED exit
    BY <1>3 DEF ReadCockpit, End, envvars, Kept, TypeOK
  <2>2. TypeOK'
    BY <1>1, <2>1 DEF Kept, TypeOK
  <2>3. Placed' /\ Listed'
    BY <2>1 DEF Kept, Placed, Listed
  <2>4. Decided'
    BY <1>1, <2>1 DEF Kept, TypeOK, Decided
  <2> QED
    BY <2>2, <2>3, <2>4 DEF Kept
<1>4. CASE Finish
  BY <1>1, <1>4 DEF Finish, End, envvars, progress, Kept, TypeOK, Placed, Listed, Decided
<1> QED
  BY <1>2, <1>3, <1>4, ScanKeeps, LookKeeps, ReadKeeps DEF EveryReceipt

(***************************************************************************)
(* The invariant holds.                                                    *)
(***************************************************************************)
LEMMA KeptFirst == Init => Kept
<1> SUFFICES ASSUME Init PROVE Kept
  OBVIOUS
<1>1. DOMAIN judged = {} /\ DOMAIN results = {} /\ DOMAIN todo = {} /\ todo \in Seq(Dirs)
  BY NoIndices DEF Init
<1>2. EnvBudget \in Nat /\ None \notin {0, 1}
  BY TypesAssumption, ConformctlAssumption
<1>3. TypeOK
  <2>1. /\ store \in [Dirs -> Contents \cup {None, Unreadable}] /\ args \in Commands
        /\ budget = EnvBudget /\ pc = "start" /\ held = None /\ had_failure = FALSE /\ exit = None
    BY DEF Init
  <2>2. /\ budget \in 0 .. EnvBudget /\ held \in Contents \cup {None}
        /\ exit \in {0, 1, None} /\ (pc = "done" <=> exit # None)
    BY <1>2, <2>1
  <2>4. had_failure \in BOOLEAN
    BY <2>1
  <2>3. /\ DOMAIN judged \subseteq Dirs /\ DOMAIN results \subseteq DOMAIN judged
        /\ \A d \in DOMAIN judged : judged[d] \in Contents \cup {Pending, Absent, Unreadable}
        /\ \A d \in DOMAIN results : results[d] \in {"PASS", "FAIL", "skip"}
    BY <1>1
  <2> QED
    BY <1>1, <2>1, <2>2, <2>3, <2>4 DEF TypeOK
<1>4. Placed /\ Listed /\ Decided
  BY <1>1, <1>2 DEF Init, Placed, Listed, Decided, Dirwise
<1> QED
  BY <1>3, <1>4 DEF Kept

LEMMA KeptNext == Kept /\ [Next]_vars => Kept'
<1> SUFFICES ASSUME Kept, [Next]_vars PROVE Kept'
  OBVIOUS
<1>1. CASE check \/ conform
  BY <1>1, OneReceiptKeeps DEF check, conform
<1>2. CASE check_dir \/ conform_dir
  BY <1>2, EveryReceiptKeeps DEF check_dir, conform_dir, Dirwise
<1>3. CASE cmd_validate
  BY <1>3, ValidateKeeps DEF cmd_validate
<1>4. CASE IngestPublishes \/ \E d \in Dirs : SensorWrites(d)
  BY <1>4, OthersKeep
<1>5. CASE UNCHANGED vars
  BY <1>5 DEF vars, Kept, TypeOK, Placed, Listed, Decided
<1> QED
  BY <1>1, <1>2, <1>3, <1>4, <1>5 DEF Next, Program

LEMMA KeptAlways == Spec => []Kept
BY KeptFirst, KeptNext, PTL DEF Spec

(* The type invariant of the tools: what they judge and what they put in   *)
(* the table belong together.                                              *)
THEOREM TypeCorrect == Spec => []TypeOK
BY KeptAlways, PTL DEF Kept

(* Where nothing is left to do, what passed is fit.                        *)
LEMMA PassedIsFit ==
  ASSUME Kept, NEW d \in DOMAIN judged,
         exit = 0 \/ (d \in DOMAIN results /\ results[d] = "PASS")
  PROVE  Fit(args, d, judged[d])
<1>1. CASE exit = 0
  BY <1>1, NoIndices DEF Kept, Decided
<1>2. CASE d \in DOMAIN results /\ results[d] = "PASS"
  BY <1>2 DEF Kept, Decided
<1> QED
  BY <1>1, <1>2

(* Exit code 0 is earned: every directory listed was judged, on what was   *)
(* read of it, and found good, whatever the others wrote meanwhile.        *)
THEOREM ExitZeroIsEarned == Spec => []PassIsEarned
<1>1. Kept => PassIsEarned
  <2> SUFFICES ASSUME Kept, exit = 0, NEW d \in DOMAIN judged
               PROVE  Good(d)
    BY DEF PassIsEarned
  <2>1. Fit(args, d, judged[d])
    BY PassedIsFit
  <2> QED
    BY <2>1 DEF Fit, Good, IdUnder, JudgedAs, Dirwise, ChecksOf, EnabledChecks
<1> QED
  BY <1>1, KeptAlways, PTL

(* What a conformance tool passes is a receipt on the schema.              *)
LEMMA ConformingReceipt ==
  ASSUME NEW content, NEW id, NEW checks, conform_single(content, id, checks) = {}
  PROVE  /\ content.json /\ content.schema_ok /\ content.report # None
         /\ \A chk \in checks : ~Violates(chk, content.report, id)
<1>1. "error" \in {"error"} /\ "schema" \in {"schema"}
  OBVIOUS
<1>2. content.json
  BY <1>1 DEF conform_single
<1>3. validate_receipt("sensor.report.v1", content)
  BY <1>1, <1>2 DEF conform_single
<1>4. content.schema_ok
  BY <1>3 DEF validate_receipt
<1>5. content.report # None
  BY <1>1, <1>2, <1>3 DEF conform_single
<1>6. {chk \in checks : Violates(chk, content.report, id)} = {}
  BY <1>2, <1>3, <1>5 DEF conform_single
<1> QED
  BY <1>2, <1>4, <1>5, <1>6

(* The tools agree: a receipt a conformance tool passes is one that ingest *)
(* can use and validate passes, and what validate passes as a receipt      *)
(* ingest does not refuse in the same mode.                                *)
THEOREM ToolsJudgeAlike == Spec => []ToolsAgree
<1>1. Kept => ToolsAgree
  <2> SUFFICES ASSUME Kept, NEW d \in DOMAIN judged, Passes(d)
               PROVE  LET content == judged[d] IN
                      IF args.command # "validate"
                      THEN /\ content.report # None /\ content.schema_ok
                           /\ content.hint # "cockpit.report.v1" =>
                                \A lax \in BOOLEAN : validate(content, lax)
                      ELSE content.hint # "cockpit.report.v1" /\ content.as_cockpit = {} =>
                             IF args.lax THEN content.report # None ELSE content.schema_ok
    BY DEF ToolsAgree
  <2> DEFINE content == judged[d]
  <2>1. content \in Contents /\ Fit(args, d, content)
    BY PassedIsFit DEF Passes
  <2>2. content # Absent
    BY <2>1, ConformctlAssumption
  <2> HIDE DEF content
  <2>3. CASE args.command # "validate"
    <3>1. conform_single(content, IdUnder(args, d), ChecksOf(args)) = {}
      BY <2>1, <2>2, <2>3 DEF Fit
    <3>2. content.json /\ content.schema_ok /\ content.report # None
      BY <3>1, ConformingReceipt
    <3>3. content.hint # "cockpit.report.v1" => \A lax \in BOOLEAN : validate(content, lax)
      BY <3>2 DEF validate, validate_receipt
    <3> QED
      BY <2>3, <3>2, <3>3 DEF content
  <2>4. CASE args.command = "validate"
    <3>1. validate(content, args.lax)
      BY <2>1, <2>2, <2>4 DEF Fit
    <3>2. content.hint # "cockpit.report.v1" /\ content.as_cockpit = {} =>
            IF args.lax THEN content.report # None ELSE content.schema_ok
      BY <3>1 DEF validate, validate_receipt
    <3> QED
      BY <2>4, <3>2 DEF content
  <2> QED
    BY <2>3, <2>4
<1> QED
  BY <1>1, KeptAlways, PTL

(***************************************************************************)
(* cockpitctl's own report.                                                *)
(***************************************************************************)

(* The policy for missing receipts is only applied to a missing one.       *)
MissingOnly(s) == s.missing_policy_applied # None => s.presence = "missing"

LEMMA SummariesMissingOnly ==
  ASSUME NEW id, NEW policy, NEW comment_path, NEW report, NEW max
  PROVE  /\ MissingOnly(synthesize_path_traversal_sensor(id, policy, comment_path).summary)
         /\ MissingOnly(synthesize_missing_sensor(id, policy, comment_path).summary)
         /\ MissingOnly(summarize_sensor_report(id, comment_path, policy, report, max).summary)
         /\ MissingOnly(synthesize_schema_violation_sensor(id, policy, comment_path).summary)
         /\ MissingOnly(synthesize_invalid_sensor(id, policy, comment_path).summary)
<1>1. MissingOnly(synthesize_path_traversal_sensor(id, policy, comment_path).summary)
  BY DEF MissingOnly, synthesize_path_traversal_sensor, Summary
<1>2. MissingOnly(synthesize_missing_sensor(id, policy, comment_path).summary)
  BY DEF MissingOnly, synthesize_missing_sensor, Summary
<1>3. MissingOnly(summarize_sensor_report(id, comment_path, policy, report, max).summary)
  BY DEF MissingOnly, summarize_sensor_report, Summary
<1>4. /\ MissingOnly(synthesize_schema_violation_sensor(id, policy, comment_path).summary)
      /\ MissingOnly(synthesize_invalid_sensor(id, policy, comment_path).summary)
  BY DEF MissingOnly, synthesize_schema_violation_sensor, synthesize_invalid_sensor, Unusable, Summary
<1> QED
  BY <1>1, <1>2, <1>3, <1>4

LEMMA JudgedMissingOnly ==
  ASSUME NEW id
  PROVE  MissingOnly(IngestJudges(id))
BY SummariesMissingOnly DEF IngestJudges

(* A report that breaks no rule of its own.                                *)
KeepsRules(report) ==
  /\ check_presence_semantics(report) = {}
  /\ check_cockpit_reason_tokens(report)
       \subseteq (UNION {report.sensors[i].reasons : i \in DOMAIN report.sensors}) \cap SensorReasons

LEMMA IngestKeepsRules == KeepsRules(IngestReport)
<1> DEFINE report == IngestReport
<1>1. \A i \in DOMAIN report.sensors : MissingOnly(report.sensors[i])
  BY JudgedMissingOnly DEF IngestReport
<1>2. report.reasons \subseteq {"warn_is_fail"}
  BY DEF IngestReport, overall_verdict
<1> HIDE DEF report
<1>3. check_presence_semantics(report) = {}
  BY <1>1 DEF check_presence_semantics, MissingOnly
<1>4. ASSUME NEW reason \in check_cockpit_reason_tokens(report)
      PROVE  reason \in (UNION {report.sensors[i].reasons : i \in DOMAIN report.sensors}) \cap SensorReasons
  <2>1. /\ reason \in report.reasons \cup UNION {report.sensors[i].reasons : i \in DOMAIN report.sensors}
        /\ reason \in InvalidTokens
    BY DEF check_cockpit_reason_tokens, is_valid_reason_token
  <2>2. reason \in SensorReasons /\ reason # "warn_is_fail"
    BY <2>1, ConformAssumption
  <2> QED
    BY <1>2, <2>1, <2>2
<1>5. KeepsRules(report)
  BY <1>3, <1>4 DEF KeepsRules
<1> QED
  BY <1>5 DEF report

CockpitKeepsRules ==
  cockpit \notin {None, Unreadable} /\ cockpit.report # None => KeepsRules(cockpit.report)

LEMMA RulesKept == CockpitKeepsRules /\ [Next]_vars => CockpitKeepsRules'
<1> SUFFICES ASSUME CockpitKeepsRules, [Next]_vars PROVE CockpitKeepsRules'
  OBVIOUS
<1>1. CASE IngestPublishes
  <2>1. CASE cockpit' = TornReport
    BY <2>1 DEF TornReport, CockpitKeepsRules
  <2>2. CASE cockpit' = Own(IngestReport)
    <3>1. cockpit'.report = IngestReport
      BY <2>2 DEF Own
    <3> QED
      BY <3>1, IngestKeepsRules DEF CockpitKeepsRules
  <2> QED
    BY <1>1, <2>1, <2>2 DEF IngestPublishes
<1>2. CASE UNCHANGED cockpit
  BY <1>2 DEF CockpitKeepsRules
<1>3. IngestPublishes \/ UNCHANGED cockpit
  <2>1. CASE OneReceipt \/ Validate
    BY <2>1 DEF OneReceipt, Validate, RefuseWithoutId, ReadReport, CompareWithGolden, JudgeReport, envvars
  <2>2. CASE EveryReceipt
    BY <2>2 DEF EveryReceipt, ScanDir, LookForReport, ReadSensorReport, LookForCockpit, ReadCockpit,
                Finish, envvars
  <2>3. CASE \E d \in Dirs : SensorWrites(d)
    BY <2>3 DEF SensorWrites
  <2> QED
    BY <2>1, <2>2, <2>3 DEF Next, Program, check, conform, check_dir, conform_dir, cmd_validate, vars
<1> QED
  BY <1>1, <1>2, <1>3

(* The report ingest writes of any receipts fails the checks of the cockpit *)
(* report only for a reason token that a sensor chose.                     *)
THEOREM OwnReportKeepsRules == Spec => []OwnReportConforms
<1>1. Init => CockpitKeepsRules
  <2> SUFFICES ASSUME Init, cockpit \notin {None, Unreadable}, cockpit.report # None
               PROVE  KeepsRules(cockpit.report)
    BY DEF CockpitKeepsRules
  <2>1. cockpit = TornReport \/ cockpit = OldReport \/ cockpit = Own(IngestReport)
    BY DEF Init
  <2>2. cockpit = Own(IngestReport)
    BY <2>1 DEF TornReport, OldReport
  <2>3. cockpit.report = IngestReport
    BY <2>2 DEF Own
  <2> QED
    BY <2>3, IngestKeepsRules
<1>2. CockpitKeepsRules => OwnReportConforms
  BY DEF CockpitKeepsRules, KeepsRules, OwnReportConforms
<1> QED
  BY <1>1, <1>2, RulesKept, PTL DEF Spec

(***************************************************************************)
(* The two orders.                                                         *)
(***************************************************************************)

(* Two keys are in the same order whichever sensor both are of.            *)
LEMMA OrderOfAnySensor ==
  ASSUME NEW x \in Nat, NEW y \in Nat,
         NEW a1 \in Nat, NEW a3 \in Nat, NEW a4 \in Nat, NEW a5 \in Nat, NEW a6 \in Nat,
         NEW b1 \in Nat, NEW b3 \in Nat, NEW b4 \in Nat, NEW b5 \in Nat, NEW b6 \in Nat,
         KeyLess(<<a1, x, a3, a4, a5, a6>>, <<b1, x, b3, b4, b5, b6>>)
  PROVE  KeyLess(<<a1, y, a3, a4, a5, a6>>, <<b1, y, b3, b4, b5, b6>>)
<1> DEFINE ax == <<a1, x, a3, a4, a5, a6>>
           bx == <<b1, x, b3, b4, b5, b6>>
           ay == <<a1, y, a3, a4, a5, a6>>
           by == <<b1, y, b3, b4, b5, b6>>
<1>1. /\ DOMAIN ax = 1 .. 6 /\ DOMAIN ay = 1 .. 6
      /\ \A i \in 1 .. 6 : i # 2 => ay[i] = ax[i] /\ by[i] = bx[i]
      /\ ax[2] = x /\ bx[2] = x /\ ay[2] = y /\ by[2] = y
  OBVIOUS
<1> HIDE DEF ax, bx, ay, by
<1>2. PICK i \in DOMAIN ax : ax[i] < bx[i] /\ \A j \in 1 .. (i - 1) : ax[j] = bx[j]
  BY DEF KeyLess, ax, bx
<1>3. i \in 1 .. 6 /\ i # 2
  BY <1>1, <1>2
<1>4. ay[i] < by[i]
  BY <1>1, <1>2, <1>3
<1>5. \A j \in 1 .. (i - 1) : ay[j] = by[j]
  BY <1>1, <1>2, <1>3
<1>6. KeyLess(ay, by)
  BY <1>1, <1>3, <1>4, <1>5 DEF KeyLess
<1> QED
  BY <1>6 DEF ay, by

(* Six numbers are a key of six.                                           *)
LEMMA SixNumbers ==
  ASSUME NEW a1 \in Nat, NEW a2 \in Nat, NEW a3 \in Nat, NEW a4 \in Nat, NEW a5 \in Nat, NEW a6 \in Nat
  PROVE  <<a1, a2, a3, a4, a5, a6>> \in Keys(6)
BY DEF Keys

ReceiptFinding ==
  [severity : Severity, code : Nat, message : Nat, path : Nat, line : (0 .. U32Max) \cup {None},
   fingerprint : Fingerprint \cup {None}, tool_runtime : BOOLEAN]

(* A receipt whose findings all have a line and are in the order the       *)
(* conformance check wants is left as it is by ingest's sort.              *)
LEMMA OrderedStays ==
  ASSUME NEW id \in Nat, NEW sensor_id \in Nat, NEW report, report.findings \in Seq(ReceiptFinding),
         \A i \in DOMAIN report.findings : report.findings[i].line # None,
         check_ordering(report, sensor_id) = {}
  PROVE  sort_findings(id, report.findings) = report.findings
<1> DEFINE s == report.findings
           Key(i) == finding_sort_key(id, s[i])
           key == [i \in DOMAIN s |-> Key(i)]
<1>1. /\ s \in Seq(ReceiptFinding) /\ DOMAIN s = 1 .. Len(s) /\ Len(s) \in Nat
      /\ \A i \in DOMAIN s : s[i] \in ReceiptFinding /\ s[i].line # None
  OBVIOUS
<1>2. ASSUME NEW i \in DOMAIN s
      PROVE  /\ severity_rank[s[i].severity] \in Nat /\ s[i].path \in Nat /\ s[i].line \in Nat
             /\ s[i].code \in Nat /\ s[i].message \in Nat /\ LineKey(s[i].line) = s[i].line
  <2>1. s[i] \in ReceiptFinding /\ s[i].line # None
    BY <1>1, <1>2
  <2>2. /\ s[i].severity \in Severity /\ s[i].path \in Nat /\ s[i].line \in 0 .. U32Max
        /\ s[i].code \in Nat /\ s[i].message \in Nat
    BY <2>1 DEF ReceiptFinding
  <2> QED
    BY <2>1, <2>2, RankTypes, TypesAssumption DEF LineKey
<1>3. ASSUME NEW i \in DOMAIN s
      PROVE  Key(i) \in Keys(6)
  <2>1. Key(i) = <<severity_rank[s[i].severity], id, s[i].path, s[i].line, s[i].code, s[i].message>>
    BY <1>2, <1>3 DEF finding_sort_key
  <2> HIDE DEF Key
  <2>2. PICK a1, a3, a4, a5, a6 \in Nat : /\ a1 = severity_rank[s[i].severity] /\ a3 = s[i].path
                                        /\ a4 = s[i].line /\ a5 = s[i].code /\ a6 = s[i].message
    BY <1>2, <1>3
  <2>3. Key(i) = <<a1, id, a3, a4, a5, a6>>
    BY <2>1, <2>2
  <2>4. <<a1, id, a3, a4, a5, a6>> \in Keys(6)
    BY SixNumbers
  <2> QED
    BY <2>3, <2>4
<1>4. ASSUME NEW i \in 2 .. Len(s)
      PROVE  ~KeyLess(key[i], key[i - 1])
  <2>1. i \in DOMAIN s /\ i - 1 \in DOMAIN s
    BY <1>1
  <2> DEFINE OwnKey(f) == <<severity_rank[f.severity], sensor_id, f.path,
                            IF f.line = None THEN 0 ELSE f.line, f.code, f.message>>
  <2>2. ~KeyLess(OwnKey(s[i]), OwnKey(s[i - 1]))
    BY <1>4 DEF check_ordering
  <2>3. /\ OwnKey(s[i]) = <<severity_rank[s[i].severity], sensor_id, s[i].path, s[i].line,
                            s[i].code, s[i].message>>
        /\ OwnKey(s[i - 1]) = <<severity_rank[s[i - 1].severity], sensor_id, s[i - 1].path,
                                s[i - 1].line, s[i - 1].code, s[i - 1].message>>
    BY <1>1, <2>1
  <2>4. /\ key[i] = <<severity_rank[s[i].severity], id, s[i].path, s[i].line, s[i].code, s[i].message>>
        /\ key[i - 1] = <<severity_rank[s[i - 1].severity], id, s[i - 1].path, s[i - 1].line,
                          s[i - 1].code, s[i - 1].message>>
    BY <1>2, <2>1 DEF finding_sort_key
  <2> HIDE DEF OwnKey, key
  <2>5. PICK a1, a3, a4, a5, a6 \in Nat : /\ a1 = severity_rank[s[i].severity] /\ a3 = s[i].path
                                        /\ a4 = s[i].line /\ a5 = s[i].code /\ a6 = s[i].message
    BY <1>2, <2>1
  <2>6. PICK b1, b3, b4, b5, b6 \in Nat :
          /\ b1 = severity_rank[s[i - 1].severity] /\ b3 = s[i - 1].path
          /\ b4 = s[i - 1].line /\ b5 = s[i - 1].code /\ b6 = s[i - 1].message
    BY <1>2, <2>1
  <2>7. /\ OwnKey(s[i]) = <<a1, sensor_id, a3, a4, a5, a6>> /\ key[i] = <<a1, id, a3, a4, a5, a6>>
        /\ OwnKey(s[i - 1]) = <<b1, sensor_id, b3, b4, b5, b6>>
        /\ key[i - 1] = <<b1, id, b3, b4, b5, b6>>
    BY <2>3, <2>4, <2>5, <2>6
  <2>8. KeyLess(<<a1, id, a3, a4, a5, a6>>, <<b1, id, b3, b4, b5, b6>>) =>
          KeyLess(<<a1, sensor_id, a3, a4, a5, a6>>, <<b1, sensor_id, b3, b4, b5, b6>>)
    BY OrderOfAnySensor
  <2>9. ~KeyLess(<<a1, sensor_id, a3, a4, a5, a6>>, <<b1, sensor_id, b3, b4, b5, b6>>)
    BY <2>2, <2>7
  <2>10. ~KeyLess(<<a1, id, a3, a4, a5, a6>>, <<b1, id, b3, b4, b5, b6>>)
    BY <2>8, <2>9
  <2> QED
    BY <2>7, <2>10
<1>5. key \in [DOMAIN s -> Keys(6)]
  BY <1>3
<1>6. sort_findings(id, s) = SortByKey(s, key)
  BY DEF sort_findings
<1> HIDE DEF s, key
<1>7. SortByKey(s, key) = s
  BY <1>1, <1>4, <1>5, SortedIsKept
<1> QED
  BY <1>6, <1>7 DEF s

(* A receipt that passes the ordering check, every finding of which has a  *)
(* line, is left as it is by ingest's sort.                                *)
THEOREM CheckedOrderIsIngests == Spec => []OrderedIsKept
<1>1. Kept => OrderedIsKept
  <2> SUFFICES ASSUME Kept, exit = 0, args.command # "validate", "ordering" \in EnabledChecks,
                      NEW d \in DOMAIN judged, judged[d] \in Contents,
                      \A i \in DOMAIN judged[d].report.findings :
                        judged[d].report.findings[i].line # None
               PROVE  sort_findings(d, judged[d].report.findings) = judged[d].report.findings
    BY DEF OrderedIsKept
  <2>1. Fit(args, d, judged[d]) /\ judged[d] # Absent
    BY PassedIsFit, ConformctlAssumption
  <2>2. conform_single(judged[d], IdUnder(args, d), ChecksOf(args)) = {}
    BY <2>1 DEF Fit
  <2>3. judged[d].report # None /\ \A c \in ChecksOf(args) : ~Violates(c, judged[d].report, IdUnder(args, d))
    BY <2>2, ConformingReceipt
  <2>4. check_ordering(judged[d].report, IdUnder(args, d)) = {}
    BY <2>3 DEF Violates, EnabledChecks, ChecksOf
  <2>5. d \in Nat /\ IdUnder(args, d) \in Nat
    <3>1. d \in Dirs /\ args \in CommandLine
      BY ConformctlAssumption DEF Kept, TypeOK
    <3>2. args.sensor_id \in Nat \cup {None}
      BY <3>1 DEF CommandLine
    <3> QED
      BY <3>1, <3>2, ConformctlAssumption DEF IdUnder
  <2>6. judged[d].report.findings \in Seq(ReceiptFinding)
    <3>1. judged[d] \in ReceiptFile
      BY ConformctlAssumption
    <3>2. judged[d].report \in SensorReport
      BY <2>3, <3>1 DEF ReceiptFile
    <3> QED
      BY <3>2 DEF SensorReport, ReceiptFinding
  <2> QED
    BY <2>4, <2>5, <2>6, OrderedStays
<1> QED
  BY <1>1, KeptAlways, PTL
=============================================================================
