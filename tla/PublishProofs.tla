---------------------------- MODULE PublishProofs ----------------------------
(***************************************************************************)
(* Safety of publishing, for any invocations, hooks, keys, number of runs  *)
(* and kills.                                                              *)
(*                                                                         *)
(* The files lag behind what the program knows by what is in the queue.    *)
(* So the invariant says of each file what it holds once the queue is      *)
(* done (Due), and of the report and the comment in which order.           *)
(***************************************************************************)
EXTENDS Publish, TLAPS

Write == [file : Files \cup {"unsafe"}, content : (UNION {Content(f) : f \in Files}) \cup {None}]

(* All that queue q still writes to file f is c, and it writes it unless   *)
(* the file, as d has it, is c already.                                    *)
Due(q, d, f, c) ==
  /\ \A i \in DOMAIN q : q[i].file = f => q[i].content = c
  /\ (\E i \in DOMAIN q : q[i].file = f) \/ d[f] = c

(* File f is of run r, or will be.                                         *)
Fresh(q, d, f, r) ==
  (\E i \in DOMAIN q : q[i].file = f) \/ (d[f] \notin {None, Torn} /\ d[f].run = r)

(* File f is not of run r, and will not be.                                *)
Foreign(q, d, f, r) ==
  /\ \A i \in DOMAIN q : q[i].file = f => q[i].content = None
  /\ d[f] \notin {None, Torn} => d[f].run < r

(* No comment is written before the report of its run.                     *)
ReportFirst(q, d, r) ==
  \A i \in DOMAIN q : q[i].file = "comment.md" =>
    \/ \E j \in 1 .. (i - 1) : q[j].file = "report.json"
    \/ d["report.json"] \notin {None, Torn} /\ d["report.json"].run = r

(* A queue of writes of run r; only sidecars are removed.                  *)
QueueOf(q, r) ==
  /\ q \in Seq(Write)
  /\ \A i \in DOMAIN q :
       /\ q[i].content = None => q[i].file \in {"buildfix.apply.json", "policy.signature.json"}
       /\ q[i].content # None => q[i].content.run = r
       /\ q[i].content # None /\ q[i].file \in Files => q[i].content \in Content(q[i].file)

(* What a disk may hold when run r is the last one.                        *)
DiskOf(d, r) ==
  /\ DOMAIN d = Files
  /\ \A f \in Files : d[f] \in {None, Torn} \cup Content(f)
  /\ \A f \in Files : d[f] \notin {None, Torn} => d[f].run <= r

CommentBehind(d) ==
  d["comment.md"] \notin {None, Torn} =>
    d["report.json"] = Torn \/ (d["report.json"] # None /\ d["comment.md"].run <= d["report.json"].run)

(***************************************************************************)
(* What one write does to these.                                           *)
(***************************************************************************)
Opened(q, d, e) ==
  /\ q # << >> /\ Head(q).file \in Files /\ Head(q).content # None
  /\ e = [d EXCEPT ![Head(q).file] = Torn]

Filled(q, d, e) ==
  /\ q # << >> /\ Head(q).file \in Files /\ Head(q).content # None
  /\ e = [d EXCEPT ![Head(q).file] = Head(q).content]

Removed(q, d, e) ==
  /\ q # << >> /\ Head(q).content = None
  /\ e \in {d, [d EXCEPT ![Head(q).file] = None]}

LEMMA ContentFacts ==
  /\ \A f \in Files : /\ None \notin Content(f) /\ Torn \notin Content(f)
                      /\ \A c \in Content(f) : c.run \in 1 .. MaxRuns
                      /\ HookContent \subseteq Content(f)
  /\ ReportContent \subseteq Content("report.json")
  /\ CommentContent \subseteq Content("comment.md")
  /\ [run : 1 .. MaxRuns, status : {"skipped", "applied", "failed"}] \subseteq Content("buildfix.apply.json")
  /\ [run : 1 .. MaxRuns, config : {0, 1}, key : Nat] \subseteq Content("policy.signature.json")
  /\ [run : 1 .. MaxRuns] \subseteq Content("sarif.json")
<1>1. \A f \in Files : None \notin Content(f) /\ Torn \notin Content(f)
  BY PublishAssumption
<1>2. ASSUME NEW f \in Files, NEW c \in Content(f)
      PROVE  c.run \in 1 .. MaxRuns
  BY DEF Files, Content, HookContent, ReportContent, CommentContent
<1>3. \A f \in Files : HookContent \subseteq Content(f)
  BY DEF Content
<1>4. /\ ReportContent \subseteq Content("report.json")
      /\ CommentContent \subseteq Content("comment.md")
      /\ [run : 1 .. MaxRuns, status : {"skipped", "applied", "failed"}] \subseteq Content("buildfix.apply.json")
      /\ [run : 1 .. MaxRuns, config : {0, 1}, key : Nat] \subseteq Content("policy.signature.json")
      /\ [run : 1 .. MaxRuns] \subseteq Content("sarif.json")
  BY DEF Content
<1> QED
  BY <1>1, <1>2, <1>3, <1>4

LEMMA TailFacts ==
  ASSUME NEW q \in Seq(Write), q # << >>
  PROVE  /\ Tail(q) \in Seq(Write)
         /\ 1 \in DOMAIN q /\ Head(q) = q[1] /\ q[1] \in Write
         /\ \A i \in DOMAIN Tail(q) : i + 1 \in DOMAIN q /\ i \in Nat \ {0} /\ Tail(q)[i] = q[i + 1]
         /\ \A i \in DOMAIN q : i # 1 => i - 1 \in DOMAIN Tail(q) /\ i \in Nat \ {0} /\ Tail(q)[i - 1] = q[i]
  OBVIOUS

(* Opening a file for writing.                                             *)
LEMMA AfterOpen ==
  ASSUME NEW q, NEW r \in Nat, QueueOf(q, r), NEW d, DiskOf(d, r), NEW e, Opened(q, d, e)
  PROVE  /\ DiskOf(e, r)
         /\ \A f \in Files : \A c : Due(q, d, f, c) => Due(q, e, f, c)
         /\ \A f \in Files : Fresh(q, d, f, r) => Fresh(q, e, f, r)
         /\ \A f \in Files : Foreign(q, d, f, r) => Foreign(q, e, f, r)
         /\ ReportFirst(q, d, r) => ReportFirst(q, e, r)
         /\ CommentBehind(d) => CommentBehind(e)
<1> DEFINE h == Head(q).file
<1>1. 1 \in DOMAIN q /\ h = q[1].file /\ h \in Files /\ \A i \in DOMAIN q : i \in Nat \ {0}
  BY TailFacts DEF QueueOf, Opened
<1>2. /\ DOMAIN e = Files /\ e[h] = Torn
      /\ \A f \in Files : f # h => e[f] = d[f]
  BY <1>1 DEF DiskOf, Opened
<1> HIDE DEF h
<1>3. DiskOf(e, r)
  BY <1>2 DEF DiskOf
<1>4. \A f \in Files : \A c : Due(q, d, f, c) => Due(q, e, f, c)
  BY <1>1, <1>2 DEF Due
<1>5. \A f \in Files : Fresh(q, d, f, r) => Fresh(q, e, f, r)
  BY <1>1, <1>2 DEF Fresh
<1>6. \A f \in Files : Foreign(q, d, f, r) => Foreign(q, e, f, r)
  BY <1>1, <1>2 DEF Foreign
<1>7. ReportFirst(q, d, r) => ReportFirst(q, e, r)
  <2>1. CASE h = "report.json"
    <3> SUFFICES ASSUME NEW i \in DOMAIN q, q[i].file = "comment.md"
                 PROVE  \E j \in 1 .. (i - 1) : q[j].file = "report.json"
      BY DEF ReportFirst
    <3>1. i # 1 /\ i \in Nat \ {0}
      BY <1>1, <2>1
    <3>2. 1 \in 1 .. (i - 1) /\ q[1].file = "report.json"
      BY <1>1, <2>1, <3>1
    <3> QED
      BY <3>2
  <2>2. CASE h # "report.json"
    BY <1>2, <2>2 DEF ReportFirst, Files
  <2> QED
    BY <2>1, <2>2
<1>8. CommentBehind(d) => CommentBehind(e)
  BY <1>1, <1>2 DEF CommentBehind, Files
<1> QED
  BY <1>3, <1>4, <1>5, <1>6, <1>7, <1>8

(* Filling a file.                                                         *)
LEMMA AfterFill ==
  ASSUME NEW q, NEW r \in Nat, QueueOf(q, r), NEW d, DiskOf(d, r), NEW e, Filled(q, d, e)
  PROVE  /\ QueueOf(Tail(q), r) /\ DiskOf(e, r)
         /\ \A f \in Files : \A c : Due(q, d, f, c) => Due(Tail(q), e, f, c)
         /\ \A f \in Files : Fresh(q, d, f, r) => Fresh(Tail(q), e, f, r)
         /\ \A f \in Files : Foreign(q, d, f, r) => Foreign(Tail(q), e, f, r)
         /\ ReportFirst(q, d, r) => ReportFirst(Tail(q), e, r)
         /\ CommentBehind(d) /\ ReportFirst(q, d, r) => CommentBehind(e)
<1> DEFINE h == Head(q).file
           x == Head(q).content
           t == Tail(q)
<1>0. q \in Seq(Write)
  BY DEF QueueOf
<1>1. /\ 1 \in DOMAIN q /\ h = q[1].file /\ x = q[1].content /\ h \in Files
      /\ t \in Seq(Write)
      /\ \A i \in DOMAIN t : i + 1 \in DOMAIN q /\ i \in Nat \ {0} /\ t[i] = q[i + 1]
      /\ \A i \in DOMAIN q : i # 1 => i - 1 \in DOMAIN t /\ i \in Nat \ {0} /\ t[i - 1] = q[i]
  BY <1>0, TailFacts DEF Filled
<1>2. x # None /\ x # Torn /\ x.run = r /\ x \in Content(h)
  BY <1>1, ContentFacts DEF QueueOf, Filled
<1>3. /\ DOMAIN e = Files /\ e[h] = x
      /\ \A f \in Files : f # h => e[f] = d[f]
  BY <1>1 DEF DiskOf, Filled
<1> HIDE DEF h, x, t
<1>4. QueueOf(t, r)
  BY <1>1 DEF QueueOf
<1>5. DiskOf(e, r)
  BY <1>2, <1>3 DEF DiskOf
<1>6. ASSUME NEW f \in Files, NEW c, Due(q, d, f, c)
      PROVE  Due(t, e, f, c)
  <2>1. CASE f = h
    BY <1>1, <1>3, <1>6, <2>1 DEF Due
  <2>2. CASE f # h
    BY <1>1, <1>3, <1>6, <2>2 DEF Due
  <2> QED
    BY <2>1, <2>2
<1>7. ASSUME NEW f \in Files, Fresh(q, d, f, r)
      PROVE  Fresh(t, e, f, r)
  <2>1. CASE f = h
    BY <1>2, <1>3, <2>1 DEF Fresh
  <2>2. CASE f # h
    BY <1>1, <1>3, <1>7, <2>2 DEF Fresh
  <2> QED
    BY <2>1, <2>2
<1>8. ASSUME NEW f \in Files, Foreign(q, d, f, r)
      PROVE  Foreign(t, e, f, r)
  BY <1>1, <1>2, <1>3, <1>8 DEF Foreign
<1>9. ASSUME ReportFirst(q, d, r)
      PROVE  ReportFirst(t, e, r)
  <2> SUFFICES ASSUME NEW i \in DOMAIN t, t[i].file = "comment.md"
               PROVE  \/ \E j \in 1 .. (i - 1) : t[j].file = "report.json"
                      \/ e["report.json"] \notin {None, Torn} /\ e["report.json"].run = r
    BY DEF ReportFirst
  <2>1. i + 1 \in DOMAIN q /\ q[i + 1].file = "comment.md" /\ i \in Nat \ {0}
    BY <1>1
  <2>2. CASE \E j \in 1 .. i : q[j].file = "report.json"
    <3>1. PICK j \in 1 .. i : q[j].file = "report.json"
      BY <2>2
    <3>2. CASE j = 1
      BY <1>1, <1>2, <1>3, <3>1, <3>2
    <3>3. CASE j # 1
      <4>1. j \in DOMAIN q
        BY <1>0, <2>1
      <4>2. j - 1 \in 1 .. (i - 1) /\ t[j - 1] = q[j]
        BY <1>1, <2>1, <3>3, <4>1
      <4> QED
        BY <3>1, <4>2
    <3> QED
      BY <3>2, <3>3
  <2>3. CASE d["report.json"] \notin {None, Torn} /\ d["report.json"].run = r
    BY <1>2, <1>3, <2>3 DEF Files
  <2> QED
    BY <1>9, <2>1, <2>2, <2>3 DEF ReportFirst
<1>10. ASSUME CommentBehind(d), ReportFirst(q, d, r)
       PROVE  CommentBehind(e)
  <2>1. CASE h = "comment.md"
    <3>1. ~\E j \in 1 .. (1 - 1) : q[j].file = "report.json"
      OBVIOUS
    <3>2. d["report.json"] \notin {None, Torn} /\ d["report.json"].run = r
      BY <1>1, <1>10, <2>1, <3>1 DEF ReportFirst
    <3> QED
      BY <1>2, <1>3, <2>1, <3>2 DEF CommentBehind, Files
  <2>2. CASE h = "report.json"
    BY <1>2, <1>3, <2>2 DEF CommentBehind, Files, DiskOf
  <2>3. CASE h \notin {"comment.md", "report.json"}
    BY <1>3, <1>10, <2>3 DEF CommentBehind, Files
  <2> QED
    BY <2>1, <2>2, <2>3
<1> QED
  BY <1>4, <1>5, <1>6, <1>7, <1>8, <1>9, <1>10 DEF t

(* Removing a file, with or without success.                               *)
LEMMA AfterRemove ==
  ASSUME NEW q, NEW r \in Nat, QueueOf(q, r), NEW d, DiskOf(d, r), NEW e, Removed(q, d, e)
  PROVE  /\ QueueOf(Tail(q), r) /\ DiskOf(e, r)
         /\ \A f \in Files : \A c : c # None /\ Due(q, d, f, c) => Due(Tail(q), e, f, c)
         /\ \A f \in {"report.json", "comment.md"} : Fresh(q, d, f, r) => Fresh(Tail(q), e, f, r)
         /\ \A f \in Files : Foreign(q, d, f, r) => Foreign(Tail(q), e, f, r)
         /\ ReportFirst(q, d, r) => ReportFirst(Tail(q), e, r)
         /\ CommentBehind(d) => CommentBehind(e)
<1> DEFINE h == Head(q).file
           t == Tail(q)
<1>0. q \in Seq(Write)
  BY DEF QueueOf
<1>1. /\ 1 \in DOMAIN q /\ h = q[1].file /\ Head(q).content = q[1].content
      /\ t \in Seq(Write)
      /\ \A i \in DOMAIN t : i + 1 \in DOMAIN q /\ i \in Nat \ {0} /\ t[i] = q[i + 1]
      /\ \A i \in DOMAIN q : i # 1 => i - 1 \in DOMAIN t /\ i \in Nat \ {0} /\ t[i - 1] = q[i]
  BY <1>0, TailFacts DEF Removed
<1>2. h \in {"buildfix.apply.json", "policy.signature.json"} /\ h \in Files
  BY <1>1 DEF QueueOf, Files, Removed
<1>3. /\ DOMAIN e = Files /\ e[h] \in {d[h], None}
      /\ \A f \in Files : f # h => e[f] = d[f]
  BY <1>2 DEF DiskOf, Removed
<1>3a. q[1].content = None
  BY <1>1 DEF Removed
<1> HIDE DEF h, t
<1>4. QueueOf(t, r)
  BY <1>1 DEF QueueOf
<1>5. DiskOf(e, r)
  BY <1>2, <1>3 DEF DiskOf
<1>6. ASSUME NEW f \in Files, NEW c, c # None, Due(q, d, f, c)
      PROVE  Due(t, e, f, c)
  <2>1. f # h
    BY <1>1, <1>3a, <1>6 DEF Due
  <2> QED
    BY <1>1, <1>3, <1>6, <2>1 DEF Due
<1>7. ASSUME NEW f \in {"report.json", "comment.md"}, Fresh(q, d, f, r)
      PROVE  Fresh(t, e, f, r)
  <2>1. f # h /\ f \in Files
    BY <1>2 DEF Files
  <2>2. e[f] = d[f]
    BY <1>3, <2>1
  <2>3. (\E i \in DOMAIN q : q[i].file = f) => \E i \in DOMAIN t : t[i].file = f
    BY <1>1, <2>1
  <2> QED
    BY <1>7, <2>2, <2>3 DEF Fresh
<1>8. ASSUME NEW f \in Files, Foreign(q, d, f, r)
      PROVE  Foreign(t, e, f, r)
  BY <1>1, <1>3, <1>8 DEF Foreign
<1>9. ASSUME ReportFirst(q, d, r)
      PROVE  ReportFirst(t, e, r)
  <2> SUFFICES ASSUME NEW i \in DOMAIN t, t[i].file = "comment.md"
               PROVE  \/ \E j \in 1 .. (i - 1) : t[j].file = "report.json"
                      \/ e["report.json"] \notin {None, Torn} /\ e["report.json"].run = r
    BY DEF ReportFirst
  <2>1. i + 1 \in DOMAIN q /\ q[i + 1].file = "comment.md" /\ i \in Nat \ {0}
    BY <1>1
  <2>2. CASE \E j \in 1 .. i : q[j].file = "report.json"
    <3>1. PICK j \in 1 .. i : q[j].file = "report.json"
      BY <2>2
    <3>2. j # 1
      BY <1>1, <1>2, <3>1
    <3>3. j \in DOMAIN q
      BY <1>0, <2>1
    <3>4. j - 1 \in 1 .. (i - 1) /\ t[j - 1] = q[j]
      BY <1>1, <2>1, <3>2, <3>3
    <3> QED
      BY <3>1, <3>4
  <2>3. CASE d["report.json"] \notin {None, Torn} /\ d["report.json"].run = r
    BY <1>2, <1>3, <2>3 DEF Files
  <2> QED
    BY <1>9, <2>1, <2>2, <2>3 DEF ReportFirst
<1>10. CommentBehind(d) => CommentBehind(e)
  BY <1>2, <1>3 DEF CommentBehind, Files
<1> QED
  BY <1>4, <1>5, <1>6, <1>7, <1>8, <1>9, <1>10 DEF t

(* What is due when nothing is queued.                                     *)
LEMMA EmptyQueue ==
  ASSUME NEW d, NEW r \in Nat
  PROVE  /\ QueueOf(<< >>, r) /\ ReportFirst(<< >>, d, r)
         /\ \A f, c : Due(<< >>, d, f, c) <=> d[f] = c
         /\ \A f : Fresh(<< >>, d, f, r) <=> d[f] \notin {None, Torn} /\ d[f].run = r
         /\ \A f : Foreign(<< >>, d, f, r) <=> (d[f] \notin {None, Torn} => d[f].run < r)
  BY DEF QueueOf, ReportFirst, Due, Fresh, Foreign

(* A file the queue does not name is as due as before.                     *)
LEMMA OtherFiles ==
  ASSUME NEW d, NEW r \in Nat, NEW q, NEW f, \A i \in DOMAIN q : q[i].file # f
  PROVE  /\ \A c : Due(q, d, f, c) <=> d[f] = c
         /\ Fresh(q, d, f, r) <=> d[f] \notin {None, Torn} /\ d[f].run = r
         /\ Foreign(q, d, f, r) <=> (d[f] \notin {None, Torn} => d[f].run < r)
  BY DEF Due, Fresh, Foreign

(* Two writes: a report and its comment.                                   *)
LEMMA TwoWrites ==
  ASSUME NEW d, NEW r \in 1 .. MaxRuns, NEW rep \in ReportContent, NEW com \in CommentContent,
         rep.run = r, com.run = r, NEW q, q = Both(rep, com)
  PROVE  /\ QueueOf(q, r) /\ ReportFirst(q, d, r)
         /\ Due(q, d, "report.json", rep) /\ Due(q, d, "comment.md", com)
         /\ Fresh(q, d, "report.json", r) /\ Fresh(q, d, "comment.md", r)
         /\ \A i \in DOMAIN q : q[i].file \in {"report.json", "comment.md"}
<1> DEFINE R == [file |-> "report.json", content |-> rep]
           C == [file |-> "comment.md", content |-> com]
<1>1. R \in Write /\ C \in Write
  BY ContentFacts DEF Write, Files
<1>2. R.content # None /\ C.content # None /\ R.content \in Content("report.json")
      /\ C.content \in Content("comment.md")
  BY ContentFacts DEF Files
<1>3. q \in Seq(Write) /\ DOMAIN q = {1, 2} /\ q[1] = R /\ q[2] = C
  BY <1>1 DEF Both, Put
<1>4. QueueOf(q, r)
  BY <1>2, <1>3 DEF QueueOf
<1>5. ReportFirst(q, d, r)
  <2>1. \A i \in DOMAIN q : q[i].file = "comment.md" => i = 2
    BY <1>3
  <2>2. 1 \in 1 .. (2 - 1) /\ q[1].file = "report.json"
    BY <1>3
  <2> QED
    BY <2>1, <2>2 DEF ReportFirst
<1>6. Due(q, d, "report.json", rep) /\ Due(q, d, "comment.md", com)
  BY <1>3 DEF Due
<1>7. Fresh(q, d, "report.json", r) /\ Fresh(q, d, "comment.md", r)
  BY <1>3 DEF Fresh
<1> QED
  BY <1>3, <1>4, <1>5, <1>6, <1>7

(* Three writes: a report, its comment and, before or after, a sidecar.    *)
ThreeWritten(q, rep, com, side, c) ==
  \/ c # None /\ q = <<[file |-> side, content |-> c]>> \o Both(rep, com) \o << >>
  \/ c = None /\ q = << >> \o Both(rep, com) \o <<Remove(side)>>

(* What such a queue q of run r brings about over the disk d.              *)
ThreeDone(q, d, r, rep, com, side, c) ==
  /\ QueueOf(q, r) /\ ReportFirst(q, d, r)
  /\ Due(q, d, "report.json", rep) /\ Due(q, d, "comment.md", com)
  /\ Fresh(q, d, "report.json", r) /\ Fresh(q, d, "comment.md", r)
  /\ c # None => Due(q, d, side, c)
  /\ c = None /\ (d[side] \notin {None, Torn} => d[side].run < r) => Foreign(q, d, side, r)
  /\ \A i \in DOMAIN q : q[i].file \in {"report.json", "comment.md", side}

LEMMA ThreeWrites ==
  ASSUME NEW q, NEW d, NEW r, NEW rep, NEW com, NEW side, NEW c,
         ThreeWritten(q, rep, com, side, c),
         r \in 1 .. MaxRuns, rep \in ReportContent, com \in CommentContent,
         rep.run = r, com.run = r,
         side \in {"buildfix.apply.json", "policy.signature.json"},
         c = None \/ (c \in Content(side) /\ c.run = r)
  PROVE  ThreeDone(q, d, r, rep, com, side, c)
<1> DEFINE R == [file |-> "report.json", content |-> rep]
           C == [file |-> "comment.md", content |-> com]
           X == [file |-> side, content |-> c]
<1>1. R \in Write /\ C \in Write /\ X \in Write
  BY ContentFacts DEF Write, Files
<1>2. R.content # None /\ C.content # None /\ R.content \in Content("report.json")
      /\ C.content \in Content("comment.md")
  BY ContentFacts DEF Files
<1>3. \/ q = <<X, R, C>> /\ c # None
      \/ q = <<R, C, X>> /\ c = None
  BY DEF ThreeWritten, Both, Put, Remove
<1>4. CASE q = <<X, R, C>> /\ c # None
  <2>1. /\ q \in Seq(Write) /\ DOMAIN q = {1, 2, 3}
        /\ q[1] = X /\ q[2] = R /\ q[3] = C
    BY <1>1, <1>4
  <2>2. QueueOf(q, r)
    BY <1>2, <1>4, <2>1 DEF QueueOf
  <2>3. ReportFirst(q, d, r)
    <3>1. \A i \in DOMAIN q : q[i].file = "comment.md" => i = 3
      BY <2>1
    <3>2. 2 \in 1 .. (3 - 1) /\ q[2].file = "report.json"
      BY <2>1
    <3> QED
      BY <3>1, <3>2 DEF ReportFirst
  <2>4. Due(q, d, "report.json", rep) /\ Due(q, d, "comment.md", com) /\ Due(q, d, side, c)
    BY <2>1 DEF Due
  <2>5. Fresh(q, d, "report.json", r) /\ Fresh(q, d, "comment.md", r)
    BY <2>1 DEF Fresh
  <2>6. \A i \in DOMAIN q : q[i].file \in {"report.json", "comment.md", side}
    BY <2>1
  <2> QED
    BY <1>4, <2>2, <2>3, <2>4, <2>5, <2>6 DEF ThreeDone
<1>5. CASE q = <<R, C, X>> /\ c = None
  <2>1. /\ q \in Seq(Write) /\ DOMAIN q = {1, 2, 3}
        /\ q[1] = R /\ q[2] = C /\ q[3] = X
    BY <1>1, <1>5
  <2>2. QueueOf(q, r)
    BY <1>2, <1>5, <2>1 DEF QueueOf
  <2>3. ReportFirst(q, d, r)
    <3>1. \A i \in DOMAIN q : q[i].file = "comment.md" => i = 2
      BY <2>1
    <3>2. 1 \in 1 .. (2 - 1) /\ q[1].file = "report.json"
      BY <2>1
    <3> QED
      BY <3>1, <3>2 DEF ReportFirst
  <2>4. Due(q, d, "report.json", rep) /\ Due(q, d, "comment.md", com)
    BY <2>1 DEF Due
  <2>5. Fresh(q, d, "report.json", r) /\ Fresh(q, d, "comment.md", r)
    BY <2>1 DEF Fresh
  <2>6. \A i \in DOMAIN q : q[i].file \in {"report.json", "comment.md", side}
    BY <2>1
  <2>7. (d[side] \notin {None, Torn} => d[side].run < r) => Foreign(q, d, side, r)
    BY <1>5, <2>1 DEF Foreign
  <2> QED
    BY <1>5, <2>2, <2>3, <2>4, <2>5, <2>6, <2>7 DEF ThreeDone
<1> QED
  BY <1>3, <1>4, <1>5

(***************************************************************************)
(* The invariant.                                                          *)
(***************************************************************************)
Late == {"sarif", "baseline", "buildfix", "record_apply", "signing", "hooks", "exit"}

(* A verdict is published, or is being published, and nothing has failed.  *)
Live == pc \in Late \/ Ended

Pace ==
  /\ pc # "idle" => exit = None /\ run # 0
  /\ pc \in {"idle", "check", "execute", "record_apply"} => queue = << >>
  /\ pc \in {"check", "execute"} =>
       run \notin applied /\ \A f \in Files : disk[f] \notin {None, Torn} => disk[f].run < run

Disk ==
  QueueOf(queue, run) /\ DiskOf(disk, run) /\ ReportFirst(queue, disk, run) /\ CommentBehind(disk)

(* The report and the comment rendered from it are of this run, and are    *)
(* what the files hold, or will.                                           *)
ShownComment == IF pc \in {"exit", "idle"} /\ sections THEN [comment EXCEPT !.hooks = TRUE] ELSE comment

Verdict ==
  /\ report \in ReportContent /\ report.run = run
  /\ comment \in CommentContent /\ comment.run = run /\ comment.data = report.data /\ ~comment.hooks
  /\ Fresh(queue, disk, "report.json", run) /\ Fresh(queue, disk, "comment.md", run)
  /\ ~HookNamed("report.json") => Due(queue, disk, "report.json", report)
  /\ ~HookNamed("comment.md") => Due(queue, disk, "comment.md", ShownComment)
  /\ Ended => exit = IF report.verdict = "fail" THEN 2 ELSE 0

(* The report's data says which sidecars there are, or will be.            *)
ApplySidecar ==
  ~HookNamed("buildfix.apply.json") =>
    IF "_buildfix_apply" \in report.data
    THEN Due(queue, disk, "buildfix.apply.json", [run |-> run, status |-> ApplyStatus])
    ELSE Foreign(queue, disk, "buildfix.apply.json", run)

SignatureSidecar ==
  ~HookNamed("policy.signature.json") =>
    IF "_policy_signature" \in report.data
    THEN Due(queue, disk, "policy.signature.json", sign_policy_snapshot(report.config, Key))
    ELSE Foreign(queue, disk, "policy.signature.json", run)

(* Which phases put what into the data.                                    *)
BuildfixData ==
  /\ pc \in {"sarif", "baseline", "buildfix", "record_apply"} =>
       report.data = IF fixes = "none" THEN {} ELSE {"_buildfix"}
  /\ pc = "record_apply" => FeatureEnabled(opts.cli, "buildfix")
  /\ pc \in {"signing", "hooks", "exit", "idle"} /\ ~FeatureEnabled(opts.cli, "buildfix") =>
       "_buildfix" \notin report.data /\ "_buildfix_apply" \notin report.data
  /\ run \in applied =>
       Spawned /\ (pc = "record_apply" \/
                   (pc \in {"signing", "hooks", "exit", "idle"} /\ "_buildfix_apply" \in report.data))

SignatureData ==
  "_policy_signature" \in report.data =>
    Key # None /\ FeatureEnabled(opts.cli, "policy-signing") /\ pc \in {"hooks", "exit", "idle"}

Evidence == ApplySidecar /\ SignatureSidecar /\ BuildfixData /\ SignatureData

Inv == TypeOK /\ Pace /\ Disk /\ (Live => Verdict /\ Evidence)

(* The key that signs is the one the options name.                         *)
LEMMA KeyNamed ==
  ASSUME opts \in Invocations
  PROVE  /\ Key \in Nat \cup {None}
         /\ Key # None =>
              Key = IF opts.cli.key_path # None THEN opts.files[opts.cli.key_path]
                    ELSE IF opts.cli.key_env # None THEN opts.environment[opts.cli.key_env]
                    ELSE IF opts.signing.key_path # None THEN opts.files[opts.signing.key_path]
                    ELSE opts.environment[opts.signing.key_env]
<1>1. /\ \A name \in DOMAIN opts.files : opts.files[name] \in Nat
      /\ \A name \in DOMAIN opts.environment : opts.environment[name] \in Nat
      /\ opts.cli.key_path = None \/ opts.cli.key_env = None
  BY PublishAssumption DEF CommandLine
<1>2. /\ Signing.key_path = IF opts.cli.key_path # None \/ opts.cli.key_env # None
                            THEN opts.cli.key_path ELSE opts.signing.key_path
      /\ Signing.key_env = IF opts.cli.key_path # None \/ opts.cli.key_env # None
                           THEN opts.cli.key_env ELSE opts.signing.key_env
  BY DEF Signing, effective_policy_signing
<1> QED
  BY <1>1, <1>2 DEF Key, load_policy_signing_key

(* What the options come to does not change within an invocation.          *)
LEMMA SameOptions ==
  ASSUME opts' = opts
  PROVE  /\ Key' = Key /\ Signing' = Signing
         /\ \A f : HookNamed(f)' <=> HookNamed(f)
         /\ fixes' = fixes => ApplyStatus' = ApplyStatus /\ (Spawned' <=> Spawned)
<1>1. Signing' = Signing /\ Buildfix' = Buildfix
  BY DEF Signing, Buildfix
<1>2. fixes' = fixes => (Actuated' <=> Actuated)
  BY <1>1 DEF Actuated
<1> QED
  BY <1>1, <1>2 DEF Key, HookNamed, Spawned, ApplyStatus

(* The contents that are due.                                              *)
LEMMA DueContents ==
  ASSUME Inv, Live
  PROVE  /\ run \in 1 .. MaxRuns
         /\ report \in Content("report.json") /\ report # None
         /\ comment \in CommentContent
         /\ ShownComment \in Content("comment.md") /\ ShownComment # None /\ ShownComment.run = run
         /\ [run |-> run, status |-> ApplyStatus] \in Content("buildfix.apply.json")
         /\ [run |-> run, status |-> ApplyStatus] # None
         /\ "_policy_signature" \in report.data =>
              /\ sign_policy_snapshot(report.config, Key) \in Content("policy.signature.json")
              /\ sign_policy_snapshot(report.config, Key) # None
<1>1. /\ report \in ReportContent /\ report.run = run
      /\ comment \in CommentContent /\ comment.run = run
      /\ "_policy_signature" \in report.data => Key # None
  BY DEF Inv, Verdict, Evidence, SignatureData
<1>2. run \in 1 .. MaxRuns /\ report.config \in {0, 1}
  BY <1>1 DEF ReportContent
<1>3. ShownComment \in CommentContent /\ ShownComment.run = run
  BY <1>1 DEF ShownComment, CommentContent
<1>4. [run |-> run, status |-> ApplyStatus] \in [run : 1 .. MaxRuns, status : {"skipped", "applied", "failed"}]
  BY <1>2 DEF ApplyStatus
<1>5. opts \in Invocations
  BY DEF Inv, TypeOK
<1>6. "_policy_signature" \in report.data =>
        sign_policy_snapshot(report.config, Key) \in [run : 1 .. MaxRuns, config : {0, 1}, key : Nat]
  BY <1>1, <1>2, <1>5, KeyNamed DEF sign_policy_snapshot
<1> QED
  BY <1>1, <1>2, <1>3, <1>4, <1>6, ContentFacts DEF Files

(* A write keeps the invariant.                                            *)
LEMMA FileStep ==
  ASSUME Inv, OpenTruncate \/ FillFile \/ RemoveFile
  PROVE  Inv'
<1>1. /\ TypeOK /\ Pace /\ Disk
      /\ run \in Nat /\ queue # << >>
      /\ UNCHANGED <<run, opts, pc, config, pre_cfg, memory, exit, applied, crashes>>
  BY DEF Inv, TypeOK, OpenTruncate, FillFile, RemoveFile
<1>2. UNCHANGED <<report, fixes, comment, hook, sections>>
  BY <1>1 DEF memory
<1>3. /\ QueueOf(queue', run) /\ DiskOf(disk', run)
      /\ ReportFirst(queue', disk', run) /\ CommentBehind(disk')
      /\ \A f \in Files : \A c : c # None /\ Due(queue, disk, f, c) => Due(queue', disk', f, c)
      /\ \A f \in {"report.json", "comment.md"} :
           Fresh(queue, disk, f, run) => Fresh(queue', disk', f, run)
      /\ \A f \in Files : Foreign(queue, disk, f, run) => Foreign(queue', disk', f, run)
  <2>0. QueueOf(queue, run) /\ DiskOf(disk, run) /\ ReportFirst(queue, disk, run) /\ CommentBehind(disk)
        /\ {"report.json", "comment.md"} \subseteq Files
    BY <1>1 DEF Disk, Files
  <2>1. CASE OpenTruncate
    <3>1. Opened(queue, disk, disk') /\ queue' = queue
      BY <2>1 DEF OpenTruncate, Opened
    <3> QED
      BY <1>1, <2>0, <3>1, AfterOpen
  <2>2. CASE FillFile
    <3>1. Filled(queue, disk, disk') /\ queue' = Tail(queue)
      BY <2>2 DEF FillFile, Filled
    <3> QED
      BY <1>1, <2>0, <3>1, AfterFill
  <2>3. CASE RemoveFile
    <3>1. Removed(queue, disk, disk') /\ queue' = Tail(queue)
      BY <2>3 DEF RemoveFile, Removed
    <3> QED
      BY <1>1, <2>0, <3>1, AfterRemove
  <2> QED
    BY <2>1, <2>2, <2>3
<1>4. TypeOK'
  <2>1. \A f \in Files : disk'[f] \in {None, Torn} \cup Content(f)
    BY <1>3 DEF DiskOf
  <2>2. \A i \in DOMAIN queue' : queue'[i].file \in Files \cup {"unsafe"}
    <3>1. queue' \in Seq(Write)
      BY <1>3 DEF QueueOf
    <3>2. \A i \in DOMAIN queue' : queue'[i] \in Write
      BY <3>1
    <3> QED
      BY <3>2 DEF Write
  <2>3. stuck' \subseteq {"buildfix.apply.json", "policy.signature.json"}
    <3>1. /\ queue[1].content = None => queue[1].file \in {"buildfix.apply.json", "policy.signature.json"}
          /\ Head(queue) = queue[1]
      BY <1>1 DEF Disk, QueueOf
    <3>2. stuck \subseteq {"buildfix.apply.json", "policy.signature.json"}
      BY <1>1 DEF TypeOK
    <3> QED
      BY <3>1, <3>2 DEF OpenTruncate, FillFile, RemoveFile
  <2> QED
    BY <1>1, <1>2, <2>1, <2>2, <2>3 DEF TypeOK
<1>5. Pace'
  BY <1>1 DEF Pace
<1>6. Disk'
  BY <1>1, <1>3 DEF Disk
<1>7. ASSUME Live'
      PROVE  Verdict' /\ Evidence'
  <2>1. Live
    BY <1>1, <1>7 DEF Live, Ended
  <2>2. Verdict /\ Evidence
    BY <2>1 DEF Inv
  <2>3. /\ Key' = Key /\ ApplyStatus' = ApplyStatus /\ (Spawned' <=> Spawned)
        /\ \A f : HookNamed(f)' <=> HookNamed(f)
    BY <1>1, <1>2, SameOptions
  <2>4. ShownComment' = ShownComment
    BY <1>1, <1>2 DEF ShownComment
  <2>5. Verdict'
    BY <1>1, <1>2, <1>3, <2>1, <2>2, <2>3, <2>4, DueContents DEF Verdict, Ended, Files
  <2>6. ApplySidecar'
    BY <1>1, <1>2, <1>3, <2>1, <2>2, <2>3, DueContents DEF Evidence, ApplySidecar, Files
  <2>7. SignatureSidecar'
    BY <1>1, <1>2, <1>3, <2>1, <2>2, <2>3, DueContents
       DEF Evidence, SignatureSidecar, sign_policy_snapshot, Files
  <2>8. BuildfixData' /\ SignatureData'
    BY <1>1, <1>2, <2>2, <2>3 DEF Evidence, BuildfixData, SignatureData
  <2> QED
    BY <2>5, <2>6, <2>7, <2>8 DEF Evidence
<1> QED
  BY <1>4, <1>5, <1>6, <1>7 DEF Inv

(* A run that gives up, or is killed, leaves what is on the disk.          *)
LEMMA QuitStep ==
  ASSUME Inv, UNCHANGED <<disk, run, opts, config, pre_cfg, applied, stuck>>,
         report' \in ReportContent \cup {None}, fixes' \in {"none", "ineligible", "eligible"},
         comment' \in CommentContent \cup {None}, hook' \in 0 .. Len(opts.hooks), sections' \in BOOLEAN,
         pc' = "idle", queue' = << >>, exit' \in {None, 1}, crashes' \in 0 .. MaxCrashes
  PROVE  Inv'
<1>1. TypeOK /\ Disk /\ run \in Nat
  BY DEF Inv, TypeOK
<1>2. TypeOK'
  BY <1>1 DEF TypeOK
<1>3. Pace'
  BY DEF Pace
<1>4. Disk'
  BY <1>1, EmptyQueue DEF Disk
<1>5. ~Live'
  BY TypesAssumption DEF Live, Late, Ended
<1> QED
  BY <1>2, <1>3, <1>4, <1>5 DEF Inv

LEMMA StartStep ==
  ASSUME Inv, Start
  PROVE  Inv'
<1>1. /\ TypeOK /\ Pace /\ Disk /\ run \in Nat /\ queue = << >>
      /\ run' = run + 1 /\ run < MaxRuns /\ opts' \in Invocations
      /\ exit' = None /\ pre_cfg' = config /\ pc' = "check"
      /\ report' = None /\ fixes' = "none" /\ comment' = None /\ hook' = 0 /\ sections' = FALSE
      /\ stuck' = {} /\ UNCHANGED <<disk, config, queue, applied, crashes>>
  BY DEF Inv, Pace, TypeOK, Start
<1>2. Len(opts'.hooks) \in Nat
  BY <1>1, PublishAssumption
<1>3. /\ disk' = disk /\ DiskOf(disk, run) /\ CommentBehind(disk) /\ run' \in Nat
      /\ \A f \in Files : disk[f] \notin {None, Torn} => disk[f].run \in Nat
  BY <1>1, ContentFacts DEF Disk, DiskOf
<1>4. \A f \in Files : disk[f] \notin {None, Torn} => disk[f].run < run'
  BY <1>1, <1>3 DEF DiskOf
<1>5. TypeOK'
  <2>1. run' \in 0 .. MaxRuns /\ applied' \subseteq 1 .. run' /\ hook' \in 0 .. Len(opts'.hooks)
    BY <1>1, <1>2, PublishAssumption DEF TypeOK
  <2> QED
    BY <1>1, <2>1 DEF TypeOK
<1>6. Pace'
  BY <1>1, <1>4 DEF Pace, TypeOK
<1>7. Disk'
  <2>1. DiskOf(disk, run')
    BY <1>3, <1>4 DEF DiskOf
  <2> QED
    BY <1>1, <1>3, <2>1, EmptyQueue DEF Disk
<1>8. ~Live'
  BY <1>1, TypesAssumption DEF Live, Late, Ended
<1> QED
  BY <1>5, <1>6, <1>7, <1>8 DEF Inv

LEMMA EditStep ==
  ASSUME Inv, EditConfig
  PROVE  Inv'
<1>1. /\ TypeOK /\ Pace /\ Disk /\ config' \in {0, 1}
      /\ UNCHANGED <<disk, run, opts, pc, pre_cfg, memory, queue, exit, applied, stuck, crashes>>
  BY DEF Inv, EditConfig
<1>2. UNCHANGED <<report, fixes, comment, hook, sections>>
  BY <1>1 DEF memory
<1>3. /\ Key' = Key /\ ApplyStatus' = ApplyStatus /\ (Spawned' <=> Spawned)
      /\ \A f : HookNamed(f)' <=> HookNamed(f)
  BY <1>1, <1>2, SameOptions
<1>4. TypeOK' /\ Pace' /\ Disk'
  BY <1>1, <1>2 DEF TypeOK, Pace, Disk
<1>5. (Live' <=> Live) /\ ShownComment' = ShownComment
  BY <1>1, <1>2 DEF Live, Ended, ShownComment
<1>6. Verdict => Verdict'
  BY <1>1, <1>2, <1>3, <1>5 DEF Verdict, Ended
<1>7. Evidence => Evidence'
  BY <1>1, <1>2, <1>3
     DEF Evidence, ApplySidecar, SignatureSidecar, BuildfixData, SignatureData, sign_policy_snapshot
<1> QED
  BY <1>4, <1>5, <1>6, <1>7 DEF Inv

(* The options are checked; execute judges.                                *)
LEMMA CheckStep ==
  ASSUME Inv, CheckOptions
  PROVE  Inv'
<1>1. /\ TypeOK /\ Pace /\ Disk /\ pc = "check"
      /\ UNCHANGED <<disk, run, opts, config, pre_cfg, memory, applied, stuck, crashes>>
  BY DEF Inv, CheckOptions
<1>2. UNCHANGED <<report, fixes, comment, hook, sections>>
  BY <1>1 DEF memory
<1>3. CASE Quit(1)
  <2>1. pc' = "idle" /\ queue' = << >> /\ exit' = 1
    BY <1>3 DEF Quit
  <2> QED
    BY <1>1, <1>2, <2>1, QuitStep DEF TypeOK
<1>4. CASE pc' = "execute" /\ UNCHANGED <<exit, queue>>
  <2>1. TypeOK' /\ Pace' /\ Disk'
    BY <1>1, <1>2, <1>4 DEF TypeOK, Pace, Disk
  <2>2. ~Live'
    BY <1>1, <1>4, TypesAssumption DEF Live, Late, Ended, Pace
  <2> QED
    BY <2>1, <2>2 DEF Inv
<1> QED
  BY <1>3, <1>4 DEF CheckOptions

LEMMA ExecuteStep ==
  ASSUME Inv, Execute
  PROVE  Inv'
<1>1. /\ TypeOK /\ Pace /\ Disk /\ pc = "execute" /\ queue = << >>
      /\ UNCHANGED <<disk, run, opts, config, pre_cfg, applied, stuck, crashes>>
  BY DEF Inv, Execute
<1>2. CASE Quit(1) /\ UNCHANGED memory
  <2>1. pc' = "idle" /\ queue' = << >> /\ exit' = 1 /\ UNCHANGED <<report, fixes, comment, hook, sections>>
    BY <1>2 DEF Quit, memory
  <2> QED
    BY <1>1, <2>1, QuitStep DEF TypeOK
<1>3. CASE ~(Quit(1) /\ UNCHANGED memory)
  <2>1. /\ fixes' \in {"none", "ineligible", "eligible"}
        /\ \E verdict \in {"pass", "fail"} :
             report' = [run |-> run, verdict |-> verdict, config |-> config,
                        data |-> IF fixes' = "none" THEN {} ELSE {"_buildfix"}]
        /\ comment' = Rendered(report', config)
        /\ queue' = Both(report', comment')
        /\ pc' = "sarif" /\ UNCHANGED <<hook, sections, exit>>
    BY <1>3 DEF Execute
  <2>2. run \in 1 .. MaxRuns /\ config \in {0, 1}
    BY <1>1, PublishAssumption DEF TypeOK, Pace
  <2>3. /\ report' \in ReportContent /\ report'.run = run
        /\ report'.data = IF fixes' = "none" THEN {} ELSE {"_buildfix"}
    BY <2>1, <2>2 DEF ReportContent, DataKeys
  <2>4. /\ comment' \in CommentContent /\ comment'.run = run /\ comment'.data = report'.data
        /\ comment'.hooks = FALSE
    BY <2>1, <2>2, <2>3 DEF Rendered, CommentContent, ReportContent
  <2>5. /\ QueueOf(queue', run) /\ ReportFirst(queue', disk, run)
        /\ Due(queue', disk, "report.json", report') /\ Due(queue', disk, "comment.md", comment')
        /\ Fresh(queue', disk, "report.json", run) /\ Fresh(queue', disk, "comment.md", run)
        /\ \A i \in DOMAIN queue' : queue'[i].file \in {"report.json", "comment.md"}
    BY <2>1, <2>2, <2>3, <2>4, TwoWrites
  <2>6. \A f \in {"buildfix.apply.json", "policy.signature.json"} : Foreign(queue', disk, f, run)
    <3>1. \A f \in {"buildfix.apply.json", "policy.signature.json"} :
            f \in Files /\ \A i \in DOMAIN queue' : queue'[i].file # f
      BY <2>5 DEF Files
    <3> QED
      BY <1>1, <2>2, <3>1, OtherFiles DEF Pace
  <2>7. TypeOK'
    BY <1>1, <2>1, <2>3, <2>4, <2>5 DEF TypeOK, Files
  <2>8. Pace' /\ Disk'
    BY <1>1, <2>1, <2>5 DEF Pace, Disk
  <2>9. ~Ended' /\ ShownComment' = comment'
    BY <2>1 DEF Ended, ShownComment
  <2>10. Verdict'
    BY <1>1, <2>3, <2>4, <2>5, <2>9 DEF Verdict
  <2>11. Evidence'
    <3>1. "_buildfix_apply" \notin report'.data /\ "_policy_signature" \notin report'.data
      BY <2>3
    <3>2. run \notin applied
      BY <1>1 DEF Pace
    <3> QED
      BY <1>1, <2>1, <2>3, <2>6, <3>1, <3>2
         DEF Evidence, ApplySidecar, SignatureSidecar, BuildfixData, SignatureData
  <2> QED
    BY <2>7, <2>8, <2>10, <2>11 DEF Inv
<1> QED
  BY <1>2, <1>3

(***************************************************************************)
(* The phases after execute.                                               *)
(***************************************************************************)

(* With nothing queued, the files hold what is due.                        *)
LEMMA AtRest ==
  ASSUME Inv, Live, queue = << >>
  PROVE  /\ \A f \in {"report.json", "comment.md"} : disk[f] \notin {None, Torn} /\ disk[f].run = run
         /\ ~HookNamed("report.json") => disk["report.json"] = report
         /\ ~HookNamed("comment.md") => disk["comment.md"] = ShownComment
         /\ ~HookNamed("buildfix.apply.json") =>
              IF "_buildfix_apply" \in report.data
              THEN disk["buildfix.apply.json"] = [run |-> run, status |-> ApplyStatus]
              ELSE disk["buildfix.apply.json"] \notin {None, Torn} => disk["buildfix.apply.json"].run < run
         /\ ~HookNamed("policy.signature.json") =>
              IF "_policy_signature" \in report.data
              THEN disk["policy.signature.json"] = sign_policy_snapshot(report.config, Key)
              ELSE disk["policy.signature.json"] \notin {None, Torn} => disk["policy.signature.json"].run < run
<1>1. run \in Nat /\ Verdict /\ Evidence
  BY DEF Inv, TypeOK
<1> QED
  BY <1>1, EmptyQueue DEF Verdict, Evidence, ApplySidecar, SignatureSidecar

(* A phase that writes none of the files the report and the hooks do not   *)
(* name (it may write the comment) leaves the others as due as they were.  *)
LEMMA LightStep ==
  ASSUME Inv, Live, queue = << >>, UNCHANGED <<disk, run, opts, report, fixes>>,
         QueueOf(queue', run),
         \A f \in {"report.json", "buildfix.apply.json", "policy.signature.json"} :
           ~HookNamed(f) => \A i \in DOMAIN queue' : queue'[i].file # f
  PROVE  /\ Disk'
         /\ Fresh(queue', disk', "report.json", run') /\ Fresh(queue', disk', "comment.md", run')
         /\ ~HookNamed("report.json")' => Due(queue', disk', "report.json", report')
         /\ (\A i \in DOMAIN queue' : queue'[i].file # "comment.md") /\ ~HookNamed("comment.md") =>
              Due(queue', disk', "comment.md", ShownComment)
         /\ ApplySidecar' /\ SignatureSidecar'
<1>1. /\ run \in Nat /\ Disk
      /\ Key' = Key /\ ApplyStatus' = ApplyStatus
      /\ \A f : HookNamed(f)' <=> HookNamed(f)
  BY SameOptions DEF Inv, TypeOK
<1>2. Disk'
  BY <1>1, AtRest DEF Disk, ReportFirst
<1>3. Fresh(queue', disk', "report.json", run') /\ Fresh(queue', disk', "comment.md", run')
  BY AtRest DEF Fresh
<1>4. /\ ~HookNamed("report.json")' => Due(queue', disk', "report.json", report')
      /\ (\A i \in DOMAIN queue' : queue'[i].file # "comment.md") /\ ~HookNamed("comment.md") =>
           Due(queue', disk', "comment.md", ShownComment)
  BY <1>1, AtRest, OtherFiles
<1>5. ApplySidecar'
  <2>1. SUFFICES ASSUME ~HookNamed("buildfix.apply.json")
                 PROVE  IF "_buildfix_apply" \in report.data
                        THEN Due(queue', disk, "buildfix.apply.json", [run |-> run, status |-> ApplyStatus])
                        ELSE Foreign(queue', disk, "buildfix.apply.json", run)
    BY <1>1 DEF ApplySidecar
  <2>2. \A i \in DOMAIN queue' : queue'[i].file # "buildfix.apply.json"
    BY <2>1
  <2>3. CASE "_buildfix_apply" \in report.data
    BY <2>1, <2>2, <2>3, AtRest DEF Due
  <2>4. CASE "_buildfix_apply" \notin report.data
    BY <2>1, <2>2, <2>4, AtRest DEF Foreign
  <2> QED
    BY <2>3, <2>4
<1>6. SignatureSidecar'
  <2>1. SUFFICES ASSUME ~HookNamed("policy.signature.json")
                 PROVE  IF "_policy_signature" \in report.data
                        THEN Due(queue', disk, "policy.signature.json", sign_policy_snapshot(report.config, Key))
                        ELSE Foreign(queue', disk, "policy.signature.json", run)
    BY <1>1 DEF SignatureSidecar, sign_policy_snapshot
  <2>2. \A i \in DOMAIN queue' : queue'[i].file # "policy.signature.json"
    BY <2>1
  <2>3. CASE "_policy_signature" \in report.data
    BY <2>1, <2>2, <2>3, AtRest DEF Due
  <2>4. CASE "_policy_signature" \notin report.data
    BY <2>1, <2>2, <2>4, AtRest DEF Foreign
  <2> QED
    BY <2>3, <2>4
<1> QED
  BY <1>2, <1>3, <1>4, <1>5, <1>6

(* A phase that writes and adds nothing.                                   *)
LEMMA QuietStep ==
  ASSUME Inv, pc \in Late, pc # "exit", queue = << >>, queue' = << >>,
         UNCHANGED <<disk, run, opts, config, pre_cfg, report, fixes, comment, exit, stuck, crashes>>,
         hook' \in 0 .. Len(opts.hooks), sections' \in BOOLEAN,
         applied' \subseteq 1 .. run,
         pc' \in Late, pc' # "exit", BuildfixData', SignatureData'
  PROVE  Inv'
<1>1. TypeOK /\ Pace /\ Live /\ Verdict /\ run \in Nat
  BY DEF Inv, Live, TypeOK
<1>2. /\ Disk'
      /\ Fresh(queue', disk', "report.json", run') /\ Fresh(queue', disk', "comment.md", run')
      /\ ~HookNamed("report.json")' => Due(queue', disk', "report.json", report')
      /\ ~HookNamed("comment.md") => Due(queue', disk', "comment.md", ShownComment)
      /\ ApplySidecar' /\ SignatureSidecar'
  <2>1. QueueOf(queue', run) /\ \A f : \A i \in DOMAIN queue' : queue'[i].file # f
    BY DEF QueueOf
  <2> QED
    BY <1>1, <2>1, LightStep
<1>3. ShownComment' = ShownComment /\ ~Ended' /\ \A f : HookNamed(f)' <=> HookNamed(f)
  BY SameOptions DEF ShownComment, Late, Ended
<1>4. TypeOK'
  BY <1>1 DEF TypeOK, Late
<1>5. Pace'
  BY <1>1 DEF Pace, Late
<1>6. Verdict'
  BY <1>1, <1>2, <1>3 DEF Verdict
<1> QED
  BY <1>2, <1>4, <1>5, <1>6 DEF Inv, Evidence

LEMMA SarifStep ==
  ASSUME Inv, WriteSarif
  PROVE  Inv'
<1>1. /\ TypeOK /\ Pace /\ Live /\ Verdict /\ Evidence /\ pc = "sarif" /\ pc' = "baseline" /\ queue = << >>
      /\ queue' = IF opts.sarif THEN <<Put("sarif.json", [run |-> run])>> ELSE << >>
      /\ UNCHANGED <<disk, run, opts, config, pre_cfg, memory, exit, applied, stuck, crashes>>
  BY DEF Inv, Live, Late, WriteSarif
<1>2. UNCHANGED <<report, fixes, comment, hook, sections>>
  BY <1>1 DEF memory
<1>3. run \in 1 .. MaxRuns /\ run \in Nat
  BY <1>1 DEF Verdict, ReportContent
<1>4. QueueOf(queue', run) /\ \A i \in DOMAIN queue' : queue'[i].file = "sarif.json"
  <2>1. CASE opts.sarif
    <3>1. [run |-> run] \in Content("sarif.json") /\ [run |-> run] # None
      BY <1>3, ContentFacts DEF Files
    <3>2. [file |-> "sarif.json", content |-> [run |-> run]] \in Write
      BY <3>1 DEF Write, Files
    <3>3. /\ queue' \in Seq(Write) /\ DOMAIN queue' = {1}
          /\ queue'[1] = [file |-> "sarif.json", content |-> [run |-> run]]
      BY <1>1, <2>1, <3>2 DEF Put
    <3> QED
      BY <3>1, <3>3 DEF QueueOf
  <2>2. CASE ~opts.sarif
    BY <1>1, <2>2 DEF QueueOf
  <2> QED
    BY <2>1, <2>2
<1>5. /\ Disk'
      /\ Fresh(queue', disk', "report.json", run') /\ Fresh(queue', disk', "comment.md", run')
      /\ ~HookNamed("report.json")' => Due(queue', disk', "report.json", report')
      /\ ~HookNamed("comment.md") => Due(queue', disk', "comment.md", ShownComment)
      /\ ApplySidecar' /\ SignatureSidecar'
  BY <1>1, <1>2, <1>4, LightStep
<1>6. ShownComment' = ShownComment /\ ~Ended' /\ \A f : HookNamed(f)' <=> HookNamed(f)
  BY <1>1, <1>2, SameOptions DEF ShownComment, Ended
<1>7. TypeOK' /\ Pace'
  BY <1>1, <1>2, <1>4 DEF TypeOK, Pace, Files
<1>8. Verdict'
  BY <1>1, <1>2, <1>5, <1>6 DEF Verdict
<1>9. BuildfixData' /\ SignatureData'
  BY <1>1, <1>2 DEF Evidence, BuildfixData, SignatureData
<1> QED
  BY <1>5, <1>7, <1>8, <1>9 DEF Inv, Evidence

LEMMA BaselineStep ==
  ASSUME Inv, ReadBaseline
  PROVE  Inv'
<1>1. /\ TypeOK /\ Pace /\ Live /\ Evidence /\ pc = "baseline" /\ queue = << >>
      /\ UNCHANGED <<disk, run, opts, config, pre_cfg, memory, applied, stuck, crashes>>
  BY DEF Inv, Live, Late, ReadBaseline
<1>2. UNCHANGED <<report, fixes, comment, hook, sections>>
  BY <1>1 DEF memory
<1>3. CASE Quit(1)
  <2>1. pc' = "idle" /\ queue' = << >> /\ exit' = 1
    BY <1>3 DEF Quit
  <2> QED
    BY <1>1, <1>2, <2>1, QuitStep DEF TypeOK
<1>4. CASE pc' = "buildfix" /\ UNCHANGED <<exit, queue>>
  <2>1. BuildfixData' /\ SignatureData'
    BY <1>1, <1>2, <1>4 DEF Evidence, BuildfixData, SignatureData
  <2> QED
    BY <1>1, <1>2, <1>4, <2>1, QuietStep DEF TypeOK, Late
<1> QED
  BY <1>3, <1>4 DEF ReadBaseline

LEMMA ActuatorStep ==
  ASSUME Inv, RunActuator
  PROVE  Inv'
<1>1. /\ TypeOK /\ Pace /\ Live /\ Verdict /\ Evidence /\ pc = "buildfix" /\ queue = << >>
      /\ pc' = "record_apply" /\ FeatureEnabled(opts.cli, "buildfix")
      /\ applied' = IF Spawned THEN applied \cup {run} ELSE applied
      /\ UNCHANGED <<disk, run, opts, config, pre_cfg, memory, queue, exit, stuck, crashes>>
  BY DEF Inv, Live, Late, RunActuator
<1>2. UNCHANGED <<report, fixes, comment, hook, sections>>
  BY <1>1 DEF memory
<1>3. Spawned' <=> Spawned
  BY <1>1, <1>2, SameOptions
<1>4. BuildfixData' /\ SignatureData'
  BY <1>1, <1>2, <1>3 DEF Evidence, BuildfixData, SignatureData
<1>5. applied' \subseteq 1 .. run
  BY <1>1 DEF TypeOK, Verdict, ReportContent
<1> QED
  BY <1>1, <1>2, <1>4, <1>5, QuietStep DEF TypeOK, Late

LEMMA NotEvaluatedStep ==
  ASSUME Inv, BuildfixNotEvaluated \/ SigningNotRequested
  PROVE  Inv'
<1>1. /\ TypeOK /\ Live /\ Evidence /\ queue = << >> /\ pc \in {"buildfix", "signing"}
      /\ pc = "buildfix" => pc' = "signing" /\ fixes = "none"
      /\ pc = "signing" => pc' = "hooks"
      /\ UNCHANGED <<disk, run, opts, config, pre_cfg, memory, queue, exit, applied, stuck, crashes>>
  BY DEF Inv, Live, Late, BuildfixNotEvaluated, BuildfixEvaluated, SigningNotRequested
<1>2. UNCHANGED <<report, fixes, comment, hook, sections>>
  BY <1>1 DEF memory
<1>3. Spawned' <=> Spawned
  BY <1>1, <1>2, SameOptions
<1>4. BuildfixData' /\ SignatureData'
  BY <1>1, <1>2, <1>3 DEF Evidence, BuildfixData, SignatureData
<1> QED
  BY <1>1, <1>2, <1>4, QuietStep DEF TypeOK, Late

(* A phase that rewrites the report and the comment, with a sidecar before *)
(* them (c) or removed after them (c = None).                              *)
LEMMA RewriteStep ==
  ASSUME Inv, pc \in Late, pc # "exit", queue = << >>,
         NEW side \in {"buildfix.apply.json", "policy.signature.json"},
         NEW c, c = None \/ (c \in Content(side) /\ c.run = run),
         report' \in ReportContent, report'.run = run, comment' = Rendered(report', pre_cfg),
         ThreeWritten(queue', report', comment', side, c),
         UNCHANGED <<disk, run, opts, config, pre_cfg, fixes, hook, sections, exit, applied, stuck, crashes>>,
         pc' \in {"signing", "hooks"}
  PROVE  /\ TypeOK' /\ Pace' /\ Disk' /\ Verdict'
         /\ c # None => Due(queue', disk, side, c)
         /\ c = None /\ (disk[side] \notin {None, Torn} => disk[side].run < run) => Foreign(queue', disk, side, run)
         /\ \A f \in {"buildfix.apply.json", "policy.signature.json"} \ {side} :
              \A i \in DOMAIN queue' : queue'[i].file # f
<1>1. TypeOK /\ Pace /\ Disk /\ Verdict
  BY DEF Inv, Live
<1>2. run \in 1 .. MaxRuns /\ report'.data \in SUBSET DataKeys
  BY DEF ReportContent
<1>3. /\ comment' \in CommentContent /\ comment'.run = run /\ comment'.data = report'.data
      /\ comment'.hooks = FALSE
  BY <1>1, <1>2 DEF Rendered, CommentContent, TypeOK
<1>4. /\ QueueOf(queue', run) /\ ReportFirst(queue', disk, run)
      /\ Due(queue', disk, "report.json", report') /\ Due(queue', disk, "comment.md", comment')
      /\ Fresh(queue', disk, "report.json", run) /\ Fresh(queue', disk, "comment.md", run)
      /\ c # None => Due(queue', disk, side, c)
      /\ c = None /\ (disk[side] \notin {None, Torn} => disk[side].run < run) => Foreign(queue', disk, side, run)
      /\ \A i \in DOMAIN queue' : queue'[i].file \in {"report.json", "comment.md", side}
  <2>1. /\ run \in 1 .. MaxRuns /\ report' \in ReportContent /\ comment' \in CommentContent
        /\ report'.run = run /\ comment'.run = run
        /\ c = None \/ (c \in Content(side) /\ c.run = run)
        /\ ThreeWritten(queue', report', comment', side, c)
    BY <1>2, <1>3
  <2>2. ThreeDone(queue', disk, run, report', comment', side, c)
    BY ONLY <2>1, ThreeWrites, side \in {"buildfix.apply.json", "policy.signature.json"}
  <2> QED
    BY <2>2 DEF ThreeDone
<1>5. TypeOK'
  BY <1>1, <1>3, <1>4 DEF TypeOK, Files
<1>6. Pace' /\ Disk'
  BY <1>1, <1>4 DEF Pace, Disk, Late
<1>7. ShownComment' = comment' /\ ~Ended'
  BY DEF ShownComment, Ended
<1>8. Verdict'
  BY <1>3, <1>4, <1>7 DEF Verdict
<1> QED
  BY <1>4, <1>5, <1>6, <1>8

LEMMA RecordStep ==
  ASSUME Inv, RecordApply
  PROVE  Inv'
<1> DEFINE c == [run |-> run, status |-> ApplyStatus]
<1>1. /\ pc = "record_apply" /\ pc' = "signing" /\ Live /\ Pace /\ queue = << >>
      /\ report' = [report EXCEPT !.data = @ \cup {"_buildfix_apply"}]
      /\ comment' = Rendered(report', pre_cfg)
      /\ queue' = <<[file |-> "buildfix.apply.json", content |-> c]>> \o Both(report', comment') \o << >>
      /\ UNCHANGED <<disk, run, opts, config, pre_cfg, fixes, hook, sections, exit, applied, stuck, crashes>>
  BY DEF Inv, Pace, Live, Late, RecordApply, Rewrite, Put
<1>2. Verdict /\ Evidence
  BY <1>1 DEF Inv
<1>3. /\ report' \in ReportContent /\ report'.run = run
      /\ report'.data = report.data \cup {"_buildfix_apply"}
  BY <1>1, <1>2 DEF Verdict, ReportContent, DataKeys
<1>4. c \in Content("buildfix.apply.json") /\ c # None /\ c.run = run
  BY <1>1, DueContents
<1> HIDE DEF c
<1>5. /\ TypeOK' /\ Pace' /\ Disk' /\ Verdict'
      /\ Due(queue', disk, "buildfix.apply.json", c)
      /\ \A i \in DOMAIN queue' : queue'[i].file # "policy.signature.json"
  BY <1>1, <1>3, <1>4, RewriteStep DEF Late, ThreeWritten
<1>6. /\ Key' = Key /\ ApplyStatus' = ApplyStatus /\ (Spawned' <=> Spawned)
      /\ \A f : HookNamed(f)' <=> HookNamed(f)
  BY <1>1, SameOptions
<1>7. "_policy_signature" \notin report'.data
  BY <1>1, <1>2, <1>3 DEF Evidence, SignatureData
<1>8. ApplySidecar'
  BY <1>1, <1>3, <1>5, <1>6 DEF ApplySidecar, c
<1>9. SignatureSidecar'
  <2>1. ~HookNamed("policy.signature.json") => Foreign(queue', disk, "policy.signature.json", run)
    BY <1>1, <1>3, <1>5, <1>7, AtRest DEF Foreign
  <2> QED
    BY <1>1, <1>6, <1>7, <2>1 DEF SignatureSidecar
<1>10. BuildfixData' /\ SignatureData'
  BY <1>1, <1>2, <1>3, <1>6, <1>7 DEF Evidence, BuildfixData, SignatureData
<1> QED
  BY <1>5, <1>8, <1>9, <1>10 DEF Inv, Evidence

LEMMA BuildfixDisabledStep ==
  ASSUME Inv, BuildfixDisabled
  PROVE  Inv'
<1>1. /\ pc = "buildfix" /\ pc' = "signing" /\ Live /\ queue = << >>
      /\ report' = [report EXCEPT !.data = @ \ {"_buildfix", "_buildfix_apply"}]
      /\ comment' = Rendered(report', pre_cfg)
      /\ queue' = << >> \o Both(report', comment') \o <<Remove("buildfix.apply.json")>>
      /\ UNCHANGED <<disk, run, opts, config, pre_cfg, fixes, hook, sections, exit, applied, stuck, crashes>>
  BY DEF Live, Late, BuildfixDisabled, Rewrite
<1>2. Verdict /\ Evidence
  BY <1>1 DEF Inv
<1>3. /\ report' \in ReportContent /\ report'.run = run
      /\ report'.data = {} /\ "_buildfix_apply" \notin report.data
  BY <1>1, <1>2 DEF Verdict, ReportContent, Evidence, BuildfixData
<1>4. run \notin applied
  BY <1>1, <1>2 DEF Evidence, BuildfixData
<1>5. /\ TypeOK' /\ Pace' /\ Disk' /\ Verdict'
      /\ (disk["buildfix.apply.json"] \notin {None, Torn} => disk["buildfix.apply.json"].run < run) =>
           Foreign(queue', disk, "buildfix.apply.json", run)
      /\ \A i \in DOMAIN queue' : queue'[i].file # "policy.signature.json"
  BY <1>1, <1>3, RewriteStep DEF Late, ThreeWritten
<1>6. \A f : HookNamed(f)' <=> HookNamed(f)
  BY <1>1, SameOptions
<1>7. ApplySidecar'
  BY <1>1, <1>3, <1>5, <1>6, AtRest DEF ApplySidecar
<1>8. SignatureSidecar'
  <2>1. "_policy_signature" \notin report.data
    BY <1>1, <1>2 DEF Evidence, SignatureData
  <2>2. ~HookNamed("policy.signature.json") => Foreign(queue', disk, "policy.signature.json", run)
    BY <1>1, <1>5, <2>1, AtRest DEF Foreign
  <2> QED
    BY <1>1, <1>3, <1>6, <2>2 DEF SignatureSidecar
<1>9. BuildfixData' /\ SignatureData'
  BY <1>1, <1>3, <1>4 DEF BuildfixData, SignatureData
<1> QED
  BY <1>5, <1>7, <1>8, <1>9 DEF Inv, Evidence

LEMMA SignStep ==
  ASSUME Inv, Sign
  PROVE  Inv'
<1>1. /\ TypeOK /\ Live /\ Verdict /\ Evidence /\ pc = "signing" /\ queue = << >>
      /\ FeatureEnabled(opts.cli, "policy-signing")
      /\ UNCHANGED <<disk, run, opts, config, pre_cfg, fixes, hook, sections, applied, stuck, crashes>>
  BY DEF Inv, Live, Late, Sign
<1>2. CASE Key = None
  <2>1. pc' = "idle" /\ queue' = << >> /\ exit' = 1 /\ UNCHANGED <<report, comment>>
    BY <1>2 DEF Sign, Quit
  <2> QED
    BY <1>1, <2>1, QuitStep DEF TypeOK
<1>3. CASE Key # None
  <2> DEFINE c == sign_policy_snapshot(report.config, Key)
  <2>1. /\ pc' = "hooks" /\ UNCHANGED exit
        /\ report' = [report EXCEPT !.data = @ \cup {"_policy_signature"}]
        /\ comment' = Rendered(report', pre_cfg)
        /\ queue' = <<[file |-> "policy.signature.json", content |-> c]>> \o Both(report', comment') \o << >>
    BY <1>3 DEF Sign, Rewrite, Put
  <2>2. /\ report' \in ReportContent /\ report'.run = run /\ report'.config = report.config
        /\ report'.data = report.data \cup {"_policy_signature"}
    BY <1>1, <2>1 DEF Verdict, ReportContent, DataKeys
  <2>3. c \in Content("policy.signature.json") /\ c # None /\ c.run = run
    <3>1. c \in [run : 1 .. MaxRuns, config : {0, 1}, key : Nat] /\ c.run = run
      BY <1>1, <1>3, KeyNamed DEF sign_policy_snapshot, Verdict, ReportContent, TypeOK
    <3> QED
      BY <3>1, ContentFacts DEF Files
  <2> HIDE DEF c
  <2>4. /\ TypeOK' /\ Pace' /\ Disk' /\ Verdict'
        /\ Due(queue', disk, "policy.signature.json", c)
        /\ \A i \in DOMAIN queue' : queue'[i].file # "buildfix.apply.json"
    BY <1>1, <2>1, <2>2, <2>3, RewriteStep DEF Late, ThreeWritten
  <2>5. /\ Key' = Key /\ ApplyStatus' = ApplyStatus /\ (Spawned' <=> Spawned)
        /\ \A f : HookNamed(f)' <=> HookNamed(f)
    BY <1>1, SameOptions
  <2>6. SignatureSidecar'
    BY <1>1, <2>2, <2>4, <2>5 DEF SignatureSidecar, sign_policy_snapshot, c
  <2>7. ApplySidecar'
    <3>1. "_buildfix_apply" \in report'.data <=> "_buildfix_apply" \in report.data
      BY <2>2
    <3>2. CASE "_buildfix_apply" \in report.data
      <4>1. ~HookNamed("buildfix.apply.json") =>
              Due(queue', disk, "buildfix.apply.json", [run |-> run, status |-> ApplyStatus])
        BY <1>1, <2>4, <3>2, AtRest DEF Due
      <4> QED
        BY <1>1, <2>5, <3>1, <3>2, <4>1 DEF ApplySidecar
    <3>3. CASE "_buildfix_apply" \notin report.data
      <4>1. ~HookNamed("buildfix.apply.json") => Foreign(queue', disk, "buildfix.apply.json", run)
        BY <1>1, <2>4, <3>3, AtRest DEF Foreign
      <4> QED
        BY <1>1, <2>5, <3>1, <3>3, <4>1 DEF ApplySidecar
    <3> QED
      BY <3>2, <3>3
  <2>8. BuildfixData' /\ SignatureData'
    BY <1>1, <1>3, <2>1, <2>2, <2>5 DEF Evidence, BuildfixData, SignatureData
  <2> QED
    BY <2>4, <2>6, <2>7, <2>8 DEF Inv, Evidence
<1> QED
  BY <1>2, <1>3

LEMMA SigningDisabledStep ==
  ASSUME Inv, SigningDisabled
  PROVE  Inv'
<1>1. /\ Live /\ Verdict /\ Evidence /\ pc = "signing" /\ pc' = "hooks" /\ queue = << >>
      /\ report' = [report EXCEPT !.data = @ \ {"_policy_signature"}]
      /\ comment' = Rendered(report', pre_cfg)
      /\ queue' = << >> \o Both(report', comment') \o <<Remove("policy.signature.json")>>
      /\ UNCHANGED <<disk, run, opts, config, pre_cfg, fixes, hook, sections, exit, applied, stuck, crashes>>
  BY DEF Inv, Live, Late, SigningDisabled, Rewrite
<1>2. /\ report' \in ReportContent /\ report'.run = run
      /\ report'.data = report.data \ {"_policy_signature"}
      /\ "_policy_signature" \notin report.data
  BY <1>1 DEF Verdict, ReportContent, Evidence, SignatureData
<1>3. /\ TypeOK' /\ Pace' /\ Disk' /\ Verdict'
      /\ (disk["policy.signature.json"] \notin {None, Torn} => disk["policy.signature.json"].run < run) =>
           Foreign(queue', disk, "policy.signature.json", run)
      /\ \A i \in DOMAIN queue' : queue'[i].file # "buildfix.apply.json"
  BY <1>1, <1>2, RewriteStep DEF Late, ThreeWritten
<1>4. /\ Key' = Key /\ ApplyStatus' = ApplyStatus /\ (Spawned' <=> Spawned)
      /\ \A f : HookNamed(f)' <=> HookNamed(f)
  BY <1>1, SameOptions
<1>5. SignatureSidecar'
  BY <1>1, <1>2, <1>3, <1>4, AtRest DEF SignatureSidecar
<1>6. ApplySidecar'
  <2>1. CASE "_buildfix_apply" \in report.data
    <3>1. ~HookNamed("buildfix.apply.json") =>
            Due(queue', disk, "buildfix.apply.json", [run |-> run, status |-> ApplyStatus])
      BY <1>1, <1>3, <2>1, AtRest DEF Due
    <3> QED
      BY <1>1, <1>2, <1>4, <2>1, <3>1 DEF ApplySidecar
  <2>2. CASE "_buildfix_apply" \notin report.data
    <3>1. ~HookNamed("buildfix.apply.json") => Foreign(queue', disk, "buildfix.apply.json", run)
      BY <1>1, <1>3, <2>2, AtRest DEF Foreign
    <3> QED
      BY <1>1, <1>2, <1>4, <2>2, <3>1 DEF ApplySidecar
  <2> QED
    BY <2>1, <2>2
<1>7. BuildfixData' /\ SignatureData'
  BY <1>1, <1>2, <1>4 DEF Evidence, BuildfixData, SignatureData
<1> QED
  BY <1>3, <1>5, <1>6, <1>7 DEF Inv, Evidence

LEMMA HookStep ==
  ASSUME Inv, RunHook
  PROVE  Inv'
<1> DEFINE outcome == opts.hooks[hook + 1]
<1>1. /\ TypeOK /\ Pace /\ Live /\ Verdict /\ Evidence /\ pc = "hooks" /\ queue = << >>
      /\ hook < Len(opts.hooks) /\ hook' = hook + 1
      /\ UNCHANGED <<disk, run, opts, pc, config, pre_cfg, report, fixes, comment, exit, applied, stuck, crashes>>
  BY DEF Inv, Live, Late, RunHook, HooksLeft
<1>2. opts.hooks \in Seq(HookOutcome) /\ hook + 1 \in DOMAIN opts.hooks /\ hook' \in 0 .. Len(opts.hooks)
  BY <1>1, PublishAssumption DEF TypeOK
<1>3. outcome \in HookOutcome
  BY <1>2
<1>4. /\ Key' = Key /\ ApplyStatus' = ApplyStatus /\ (Spawned' <=> Spawned)
      /\ \A f : HookNamed(f)' <=> HookNamed(f)
  BY <1>1, SameOptions
<1>5. BuildfixData' /\ SignatureData'
  BY <1>1, <1>4 DEF Evidence, BuildfixData, SignatureData
<1>6. CASE outcome.fails
  <2>1. UNCHANGED <<sections, queue>>
    BY <1>6 DEF RunHook
  <2> QED
    BY <1>1, <1>2, <1>5, <2>1, QuietStep DEF TypeOK, Late
<1>7. CASE ~outcome.fails
  <2>1. /\ sections' \in BOOLEAN
        /\ queue' = [i \in DOMAIN outcome.files |-> Put(outcome.files[i], [run |-> run, by |-> "hook"])]
    BY <1>1, <1>3, <1>7 DEF RunHook, HookOutcome, TypeOK
  <2>2. outcome.files \in Seq(Files \cup {"unsafe"})
    BY <1>3 DEF HookOutcome
  <2>3. [run |-> run, by |-> "hook"] \in HookContent
    BY <1>1 DEF HookContent, Verdict, ReportContent
  <2>4. \A f \in Files : [run |-> run, by |-> "hook"] \in Content(f)
    BY <2>3, ContentFacts
  <2>5. [run |-> run, by |-> "hook"] # None
    BY <2>4, ContentFacts DEF Files
  <2> DEFINE written == [run |-> run, by |-> "hook"]
  <2>6. written.run = run
    OBVIOUS
  <2> HIDE DEF written, outcome
  <2>7. \A i \in DOMAIN queue' :
          queue'[i] = [file |-> outcome.files[i], content |-> written] /\ outcome.files[i] \in Files \cup {"unsafe"}
    BY <2>1, <2>2 DEF Put, written
  <2>8. QueueOf(queue', run)
    <3>1. \A i \in DOMAIN queue' : queue'[i] \in Write
      BY <2>4, <2>7 DEF Write, Files, written
    <3>2. DOMAIN queue' = 1 .. Len(outcome.files) /\ Len(outcome.files) \in Nat
      BY <2>1, <2>2
    <3>3. queue' \in [1 .. Len(outcome.files) -> Write]
      BY <2>1, <3>1, <3>2
    <3>4. queue' \in Seq(Write)
      BY <3>2, <3>3
    <3> QED
      BY <2>4, <2>5, <2>6, <2>7, <3>4 DEF QueueOf, written
  <2>9. \A f : ~HookNamed(f) => \A i \in DOMAIN queue' : queue'[i].file # f
    <3>1. SUFFICES ASSUME NEW f, NEW i \in DOMAIN queue', queue'[i].file = f
                   PROVE  HookNamed(f)
      OBVIOUS
    <3>2. DOMAIN queue' = DOMAIN outcome.files
      BY <2>1
    <3>3. queue'[i].file = outcome.files[i]
      BY <2>7
    <3> QED
      BY <1>2, <3>1, <3>2, <3>3 DEF HookNamed, outcome
  <2>10. /\ Disk'
         /\ Fresh(queue', disk', "report.json", run') /\ Fresh(queue', disk', "comment.md", run')
         /\ ~HookNamed("report.json")' => Due(queue', disk', "report.json", report')
         /\ ~HookNamed("comment.md") => Due(queue', disk', "comment.md", ShownComment)
         /\ ApplySidecar' /\ SignatureSidecar'
    BY <1>1, <2>8, <2>9, LightStep
  <2>11. ShownComment' = ShownComment /\ ~Ended'
    BY <1>1 DEF ShownComment, Ended
  <2>12. TypeOK'
    <3>1. \A i \in DOMAIN queue' : queue'[i].file \in Files \cup {"unsafe"}
      BY <2>7
    <3> QED
      BY <1>1, <1>2, <2>1, <3>1 DEF TypeOK
  <2>13. Pace'
    BY <1>1 DEF Pace
  <2>14. Verdict'
    BY <1>1, <1>4, <2>10, <2>11 DEF Verdict
  <2> QED
    BY <1>5, <2>10, <2>12, <2>13, <2>14 DEF Inv, Evidence
<1> QED
  BY <1>6, <1>7

LEMMA AppendStep ==
  ASSUME Inv, AppendSections
  PROVE  Inv'
<1> DEFINE full == [comment EXCEPT !.hooks = TRUE]
<1>1. /\ TypeOK /\ Pace /\ Live /\ Verdict /\ Evidence /\ pc = "hooks" /\ queue = << >> /\ pc' = "exit"
      /\ queue' = IF sections THEN <<Put("comment.md", full)>> ELSE << >>
      /\ UNCHANGED <<disk, run, opts, config, pre_cfg, memory, exit, applied, stuck, crashes>>
  BY DEF Inv, Live, Late, AppendSections
<1>2. UNCHANGED <<report, fixes, comment, hook, sections>>
  BY <1>1 DEF memory
<1>3. /\ Key' = Key /\ ApplyStatus' = ApplyStatus /\ (Spawned' <=> Spawned)
      /\ \A f : HookNamed(f)' <=> HookNamed(f)
  BY <1>1, <1>2, SameOptions
<1>4. BuildfixData' /\ SignatureData'
  BY <1>1, <1>2, <1>3 DEF Evidence, BuildfixData, SignatureData
<1>5. full \in Content("comment.md") /\ full # None /\ full.run = run
  <2>1. full \in CommentContent /\ full.run = run
    BY <1>1 DEF Verdict, CommentContent
  <2> QED
    BY <2>1, ContentFacts DEF Files
<1>6. ShownComment' = IF sections THEN full ELSE comment
  BY <1>1, <1>2 DEF ShownComment
<1>6a. ShownComment = comment /\ ~Ended'
  BY <1>1 DEF ShownComment, Ended
<1> HIDE DEF full
<1>7. CASE sections
  <2>1. [file |-> "comment.md", content |-> full] \in Write
    BY <1>5 DEF Write, Files
  <2>2. /\ queue' \in Seq(Write) /\ DOMAIN queue' = {1}
        /\ queue'[1] = [file |-> "comment.md", content |-> full]
    BY <1>1, <1>7, <2>1 DEF Put
  <2>3. QueueOf(queue', run)
    BY <1>5, <2>2 DEF QueueOf
  <2>4. \A i \in DOMAIN queue' : queue'[i].file = "comment.md"
    BY <2>2
  <2>5. /\ Disk'
        /\ Fresh(queue', disk', "report.json", run') /\ Fresh(queue', disk', "comment.md", run')
        /\ ~HookNamed("report.json")' => Due(queue', disk', "report.json", report')
        /\ ApplySidecar' /\ SignatureSidecar'
    BY <1>1, <1>2, <2>3, <2>4, LightStep
  <2>6. Due(queue', disk', "comment.md", ShownComment')
    BY <1>6, <1>7, <2>2 DEF Due
  <2>7. TypeOK' /\ Pace'
    BY <1>1, <1>2, <2>4 DEF TypeOK, Pace, Files
  <2>8. Verdict'
    BY <1>1, <1>2, <1>6a, <2>5, <2>6 DEF Verdict
  <2> QED
    BY <1>4, <2>5, <2>7, <2>8 DEF Inv, Evidence
<1>8. CASE ~sections
  <2>1. QueueOf(queue', run) /\ queue' = << >> /\ \A f : \A i \in DOMAIN queue' : queue'[i].file # f
    BY <1>1, <1>8 DEF QueueOf
  <2>2. /\ Disk'
        /\ Fresh(queue', disk', "report.json", run') /\ Fresh(queue', disk', "comment.md", run')
        /\ ~HookNamed("report.json")' => Due(queue', disk', "report.json", report')
        /\ ~HookNamed("comment.md") => Due(queue', disk', "comment.md", ShownComment)
        /\ ApplySidecar' /\ SignatureSidecar'
    BY <1>1, <1>2, <2>1, LightStep
  <2>3. TypeOK' /\ Pace'
    BY <1>1, <1>2, <2>1 DEF TypeOK, Pace
  <2>4. Verdict'
    BY <1>1, <1>2, <1>3, <1>6, <1>6a, <1>8, <2>2 DEF Verdict
  <2> QED
    BY <1>4, <2>2, <2>3, <2>4 DEF Inv, Evidence
<1> QED
  BY <1>1, <1>7, <1>8 DEF TypeOK

LEMMA ExitStep ==
  ASSUME Inv, Exit
  PROVE  Inv'
<1>1. /\ TypeOK /\ Pace /\ Live /\ Verdict /\ Evidence /\ pc = "exit" /\ queue = << >>
      /\ pc' = "idle" /\ queue' = << >> /\ exit' = IF report.verdict = "fail" THEN 2 ELSE 0
      /\ UNCHANGED <<disk, run, opts, config, pre_cfg, memory, applied, stuck, crashes>>
  BY DEF Inv, Live, Late, Exit, Quit
<1>2. UNCHANGED <<report, fixes, comment, hook, sections>>
  BY <1>1 DEF memory
<1>3. /\ Key' = Key /\ ApplyStatus' = ApplyStatus /\ (Spawned' <=> Spawned)
      /\ \A f : HookNamed(f)' <=> HookNamed(f)
  BY <1>1, <1>2, SameOptions
<1>4. BuildfixData' /\ SignatureData'
  BY <1>1, <1>2, <1>3 DEF Evidence, BuildfixData, SignatureData
<1>5. QueueOf(queue', run) /\ \A f : \A i \in DOMAIN queue' : queue'[i].file # f
  BY <1>1 DEF QueueOf
<1>6. /\ Disk'
      /\ Fresh(queue', disk', "report.json", run') /\ Fresh(queue', disk', "comment.md", run')
      /\ ~HookNamed("report.json")' => Due(queue', disk', "report.json", report')
      /\ ~HookNamed("comment.md") => Due(queue', disk', "comment.md", ShownComment)
      /\ ApplySidecar' /\ SignatureSidecar'
  BY <1>1, <1>2, <1>5, LightStep
<1>7. ShownComment' = ShownComment
  BY <1>1, <1>2 DEF ShownComment
<1>8. TypeOK' /\ Pace'
  BY <1>1, <1>2 DEF TypeOK, Pace
<1>9. Verdict'
  BY <1>1, <1>2, <1>3, <1>6, <1>7 DEF Verdict
<1> QED
  BY <1>4, <1>6, <1>8, <1>9 DEF Inv, Evidence

(***************************************************************************)
(* The theorems.                                                           *)
(***************************************************************************)
LEMMA InitInv ==
  ASSUME Init
  PROVE  Inv
<1>1. /\ disk = [f \in Files |-> None] /\ run = 0 /\ opts \in Invocations /\ pc = "idle"
      /\ config = 0 /\ pre_cfg = 0 /\ report = None /\ fixes = "none" /\ comment = None
      /\ hook = 0 /\ sections = FALSE /\ queue = << >> /\ exit = None /\ applied = {}
      /\ stuck = {} /\ crashes = 0
  BY DEF Init
<1>2. Len(opts.hooks) \in Nat
  BY <1>1, PublishAssumption
<1>3. TypeOK
  <2>1. \A f \in Files : disk[f] \in {None, Torn} \cup Content(f)
    BY <1>1
  <2>2. run \in 0 .. MaxRuns /\ crashes \in 0 .. MaxCrashes
    BY <1>1, PublishAssumption
  <2>3. hook \in 0 .. Len(opts.hooks) /\ applied \subseteq 1 .. run /\ DOMAIN queue = {}
    BY <1>1, <1>2
  <2> QED
    BY <1>1, <2>1, <2>2, <2>3 DEF TypeOK
<1>4. Pace
  BY <1>1 DEF Pace
<1>5. Disk
  <2>1. QueueOf(queue, run) /\ ReportFirst(queue, disk, run)
    BY <1>1 DEF QueueOf, ReportFirst
  <2>2. DiskOf(disk, run) /\ CommentBehind(disk)
    BY <1>1 DEF DiskOf, CommentBehind, Files
  <2> QED
    BY <2>1, <2>2 DEF Disk
<1>6. ~Live
  BY <1>1, TypesAssumption DEF Live, Late, Ended
<1> QED
  BY <1>3, <1>4, <1>5, <1>6 DEF Inv

(* A write that fails, and a kill, end the run.                            *)
LEMMA FailStep ==
  ASSUME Inv, WriteError \/ Crash
  PROVE  Inv'
<1>1. /\ TypeOK /\ pc' = "idle" /\ queue' = << >> /\ exit' \in {None, 1}
      /\ crashes' \in 0 .. MaxCrashes
      /\ UNCHANGED <<disk, run, opts, config, pre_cfg, memory, applied, stuck>>
  BY PublishAssumption DEF Inv, Pace, TypeOK, WriteError, Crash, Quit
<1>2. UNCHANGED <<report, fixes, comment, hook, sections>>
  BY <1>1 DEF memory
<1> QED
  BY <1>1, <1>2, QuitStep DEF TypeOK

LEMMA StutterStep ==
  ASSUME Inv, UNCHANGED vars
  PROVE  Inv'
<1>1. /\ Key' = Key /\ ApplyStatus' = ApplyStatus /\ (Spawned' <=> Spawned)
      /\ \A f : HookNamed(f)' <=> HookNamed(f)
  BY SameOptions DEF vars
<1>2. TypeOK' <=> TypeOK
  BY DEF vars, TypeOK
<1>3. Pace' /\ Disk'
  BY DEF vars, Inv, Pace, Disk
<1>4. (Live' <=> Live) /\ ShownComment' = ShownComment
  BY DEF vars, Live, Ended, ShownComment
<1>5. Verdict => Verdict'
  BY <1>1, <1>4 DEF vars, Verdict, Ended
<1>6. Evidence => Evidence'
  BY <1>1
     DEF vars, Evidence, ApplySidecar, SignatureSidecar, BuildfixData, SignatureData, sign_policy_snapshot
<1> QED
  BY <1>2, <1>3, <1>4, <1>5, <1>6 DEF Inv

LEMMA InvAlways == Spec => []Inv
<1>1. Init => Inv
  BY InitInv
<1>2. ASSUME Inv, [Next]_vars
      PROVE  Inv'
  <2>1. CASE Start
    BY <1>2, <2>1, StartStep
  <2>2. CASE CheckOptions \/ Execute \/ WriteSarif \/ ReadBaseline
    BY <1>2, <2>2, CheckStep, ExecuteStep, SarifStep, BaselineStep
  <2>3. CASE RunActuator \/ RecordApply \/ BuildfixDisabled \/ BuildfixNotEvaluated
    BY <1>2, <2>3, ActuatorStep, RecordStep, BuildfixDisabledStep, NotEvaluatedStep
  <2>4. CASE Sign \/ SigningDisabled \/ SigningNotRequested
    BY <1>2, <2>4, SignStep, SigningDisabledStep, NotEvaluatedStep
  <2>5. CASE RunHook \/ AppendSections \/ Exit
    BY <1>2, <2>5, HookStep, AppendStep, ExitStep
  <2>6. CASE OpenTruncate \/ FillFile \/ RemoveFile \/ WriteError \/ Crash
    BY <1>2, <2>6, FileStep, FailStep
  <2>7. CASE EditConfig
    BY <1>2, <2>7, EditStep
  <2>8. CASE UNCHANGED vars
    BY <1>2, <2>8, StutterStep
  <2> QED
    BY <1>2, <2>1, <2>2, <2>3, <2>4, <2>5, <2>6, <2>7, <2>8 DEF Next, Program
<1> QED
  BY <1>1, <1>2, PTL DEF Spec

(***************************************************************************)
(* What earlier runs left.                                                 *)
(***************************************************************************)

(* File f is not there, or will be removed, or could not be.               *)
Gone(f) == disk[f] = None \/ f \in stuck \/ \E i \in DOMAIN queue : queue[i].file = f

BuildfixSwept ==
  BuildfixEvaluated /\ "_buildfix_apply" \notin report.data /\ ~HookNamed("buildfix.apply.json") =>
    Gone("buildfix.apply.json")

SigningSwept ==
  Signing.enabled /\ "_policy_signature" \notin report.data /\ ~HookNamed("policy.signature.json") =>
    Gone("policy.signature.json")

(* Once a feature's phase is over, so is its sidecar, unless the report     *)
(* tells of it.                                                            *)
Swept ==
  Live => /\ pc \in {"signing", "hooks", "exit", "idle"} => BuildfixSwept
          /\ pc \in {"hooks", "exit", "idle"} => SigningSwept

(* A write or a removal brings nothing back.                               *)
LEMMA StaysGone ==
  ASSUME Inv, OpenTruncate \/ FillFile \/ RemoveFile, NEW f \in Files,
         Foreign(queue, disk, f, run), Gone(f)
  PROVE  Gone(f)'
<1>1. queue \in Seq(Write) /\ DiskOf(disk, run) /\ queue # << >>
  BY DEF Inv, Disk, QueueOf, OpenTruncate, FillFile, RemoveFile
<1>2. /\ Head(queue) = queue[1] /\ 1 \in DOMAIN queue
      /\ \A i \in DOMAIN queue : i # 1 => i - 1 \in DOMAIN Tail(queue) /\ Tail(queue)[i - 1] = queue[i]
  BY <1>1, TailFacts
<1>3. \A i \in DOMAIN queue : queue[i].file = f => queue[i].content = None
  BY DEF Foreign
<1>4. CASE OpenTruncate
  <2>1. Head(queue).file # f /\ queue' = queue /\ stuck' = stuck
    BY <1>2, <1>3, <1>4 DEF OpenTruncate
  <2>2. disk'[f] = disk[f]
    BY <1>1, <1>4, <2>1 DEF OpenTruncate, DiskOf
  <2> QED
    BY <2>1, <2>2 DEF Gone
<1>5. CASE FillFile
  <2>1. Head(queue).file # f /\ queue' = Tail(queue) /\ stuck' = stuck
    BY <1>2, <1>3, <1>5 DEF FillFile
  <2>2. disk'[f] = disk[f]
    BY <1>1, <1>5, <2>1 DEF FillFile, DiskOf
  <2>3. (\E i \in DOMAIN queue : queue[i].file = f) => \E i \in DOMAIN Tail(queue) : Tail(queue)[i].file = f
    BY <1>2, <2>1
  <2> QED
    BY <2>1, <2>2, <2>3 DEF Gone
<1>6. CASE RemoveFile
  <2>1. queue' = Tail(queue) /\ stuck \subseteq stuck'
    BY <1>6 DEF RemoveFile
  <2>2. CASE Head(queue).file = f
    <3>1. disk'[f] = None \/ f \in stuck'
      BY <1>1, <1>6, <2>2 DEF RemoveFile, DiskOf
    <3> QED
      BY <3>1 DEF Gone
  <2>3. CASE Head(queue).file # f
    <3>1. disk'[f] = disk[f]
      BY <1>1, <1>6, <2>3 DEF RemoveFile, DiskOf
    <3>2. (\E i \in DOMAIN queue : queue[i].file = f) => \E i \in DOMAIN Tail(queue) : Tail(queue)[i].file = f
      BY <1>2, <2>3
    <3> QED
      BY <2>1, <3>1, <3>2 DEF Gone
  <2> QED
    BY <2>2, <2>3
<1> QED
  BY <1>4, <1>5, <1>6

(* The phases remove what they must.                                       *)
LEMMA StepSwept ==
  ASSUME Inv, Swept, [Next]_vars
  PROVE  Swept'
<1>1. ASSUME pc' \notin {"signing", "hooks", "exit"}, ~Ended'
      PROVE  Swept'
  BY <1>1 DEF Swept, Live, Late
<1>2. ASSUME Quit(1)
      PROVE  Swept'
  BY <1>1, <1>2, TypesAssumption DEF Quit, Ended
<1>3. ASSUME opts' = opts
      PROVE  /\ Signing' = Signing /\ \A f : HookNamed(f)' <=> HookNamed(f)
             /\ fixes' = fixes => (BuildfixEvaluated' <=> BuildfixEvaluated)
  BY <1>3, SameOptions DEF BuildfixEvaluated
<1>4. ASSUME queue = << >>, UNCHANGED <<disk, stuck>>
      PROVE  \A f : Gone(f) => Gone(f)'
  BY <1>4 DEF Gone
<1>5. ASSUME queue = << >>, UNCHANGED <<disk, stuck, opts, fixes>>, Live,
             "_buildfix_apply" \in report.data => "_buildfix_apply" \in report'.data,
             pc \in {"signing", "hooks", "exit", "idle"}
      PROVE  BuildfixSwept'
  BY <1>3, <1>4, <1>5 DEF Swept, BuildfixSwept
<1>6. ASSUME queue = << >>, UNCHANGED <<disk, stuck, opts, report>>, Live,
             pc \in {"hooks", "exit", "idle"}
      PROVE  SigningSwept'
  BY <1>3, <1>4, <1>6 DEF Swept, SigningSwept
<1>7. CASE Start \/ Execute \/ WriteSarif \/ RunActuator
  BY <1>1, <1>2, <1>7 DEF Start, Execute, WriteSarif, RunActuator, Ended
<1>8. CASE CheckOptions \/ ReadBaseline \/ WriteError
  BY <1>1, <1>2, <1>8 DEF CheckOptions, ReadBaseline, WriteError, Ended
<1>9. CASE Crash
  <2>1. pc' = "idle" /\ exit' = None
    BY <1>9 DEF Crash, Inv, Pace
  <2> QED
    BY <1>1, <2>1, TypesAssumption DEF Ended
<1>10. CASE RecordApply
  <2>1. /\ pc = "record_apply" /\ pc' = "signing"
        /\ report' = [report EXCEPT !.data = @ \cup {"_buildfix_apply"}]
    BY <1>10 DEF RecordApply, Rewrite
  <2>2. report \in ReportContent
    BY <2>1 DEF Inv, Live, Late, Verdict
  <2>3. "_buildfix_apply" \in report'.data
    BY <2>1, <2>2 DEF ReportContent
  <2> QED
    BY <2>1, <2>3 DEF Swept, BuildfixSwept
<1>11. CASE BuildfixDisabled
  <2>1. /\ pc' = "signing"
        /\ queue' = << >> \o Both(report', comment') \o <<Remove("buildfix.apply.json")>>
    BY <1>11 DEF BuildfixDisabled, Rewrite
  <2>2. 3 \in DOMAIN queue' /\ queue'[3].file = "buildfix.apply.json"
    BY <2>1 DEF Both, Remove
  <2> QED
    BY <2>1, <2>2 DEF Swept, BuildfixSwept, Gone
<1>12. CASE BuildfixNotEvaluated
  <2>1. /\ pc' = "signing" /\ ~BuildfixEvaluated /\ UNCHANGED <<opts, fixes>>
    BY <1>12 DEF BuildfixNotEvaluated, memory
  <2> QED
    BY <1>3, <2>1 DEF Swept, BuildfixSwept
<1>13. CASE Sign
  <2>1. /\ pc = "signing" /\ queue = << >> /\ UNCHANGED <<disk, stuck, opts, fixes>>
    BY <1>13 DEF Sign
  <2>2. Live /\ report \in ReportContent
    BY <2>1 DEF Inv, Live, Late, Verdict
  <2>3. CASE Key = None
    BY <1>2, <1>13, <2>3 DEF Sign
  <2>4. CASE Key # None
    <3>1. pc' = "hooks" /\ report' = [report EXCEPT !.data = @ \cup {"_policy_signature"}]
      BY <1>13, <2>4 DEF Sign, Rewrite
    <3>2. report'.data = report.data \cup {"_policy_signature"}
      BY <2>2, <3>1 DEF ReportContent
    <3> QED
      BY <1>5, <2>1, <2>2, <3>1, <3>2 DEF Swept, SigningSwept
  <2> QED
    BY <2>3, <2>4
<1>14. CASE SigningDisabled
  <2>1. /\ pc = "signing" /\ queue = << >> /\ UNCHANGED <<disk, stuck, opts, fixes>> /\ pc' = "hooks"
        /\ report' = [report EXCEPT !.data = @ \ {"_policy_signature"}]
        /\ queue' = << >> \o Both(report', comment') \o <<Remove("policy.signature.json")>>
    BY <1>14 DEF SigningDisabled, Rewrite
  <2>2. Live /\ report \in ReportContent
    BY <2>1 DEF Inv, Live, Late, Verdict
  <2>3. report'.data = report.data \ {"_policy_signature"}
    BY <2>1, <2>2 DEF ReportContent
  <2>4. 3 \in DOMAIN queue' /\ queue'[3].file = "policy.signature.json"
    BY <2>1 DEF Both, Remove
  <2>5. BuildfixSwept'
    BY <1>5, <2>1, <2>2, <2>3
  <2> QED
    BY <2>1, <2>4, <2>5 DEF Swept, SigningSwept, Gone
<1>15. CASE SigningNotRequested
  <2>1. /\ pc = "signing" /\ queue = << >> /\ UNCHANGED <<disk, stuck, opts, fixes, report>> /\ pc' = "hooks"
        /\ ~Signing.enabled
    BY <1>15 DEF SigningNotRequested, memory
  <2>2. BuildfixSwept'
    BY <1>5, <2>1 DEF Live, Late
  <2> QED
    BY <1>3, <2>1, <2>2 DEF Swept, SigningSwept
<1>16. CASE RunHook \/ AppendSections \/ Exit
  <2>1. /\ pc \in {"hooks", "exit"} /\ queue = << >> /\ UNCHANGED <<disk, stuck, opts, fixes, report>>
    BY <1>16 DEF RunHook, AppendSections, Exit, memory
  <2>2. BuildfixSwept' /\ SigningSwept'
    BY <1>5, <1>6, <2>1 DEF Live, Late
  <2> QED
    BY <2>2 DEF Swept
<1>17. CASE OpenTruncate \/ FillFile \/ RemoveFile
  <2>1. UNCHANGED <<opts, pc, exit, report, fixes, run>>
    BY <1>17 DEF OpenTruncate, FillFile, RemoveFile, memory
  <2>2. CASE ~Live'
    BY <2>2 DEF Swept
  <2>3. CASE Live'
    <3>1. Live
      BY <2>1, <2>3 DEF Live, Ended
    <3>2. /\ "_buildfix_apply" \notin report.data /\ ~HookNamed("buildfix.apply.json") =>
               Foreign(queue, disk, "buildfix.apply.json", run)
          /\ "_policy_signature" \notin report.data /\ ~HookNamed("policy.signature.json") =>
               Foreign(queue, disk, "policy.signature.json", run)
      BY <3>1 DEF Inv, Evidence, ApplySidecar, SignatureSidecar
    <3>3. \A f \in Files : Foreign(queue, disk, f, run) /\ Gone(f) => Gone(f)'
      BY <1>17, StaysGone
    <3>4. BuildfixSwept => BuildfixSwept'
      BY <1>3, <2>1, <3>2, <3>3 DEF BuildfixSwept, Files
    <3>5. SigningSwept => SigningSwept'
      BY <1>3, <2>1, <3>2, <3>3 DEF SigningSwept, Files
    <3> QED
      BY <2>1, <3>1, <3>4, <3>5 DEF Swept
  <2> QED
    BY <2>2, <2>3
<1>18. CASE EditConfig \/ UNCHANGED vars
  <2>1. UNCHANGED <<opts, pc, exit, report, fixes, run, disk, queue, stuck>>
    BY <1>18 DEF EditConfig, memory, vars
  <2>2. (BuildfixSwept' <=> BuildfixSwept) /\ (SigningSwept' <=> SigningSwept)
    BY <1>3, <2>1 DEF BuildfixSwept, SigningSwept, Gone
  <2> QED
    BY <2>1, <2>2 DEF Swept, Live, Ended
<1> QED
  BY <1>7, <1>8, <1>9, <1>10, <1>11, <1>12, <1>13, <1>14, <1>15, <1>16, <1>17, <1>18 DEF Next, Program

LEMMA SweptAlways == Spec => [](Inv /\ Swept)
<1>1. Init => Swept
  <2>1. Init => ~Live
    BY TypesAssumption DEF Init, Live, Late, Ended
  <2> QED
    BY <2>1 DEF Swept
<1>2. Inv /\ Swept /\ [Next]_vars => Swept'
  BY StepSwept
<1> QED
  BY <1>1, <1>2, InvAlways, PTL DEF Spec

(* What a run that has ended left of a sidecar its report does not mention. *)
LEMMA WhatIsLeft ==
  ASSUME Inv, Swept, Ended
  PROVE  /\ "_buildfix_apply" \notin report.data /\ ~HookNamed("buildfix.apply.json") =>
              LeftOver("buildfix.apply.json", BuildfixEvaluated)
         /\ "_policy_signature" \notin report.data /\ ~HookNamed("policy.signature.json") =>
              LeftOver("policy.signature.json", Signing.enabled)
<1>1. Live /\ queue = << >> /\ pc = "idle"
  BY DEF Live, Inv, Pace, Ended
<1>2. BuildfixSwept /\ SigningSwept
  BY <1>1 DEF Swept
<1>3. \A f : Gone(f) => disk[f] = None \/ f \in stuck
  BY <1>1 DEF Gone
<1> QED
  BY <1>1, <1>2, <1>3, AtRest DEF LeftOver, Whole, BuildfixSwept, SigningSwept

(* Every variable and every file keeps its type, whatever the hooks name   *)
(* and wherever a run is killed: no file holds another file's content.     *)
THEOREM TypeCorrect == Spec => []TypeOK
<1>1. Inv => TypeOK
  BY DEF Inv
<1> QED
  BY <1>1, InvAlways, PTL

(* At no moment does a complete comment.md come from a later run than a    *)
(* complete report.json beside it (unless a hook names a file).  Run       *)
(* numbers are compared: a torn file, and the rewrites within one run, are *)
(* not spoken of.                                                          *)
THEOREM CommentIsBehind == Spec => []CommentNeverAhead
<1>1. Inv => CommentNeverAhead
  BY DEF Inv, Disk, CommentBehind, CommentNeverAhead, Whole
<1> QED
  BY <1>1, InvAlways, PTL

(* Exit codes 0 and 2 stand for the complete report and comment of the run *)
(* and agree with the report, over whatever earlier runs left.             *)
THEOREM ExitCodesAreTrue == Spec => []ExitMatchesFiles
<1>1. ASSUME Inv, Ended
      PROVE  /\ ~HookNamed("report.json") =>
                  disk["report.json"] = report /\ (exit = 2 <=> disk["report.json"].verdict = "fail")
             /\ ~HookNamed("comment.md") =>
                  /\ Whole("comment.md")
                  /\ disk["comment.md"].run = run /\ disk["comment.md"].data = report.data
                  /\ disk["comment.md"].hooks = sections
  <2>1. Live /\ Verdict /\ queue = << >> /\ pc = "idle" /\ sections \in BOOLEAN
    BY <1>1 DEF Live, Inv, Pace, Ended, TypeOK
  <2>2. /\ ~HookNamed("report.json") => disk["report.json"] = report
        /\ ~HookNamed("comment.md") => disk["comment.md"] = ShownComment
        /\ disk["comment.md"] \notin {None, Torn}
    BY <1>1, <2>1, AtRest
  <2>3. ShownComment.run = run /\ ShownComment.data = report.data /\ ShownComment.hooks = sections
    BY <2>1 DEF ShownComment, Verdict, CommentContent
  <2>4. exit = 2 <=> report.verdict = "fail"
    BY <1>1, <2>1 DEF Verdict
  <2> QED
    BY <2>2, <2>3, <2>4 DEF Whole
<1>2. Inv => ExitMatchesFiles
  BY <1>1 DEF ExitMatchesFiles
<1> QED
  BY <1>2, InvAlways, PTL

(* A run that ends normally has the sidecars its report tells of, of this   *)
(* run and its policy; another one is an earlier run's, and stands only    *)
(* where this run had nothing to remove or the removal failed.             *)
THEOREM EvidenceIsOnDisk == Spec => []EvidenceMatchesReport
<1>1. ASSUME Inv, Swept, Ended, ~HookNamed("buildfix.apply.json")
      PROVE  IF "_buildfix_apply" \in report.data
             THEN /\ Whole("buildfix.apply.json") /\ disk["buildfix.apply.json"].run = run
                  /\ run \in applied => disk["buildfix.apply.json"].status # "skipped"
             ELSE run \notin applied /\ LeftOver("buildfix.apply.json", BuildfixEvaluated)
  <2>1. Live /\ Evidence /\ queue = << >> /\ pc = "idle" /\ run \in Nat
    BY <1>1 DEF Live, Inv, Pace, Ended, TypeOK
  <2>2. run \in applied => "_buildfix_apply" \in report.data /\ ApplyStatus # "skipped"
    BY <2>1 DEF Evidence, BuildfixData, Spawned, ApplyStatus
  <2>3. CASE "_buildfix_apply" \in report.data
    <3>1. [run |-> run, status |-> ApplyStatus] \notin {None, Torn}
      BY <1>1, <2>1, DueContents, ContentFacts DEF Files
    <3>2. disk["buildfix.apply.json"] = [run |-> run, status |-> ApplyStatus]
      BY <1>1, <2>1, <2>3, AtRest
    <3> QED
      BY <2>2, <2>3, <3>1, <3>2 DEF Whole
  <2>4. CASE "_buildfix_apply" \notin report.data
    BY <1>1, <2>2, <2>4, WhatIsLeft
  <2> QED
    BY <2>3, <2>4
<1>2. ASSUME Inv, Swept, Ended, ~HookNamed("policy.signature.json")
      PROVE  IF "_policy_signature" \in report.data
             THEN disk["policy.signature.json"] = [run |-> run, config |-> report.config, key |-> Key]
             ELSE LeftOver("policy.signature.json", Signing.enabled)
  <2>1. Live /\ queue = << >>
    BY <1>2 DEF Live, Inv, Pace, Ended
  <2> QED
    BY <1>2, <2>1, AtRest, WhatIsLeft DEF sign_policy_snapshot
<1>3. Inv /\ Swept => EvidenceMatchesReport
  BY <1>1, <1>2 DEF EvidenceMatchesReport
<1> QED
  BY <1>3, SweptAlways, PTL

(* A signature of this run was made with the key the user named last.      *)
THEOREM KeyIsTheNamedOne == Spec => []SignedWithTheNamedKey
<1>1. ASSUME Inv, Ended, Whole("policy.signature.json"), ~HookNamed("policy.signature.json"),
             disk["policy.signature.json"].run = run
      PROVE  disk["policy.signature.json"].key =
               IF opts.cli.key_path # None THEN opts.files[opts.cli.key_path]
               ELSE IF opts.cli.key_env # None THEN opts.environment[opts.cli.key_env]
               ELSE IF opts.signing.key_path # None THEN opts.files[opts.signing.key_path]
               ELSE opts.environment[opts.signing.key_env]
  <2>1. Live /\ Evidence /\ queue = << >> /\ run \in Nat /\ opts \in Invocations
    BY <1>1 DEF Live, Inv, Pace, Ended, TypeOK
  <2>2. /\ "_policy_signature" \in report.data
        /\ disk["policy.signature.json"] = sign_policy_snapshot(report.config, Key)
    BY <1>1, <2>1, AtRest DEF Whole
  <2>3. Key # None
    BY <2>1, <2>2 DEF Evidence, SignatureData
  <2> QED
    BY <2>1, <2>2, <2>3, KeyNamed DEF sign_policy_snapshot
<1>2. Inv => SignedWithTheNamedKey
  BY <1>1 DEF SignedWithTheNamedKey
<1> QED
  BY <1>2, InvAlways, PTL

(* A disabled feature leaves no key and no section, and no sidecar of any   *)
(* run, where it would have been evaluated and the removal succeeds.       *)
THEOREM DisabledMeansAbsent == Spec => []DisabledFeaturesLeaveNothing
<1>1. ASSUME Inv, Swept, Ended, NEW feature, NEW key, NEW file, NEW evaluated,
             \/ feature = "buildfix" /\ key = "_buildfix" /\ file = "buildfix.apply.json"
                  /\ evaluated = BuildfixEvaluated
             \/ feature = "policy-signing" /\ key = "_policy_signature" /\ file = "policy.signature.json"
                  /\ evaluated = Signing.enabled,
             ~FeatureEnabled(opts.cli, feature)
      PROVE  /\ key \notin report.data
             /\ ~HookNamed("report.json") => key \notin disk["report.json"].data
             /\ ~HookNamed("comment.md") => key \notin disk["comment.md"].data
             /\ ~HookNamed(file) => LeftOver(file, evaluated)
  <2>1. Live /\ Verdict /\ Evidence /\ queue = << >> /\ run \in Nat /\ pc = "idle"
    BY <1>1 DEF Live, Inv, Pace, Ended, TypeOK
  <2>2. key \notin report.data
    BY <1>1, <2>1 DEF Evidence, BuildfixData, SignatureData
  <2>3. ~HookNamed("report.json") => disk["report.json"] = report
    BY <1>1, <2>1, AtRest
  <2>4. ~HookNamed("comment.md") => disk["comment.md"].data = report.data
    <3>1. ShownComment.data = report.data
      BY <2>1 DEF ShownComment, Verdict, CommentContent
    <3> QED
      BY <1>1, <2>1, <3>1, AtRest
  <2>5. ~HookNamed(file) => LeftOver(file, evaluated)
    <3>1. CASE feature = "buildfix"
      <4>1. "_buildfix_apply" \notin report.data
        BY <1>1, <2>1, <3>1 DEF Evidence, BuildfixData
      <4> QED
        BY <1>1, <3>1, <4>1, WhatIsLeft
    <3>2. CASE feature = "policy-signing"
      BY <1>1, <2>2, <3>2, WhatIsLeft
    <3> QED
      BY <1>1, <3>1, <3>2
  <2> QED
    BY <2>2, <2>3, <2>4, <2>5
<1>2. Inv /\ Swept => DisabledFeaturesLeaveNothing
  BY <1>1 DEF DisabledFeaturesLeaveNothing, contract
<1> QED
  BY <1>2, SweptAlways, PTL

(* The actuator changes the tree only when this run's verdict and comment  *)
(* are on disk.                                                            *)
THEOREM VerdictBeforeActuator == Spec => ActuatorAfterVerdict
<1>1. ASSUME Inv, [Next]_vars, applied' # applied
      PROVE  /\ Whole("report.json") /\ disk["report.json"].run = run
             /\ Whole("comment.md") /\ disk["comment.md"].run = run
  <2>1. pc = "buildfix" /\ queue = << >>
    BY <1>1 DEF Next, Program, vars, Start, CheckOptions, Execute, WriteSarif, ReadBaseline, RunActuator,
         RecordApply, BuildfixDisabled, BuildfixNotEvaluated, Sign, SigningDisabled,
         SigningNotRequested, RunHook, AppendSections, Exit, OpenTruncate, FillFile, RemoveFile,
         WriteError, Crash, EditConfig
  <2> QED
    BY <1>1, <2>1, AtRest DEF Live, Late, Whole
<1>2. Inv /\ [Next]_vars =>
        [applied' # applied =>
           /\ Whole("report.json") /\ disk["report.json"].run = run
           /\ Whole("comment.md") /\ disk["comment.md"].run = run]_vars
  BY <1>1
<1> QED
  BY <1>2, InvAlways, PTL DEF Spec, ActuatorAfterVerdict
=============================================================================
