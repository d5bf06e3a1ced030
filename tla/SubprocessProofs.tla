-------------------------- MODULE SubprocessProofs --------------------------
(***************************************************************************)
(* Safety of running a child process, for every script, payload and size   *)
(* of a pipe.                                                              *)
(***************************************************************************)
EXTENDS Subprocess, TLAPS

(* How far the call is, and what is settled by then.  OkIsComplete is not  *)
(* inductive: that nothing is left in a pipe whose reader is done, and     *)
(* that readers are joined only after the payload is written, is what      *)
(* carries it.                                                             *)
Progress ==
  /\ pc \in {"wait", "kill", "join"} => unsent = 0
  /\ pc = "join" => status # None
  /\ pc # "returned" => result = None
  /\ pc = "returned" => result # None
  /\ result \in {"timed_out", "bad_status", "bad_output", "ok"} => status # None
  /\ result \in {"bad_status", "bad_output", "ok"} => \A s \in Streams : reader[s] = "done"
  /\ result = "ok" => status = "exit0" /\ unsent = 0

Drained ==
  /\ \A s \in Streams : reader[s] = "done" => status # None /\ pipe[s] = 0
  /\ reader["stdout"] = "done" => ~kept

RanSoFar == \A i \in 1 .. (at - 1) : script[i] \notin {"exit0", "exit1"}

SafeInv == TypeOK /\ Progress /\ UnitsConserved /\ Drained /\ RanSoFar

(* A step of the caller keeps the invariant.                               *)
LEMMA CallerStep ==
  ASSUME SafeInv, Caller \/ Timeout
  PROVE  SafeInv'
<1> USE SubprocessAssumption
    DEF SafeInv, TypeOK, Progress, UnitsConserved, Drained, RanSoFar, Streams, childvars, Results
<1>1. CASE Spawn
  BY <1>1 DEF Spawn, Return
<1>2. CASE WriteStdin
  <2>1. unsent' \in 0 .. Payload /\ pipe' \in [Streams \cup {"stdin"} -> 0 .. PipeSize]
    BY <1>2 DEF WriteStdin
  <2> QED
    BY <1>2, <2>1 DEF WriteStdin
<1>3. CASE BrokenPipe
  BY <1>3 DEF BrokenPipe, Return
<1>4. CASE StartReaders
  <2>1. reader' \in [Streams -> {"none", "reading", "done"}] /\ \A s \in Streams : reader'[s] # "done"
    BY <1>4 DEF StartReaders
  <2>2. /\ pc = "write" /\ unsent = 0 /\ pc' = "wait" /\ stdin_open' = FALSE
        /\ UNCHANGED <<kind, script, at, status, kept, wrote, unsent, pipe, got, result>>
    BY <1>4 DEF StartReaders
  <2>3. TypeOK' /\ Progress'
    BY <2>1, <2>2
  <2>5. RanSoFar' /\ UnitsConserved'
    BY <2>2
  <2>4. Drained'
    BY <2>1
  <2> HIDE DEF TypeOK, Progress, UnitsConserved, Drained, RanSoFar
  <2> QED
    BY <2>3, <2>4, <2>5
<1>5. CASE WaitExited
  BY <1>5 DEF WaitExited
<1>6. CASE Timeout
  BY <1>6 DEF Timeout
<1>7. CASE Kill
  BY <1>7 DEF Kill, Return
<1>8. CASE Join
  BY <1>8 DEF Join, Joined, Return
<1> QED
  BY <1>1, <1>2, <1>3, <1>4, <1>5, <1>6, <1>7, <1>8 DEF Caller

(* So does a step of a reader thread.                                      *)
LEMMA ReaderStep ==
  ASSUME SafeInv, NEW s \in Streams, Read(s) \/ EndOfFile(s)
  PROVE  SafeInv'
<1> USE SubprocessAssumption
    DEF SafeInv, TypeOK, Progress, UnitsConserved, Drained, RanSoFar, Streams, childvars, Results
<1>1. CASE Read(s)
  <2>1. got' \in [Streams -> Nat] /\ pipe' \in [Streams \cup {"stdin"} -> 0 .. PipeSize]
    BY <1>1 DEF Read
  <2>2. UnitsConserved'
    BY <1>1 DEF Read
  <2> QED
    BY <1>1, <2>1, <2>2 DEF Read
<1>2. CASE EndOfFile(s)
  BY <1>2 DEF EndOfFile, WriteEndHeld
<1> QED
  BY <1>1, <1>2

(* A step behind an operation that does not exit is still before any exit. *)
LEMMA OneFurther ==
  ASSUME at \in Nat \ {0}, RanSoFar, script[at] \notin {"exit0", "exit1"},
         at' = at + 1, script' = script
  PROVE  RanSoFar'
<1>1. at' - 1 = at /\ \A i \in 1 .. at : i \in 1 .. (at - 1) \/ i = at
  OBVIOUS
<1> QED
  BY <1>1 DEF RanSoFar

(* So does a step of the child or of a descendant it left.                 *)
LEMMA ChildStep ==
  ASSUME SafeInv, Child \/ DescendantEnds
  PROVE  SafeInv'
<1> USE SubprocessAssumption
    DEF SafeInv, TypeOK, Progress, UnitsConserved, Drained, RanSoFar, Streams, Doing, Results
<1>1. CASE ChildReads
  <2>1. pipe' \in [Streams \cup {"stdin"} -> 0 .. PipeSize]
    BY <1>1 DEF ChildReads
  <2>2. at' \in 1 .. Len(script) + 1
    BY <1>1 DEF ChildReads
  <2>3. /\ status = None /\ script[at] \in {"in", "drain"} /\ at' \in {at, at + 1}
        /\ \A s \in Streams : pipe'[s] = pipe[s]
        /\ UNCHANGED <<kind, script, status, kept, wrote, pc, unsent, stdin_open, reader, got,
                       result>>
    BY <1>1 DEF ChildReads
  <2>4. TypeOK'
    BY <2>1, <2>2, <2>3
  <2>5. Progress' /\ UnitsConserved' /\ Drained'
    BY <2>3
  <2>6. RanSoFar'
    <3>1. CASE at' = at
      BY <2>3, <3>1
    <3>2. CASE at' = at + 1
      BY <2>3, <3>2, OneFurther
    <3> QED
      BY <2>3, <3>1, <3>2
  <2> HIDE DEF TypeOK, Progress, UnitsConserved, Drained, RanSoFar
  <2> QED
    BY <2>4, <2>5, <2>6
<1>2. CASE ChildSeesEnd
  <2>1. at' \in 1 .. Len(script) + 1
    BY <1>2 DEF ChildSeesEnd
  <2> QED
    BY <1>2, <2>1 DEF ChildSeesEnd
<1>3. ASSUME NEW s \in Streams, ChildWrites(s)
      PROVE  SafeInv'
  <2>1. CASE result = "write_error"
    BY <1>3, <2>1 DEF ChildWrites
  <2>2. CASE result # "write_error"
    <3>1. /\ status = None /\ at <= Len(script) /\ pipe[s] < PipeSize /\ script[at] = s
          /\ pipe' = [pipe EXCEPT ![s] = @ + 1] /\ wrote' = [wrote EXCEPT ![s] = @ + 1]
          /\ at' = at + 1
          /\ UNCHANGED <<status, kind, script, kept, pc, unsent, stdin_open, reader, got, result>>
      BY <1>3, <2>2 DEF ChildWrites
    <3>2. pipe[s] + 1 \in 0 .. PipeSize /\ wrote[s] + 1 \in Nat
      <4> DEFINE q == pipe[s]
      <4>1. q \in 0 .. PipeSize /\ q < PipeSize /\ wrote[s] \in Nat
        BY <3>1
      <4> HIDE DEF q
      <4>2. q + 1 \in 0 .. PipeSize
        BY <4>1
      <4> QED
        BY <4>1, <4>2 DEF q
    <3>3. pipe' \in [Streams \cup {"stdin"} -> 0 .. PipeSize] /\ wrote' \in [Streams -> Nat]
      BY <3>1, <3>2
    <3>4. at' \in 1 .. Len(script') + 1
      BY <3>1
    <3>5. TypeOK'
      BY <3>1, <3>3, <3>4
    <3>6. UnitsConserved'
      <4>1. ASSUME NEW t \in Streams
            PROVE  got'[t] + pipe'[t] = wrote'[t]
        <5>1. CASE t = s
          BY <3>1, <5>1
        <5>2. CASE t # s
          BY <3>1, <5>2
        <5> QED
          BY <5>1, <5>2
      <4> QED
        BY <4>1
    <3>7. Drained' /\ Progress'
      BY <3>1
    <3>8. RanSoFar'
      <4>1. at \in Nat \ {0} /\ script[at] \notin {"exit0", "exit1"} /\ RanSoFar
        BY <3>1
      <4> HIDE DEF RanSoFar
      <4> QED
        BY <3>1, <4>1, OneFurther
    <3> HIDE DEF TypeOK, Progress, UnitsConserved, Drained, RanSoFar
    <3> QED
      BY <3>5, <3>6, <3>7, <3>8
  <2> QED
    BY <2>1, <2>2
<1>7. CASE ChildCloses
  <2>1. /\ at' \in 1 .. Len(script) + 1 /\ at' = at + 1 /\ script[at] = "close"
        /\ at \in Nat
    BY <1>7 DEF ChildCloses
  <2> QED
    BY <1>7, <2>1 DEF ChildCloses
<1>4. CASE ChildForks
  <2>1. at' \in 1 .. Len(script) + 1
    BY <1>4 DEF ChildForks
  <2> QED
    BY <1>4, <2>1 DEF ChildForks
<1>5. CASE DescendantEnds
  BY <1>5 DEF DescendantEnds
<1>6. CASE ChildExits
  BY <1>6 DEF ChildExits
<1> QED
  BY <1>1, <1>2, <1>3, <1>4, <1>5, <1>6, <1>7 DEF Child

(* The invariant always holds.                                             *)
LEMMA SafeAlways == Spec => []SafeInv
<1>1. Init => SafeInv
  <2> SUFFICES ASSUME Init PROVE SafeInv
    OBVIOUS
  <2>1. Len(script) \in Nat
    BY SubprocessAssumption DEF Init
  <2>2. /\ pipe \in [Streams \cup {"stdin"} -> 0 .. PipeSize]
        /\ reader \in [Streams -> {"none", "reading", "done"}]
        /\ got \in [Streams -> Nat] /\ wrote \in [Streams -> Nat]
        /\ \A s \in Streams : pipe[s] = 0 /\ got[s] = 0 /\ wrote[s] = 0 /\ reader[s] = "none"
    BY SubprocessAssumption DEF Init
  <2>3. at \in 1 .. Len(script) + 1 /\ 1 .. (at - 1) = {}
    BY <2>1 DEF Init
  <2>4. TypeOK
    <3>1. Payload \in 0 .. Payload
      BY SubprocessAssumption
    <3> QED
      BY <2>2, <2>3, <3>1 DEF Init, TypeOK
  <2>5. Progress
    BY SubprocessAssumption DEF Init, Progress, Results
  <2>6. UnitsConserved /\ Drained /\ RanSoFar
    BY <2>2, <2>3 DEF UnitsConserved, Drained, RanSoFar, Streams
  <2> QED
    BY <2>4, <2>5, <2>6 DEF SafeInv
<1>2. SafeInv /\ UNCHANGED vars => SafeInv'
  BY DEF vars, SafeInv, TypeOK, Progress, UnitsConserved, Drained, RanSoFar
<1>3. SafeInv /\ [Next]_vars => SafeInv'
  BY <1>2, CallerStep, ReaderStep, ChildStep DEF Next
<1> QED
  BY <1>1, <1>3, PTL DEF Spec

(* A pipe never holds more than its size and every variable keeps its type. *)
THEOREM TypeCorrect == Spec => []TypeOK
<1>1. SafeInv => TypeOK
  BY DEF SafeInv
<1> QED
  BY <1>1, SafeAlways, PTL

(* A hook or actuator whose result is used ended by itself with success    *)
(* after the whole payload was written, and no unit of its output is       *)
(* missing, however its writes and the readers interleave.                 *)
THEOREM CompleteWhenOk == Spec => []OkIsComplete
<1>1. SafeInv => OkIsComplete
  <2> SUFFICES ASSUME SafeInv, result = "ok"
               PROVE  /\ status = "exit0" /\ unsent = 0 /\ RanSoFar
                      /\ got = wrote
    BY DEF OkIsComplete, RanSoFar
  <2>1. \A s \in Streams : got[s] = wrote[s]
    BY DEF SafeInv, TypeOK, Progress, UnitsConserved, Drained
  <2>2. got = wrote
    BY <2>1 DEF SafeInv, TypeOK
  <2> QED
    BY <2>2 DEF SafeInv, Progress
<1> QED
  BY <1>1, SafeAlways, PTL

(* The call returns only when its child has ended, unless it could not     *)
(* start it or failed to write to it, and only after a time out can a      *)
(* descendant still hold the child's stdout.                               *)
THEOREM ChildEndsFirst == Spec => []NoChildLeftBehind
<1>1. SafeInv => NoChildLeftBehind
  BY DEF SafeInv, TypeOK, Progress, Drained, NoChildLeftBehind, Results, Streams
<1> QED
  BY <1>1, SafeAlways, PTL
=============================================================================
