----------------------------- MODULE Subprocess -----------------------------
(***************************************************************************)
(* Running a hook (run_single_hook, crates/cockpitctl-io-hooks) or the     *)
(* buildfix actuator (run_buildfix_actuator, crates/cockpitctl-io-buildfix) *)
(* as a child process over three pipes.                                    *)
(*                                                                         *)
(* The caller spawns the child, writes the whole payload to its stdin,     *)
(* drops stdin, starts one reader thread each for stdout and stderr, waits *)
(* for the exit with a timeout, and joins the readers.  A pipe holds a     *)
(* bounded number of units; writing to a full one blocks, as does reading  *)
(* from an empty one whose write end somebody still holds.                 *)
(***************************************************************************)
EXTENDS Naturals, Sequences, FiniteSets

CONSTANTS
  Scripts,     \* what the command may do, in order (see Op)
  Payload,     \* units written to the child's stdin
  PipeSize,    \* units a pipe holds
  None

Streams == {"stdout", "stderr"}

(* in: read one unit, or end of file; drain: read to end of file; close:   *)
(* close stdin; stdout, stderr: write one unit there; fork: leave a        *)
(* descendant that keeps stdout open; hang: never go on; exit0, exit1: exit. *)
Op == {"in", "drain", "close", "stdout", "stderr", "fork", "hang", "exit0", "exit1"}

(* What the call may return. *)
Results == {"no_spawn", "write_error", "timed_out", "bad_status", "bad_output", "ok"}

ASSUME SubprocessAssumption ==
  /\ Scripts \subseteq Seq(Op) \ {<< >>}
  /\ \A s \in Scripts : s[Len(s)] \in {"hang", "exit0", "exit1"}
  /\ Payload \in Nat \ {0} /\ PipeSize \in Nat \ {0}
  /\ None \notin {"exit0", "exit1", "killed", "sigpipe"} \cup Results

VARIABLES
  kind,      \* what is run: a hook's output must parse, the actuator may be silent
  script,    \* the command's script
  at,        \* index of the child's next operation
  status,    \* how the child ended, None while it runs
  pc,        \* the caller's next call
  unsent,    \* payload units not yet written
  pipe,      \* units in each pipe
  stdin_open,\* the caller still holds the write end of stdin
  kept,      \* a descendant holds the write end of stdout
  reader,    \* each reader thread: "none", "reading", "done"
  got,       \* units each reader collected
  wrote,     \* HISTORY: units the child wrote to each stream
  result     \* what the call returns, None before

vars == <<kind, script, at, status, pc, unsent, pipe, stdin_open, kept, reader, got, wrote, result>>
childvars == <<kind, script, at, status, kept, wrote>>

Init ==
  /\ kind \in {"hook", "actuator"}
  /\ script \in Scripts
  /\ at = 1 /\ status = None /\ pc = "spawn" /\ unsent = Payload
  /\ pipe = [p \in Streams \cup {"stdin"} |-> 0]
  /\ stdin_open = TRUE /\ kept = FALSE
  /\ reader = [s \in Streams |-> "none"] /\ got = [s \in Streams |-> 0]
  /\ wrote = [s \in Streams |-> 0]
  /\ result = None

Spawned == pc # "spawn" /\ result # "no_spawn"

(* The child closed its stdin, itself or by ending. *)
ClosedItself == \E i \in 1 .. (at - 1) : script[i] = "close"
NobodyReads == status # None \/ ClosedItself

(***************************************************************************)
(* The caller.                                                             *)
(***************************************************************************)
Return(r) == result' = r /\ pc' = "returned"

(* An empty command or a failing spawn is an error, nothing was started.   *)
Spawn ==
  /\ pc = "spawn"
  /\ \/ pc' = "write" /\ UNCHANGED result
     \/ Return("no_spawn")
  /\ UNCHANGED <<childvars, unsent, pipe, stdin_open, reader, got>>

\* Mutant: a write never blocks.
WriteStdinUnbounded ==
  /\ pc = "write" /\ unsent > 0 /\ ~NobodyReads
  /\ unsent' = unsent - 1
  /\ pipe' = [pipe EXCEPT !["stdin"] = @ + 1]
  /\ UNCHANGED <<childvars, pc, stdin_open, reader, got, result>>

(* One step of write_all; it blocks while the pipe is full. *)
WriteStdin ==
  /\ pc = "write" /\ unsent > 0 /\ ~NobodyReads /\ pipe["stdin"] < PipeSize
  /\ unsent' = unsent - 1
  /\ pipe' = [pipe EXCEPT !["stdin"] = @ + 1]
  /\ UNCHANGED <<childvars, pc, stdin_open, reader, got, result>>

(* EPIPE: the error is returned at once, and the child, which may still    *)
(* run, is neither killed, waited for nor read.                            *)
BrokenPipe ==
  /\ pc = "write" /\ unsent > 0 /\ NobodyReads
  /\ Return("write_error")
  /\ stdin_open' = FALSE
  /\ UNCHANGED <<childvars, unsent, pipe, reader, got>>

\* Mutant: the readers are joined before the wait with its timeout.
JoinFirst ==
  /\ pc = "write" /\ unsent = 0
  /\ stdin_open' = FALSE
  /\ reader' = [s \in Streams |-> "reading"]
  /\ pc' = "join"
  /\ UNCHANGED <<childvars, unsent, pipe, got, result>>

(* The payload is written: stdin is dropped, the readers start.             *)
StartReaders ==
  /\ pc = "write" /\ unsent = 0
  /\ stdin_open' = FALSE
  /\ reader' = [s \in Streams |-> "reading"]
  /\ pc' = "wait"
  /\ UNCHANGED <<childvars, unsent, pipe, got, result>>

WaitExited ==
  /\ pc = "wait" /\ status # None
  /\ pc' = "join"
  /\ UNCHANGED <<childvars, unsent, pipe, stdin_open, reader, got, result>>

(* wait_timeout returns None while the child runs.                         *)
Timeout ==
  /\ pc = "wait" /\ status = None
  /\ pc' = "kill"
  /\ UNCHANGED <<childvars, unsent, pipe, stdin_open, reader, got, result>>

\* Mutant: the child is not killed.
TimeoutOnly ==
  /\ pc = "kill"
  /\ Return("timed_out")
  /\ UNCHANGED <<childvars, unsent, pipe, stdin_open, reader, got>>

(* kill, wait, bail.  A child that exited just before keeps its status, and *)
(* its output is dropped all the same.  The readers are left alone.        *)
Kill ==
  /\ pc = "kill"
  /\ status' = IF status = None THEN "killed" ELSE status
  /\ Return("timed_out")
  /\ UNCHANGED <<kind, script, at, kept, wrote, unsent, pipe, stdin_open, reader, got>>

\* Mutant: the output is judged when stdout is done.
StdoutJoined == reader["stdout"] = "done"

Joined == \A s \in Streams : reader[s] = "done"

(* Both readers joined: judge status and output.                            *)
Join ==
  /\ pc = "join" /\ Joined
  /\ IF status # "exit0" THEN Return("bad_status")
     ELSE IF got["stdout"] = 0 THEN Return(IF kind = "actuator" THEN "ok" ELSE "bad_output")
     ELSE \E r \in {"ok", "bad_output"} : Return(r)
  /\ UNCHANGED <<childvars, unsent, pipe, stdin_open, reader, got>>

(***************************************************************************)
(* A reader thread: read_to_end.                                           *)
(***************************************************************************)
Read(s) ==
  /\ reader[s] = "reading" /\ pipe[s] > 0
  /\ pipe' = [pipe EXCEPT ![s] = 0]
  /\ got' = [got EXCEPT ![s] = @ + pipe[s]]
  /\ UNCHANGED <<childvars, pc, unsent, stdin_open, reader, result>>

WriteEndHeld(s) == status = None \/ (s = "stdout" /\ kept)

EndOfFile(s) ==
  /\ reader[s] = "reading" /\ pipe[s] = 0 /\ ~WriteEndHeld(s)
  /\ reader' = [reader EXCEPT ![s] = "done"]
  /\ UNCHANGED <<childvars, pc, unsent, pipe, stdin_open, got, result>>

(***************************************************************************)
(* The child, which runs its script.  A script ends with an exit or a hang. *)
(***************************************************************************)
Doing(op) == Spawned /\ status = None /\ at <= Len(script) /\ script[at] = op

ChildReads ==
  /\ Doing("in") \/ Doing("drain")
  /\ ~ClosedItself
  /\ pipe["stdin"] > 0
  /\ pipe' = [pipe EXCEPT !["stdin"] = @ - 1]
  /\ at' = IF script[at] = "in" THEN at + 1 ELSE at
  /\ UNCHANGED <<kind, script, status, kept, wrote, pc, unsent, stdin_open, reader, got, result>>

(* End of file, or there is nothing to read from any more. *)
ChildSeesEnd ==
  /\ Doing("in") \/ Doing("drain")
  /\ (pipe["stdin"] = 0 /\ ~stdin_open) \/ ClosedItself
  /\ at' = at + 1
  /\ UNCHANGED <<kind, script, status, kept, wrote, pc, unsent, pipe, stdin_open, reader, got, result>>

(* The caller holds the read ends until it fails to write stdin; a pipe    *)
(* nobody reads from kills its writer.                                     *)
ChildWrites(s) ==
  /\ Doing(s)
  /\ IF result = "write_error"
     THEN status' = "sigpipe" /\ UNCHANGED <<at, pipe, wrote>>
     ELSE /\ pipe[s] < PipeSize
          /\ pipe' = [pipe EXCEPT ![s] = @ + 1]
          /\ wrote' = [wrote EXCEPT ![s] = @ + 1]
          /\ at' = at + 1 /\ UNCHANGED status
  /\ UNCHANGED <<kind, script, kept, pc, unsent, stdin_open, reader, got, result>>

ChildCloses ==
  /\ Doing("close")
  /\ at' = at + 1
  /\ UNCHANGED <<kind, script, status, kept, wrote, pc, unsent, pipe, stdin_open, reader, got, result>>

ChildForks ==
  /\ Doing("fork")
  /\ kept' = TRUE /\ at' = at + 1
  /\ UNCHANGED <<kind, script, status, wrote, pc, unsent, pipe, stdin_open, reader, got, result>>

(* A descendant ends, or closes stdout, when it likes. *)
DescendantEnds ==
  /\ kept /\ kept' = FALSE
  /\ UNCHANGED <<kind, script, at, status, wrote, pc, unsent, pipe, stdin_open, reader, got, result>>

ChildExits ==
  /\ Doing("exit0") \/ Doing("exit1")
  /\ status' = script[at]
  /\ UNCHANGED <<kind, script, at, kept, wrote, pc, unsent, pipe, stdin_open, reader, got, result>>

Caller == Spawn \/ WriteStdin \/ BrokenPipe \/ StartReaders \/ WaitExited \/ Kill \/ Join
Child == ChildReads \/ ChildSeesEnd \/ (\E s \in Streams : ChildWrites(s)) \/ ChildCloses \/ ChildForks \/ ChildExits

Next ==
  \/ Caller \/ Timeout
  \/ \E s \in Streams : Read(s) \/ EndOfFile(s)
  \/ Child \/ DescendantEnds

(* The scheduler runs every thread that can run, and the clock runs: a     *)
(* wait that lasts is timed out.  A child that is not blocked goes on      *)
(* (one that hangs has no step to take).                                   *)
Spec ==
  /\ Init /\ [][Next]_vars
  /\ WF_vars(Caller) /\ WF_vars(Timeout)
  /\ \A s \in Streams : WF_vars(Read(s)) /\ WF_vars(EndOfFile(s))
  /\ WF_vars(Child)

(***************************************************************************)
(* Correctness.                                                            *)
(***************************************************************************)

(* Types; a pipe never holds more than its size.                           *)
TypeOK ==
  /\ kind \in {"hook", "actuator"}
  /\ script \in Scripts /\ at \in 1 .. Len(script) + 1
  /\ status \in {None, "exit0", "exit1", "killed", "sigpipe"}
  /\ pc \in {"spawn", "write", "wait", "kill", "join", "returned"}
  /\ unsent \in 0 .. Payload
  /\ pipe \in [Streams \cup {"stdin"} -> 0 .. PipeSize]
  /\ stdin_open \in BOOLEAN /\ kept \in BOOLEAN
  /\ reader \in [Streams -> {"none", "reading", "done"}]
  /\ got \in [Streams -> Nat] /\ wrote \in [Streams -> Nat]
  /\ result \in Results \cup {None}

(* A result that counts is complete: the child ended by itself with        *)
(* success after its whole script, had been sent the whole payload, and    *)
(* every unit it wrote before it ended was collected.                      *)
OkIsComplete ==
  result = "ok" =>
    /\ status = "exit0" /\ unsent = 0
    /\ \A i \in 1 .. (at - 1) : script[i] \notin {"exit0", "exit1"}
    /\ got = wrote

(* What may still run when the call has returned.  Of a child that was not *)
(* timed out, nothing that holds its stdout: neither the child nor a       *)
(* descendant it left with it.  Of a child that was timed out, no longer   *)
(* the child, but any descendant: the kill reaches the child alone.  After *)
(* a failed write everything, the child included.                          *)
NoChildLeftBehind ==
  pc = "returned" =>
    /\ result \notin {"no_spawn", "write_error"} => status # None
    /\ result \in {"bad_status", "bad_output", "ok"} => ~kept

(* What a reader has and what is still in the pipe is what the child wrote *)
(* (used to prove OkIsComplete).                                           *)
UnitsConserved == \A s \in Streams : got[s] + pipe[s] = wrote[s]

(* The script cannot fill its output pipes, or stop, while it still leaves *)
(* input unread, or all its input fits into the pipe.                      *)
ReadsInTime ==
  \/ Payload <= PipeSize
  \/ \E d \in DOMAIN script :
       /\ script[d] = "drain"
       /\ \A i \in 1 .. (d - 1) : script[i] \in {"in", "stdout", "stderr"}
       /\ \A s \in Streams : Cardinality({i \in 1 .. (d - 1) : script[i] = s}) <= PipeSize

(* A command that reads its input in time and leaves no descendant with its *)
(* stdout cannot keep the caller: it exits or is timed out.                *)
PatientCommandsReturn ==
  (ReadsInTime /\ "fork" \notin {script[i] : i \in DOMAIN script}) ~> pc = "returned"

(***************************************************************************)
(* A statement of the documentation the code does not keep.                *)
(***************************************************************************)

(* docs/reference/config.md: timeout_ms is the timeout of the command.     *)
TimeoutBoundsTheCall == <>(pc = "returned")
=============================================================================
