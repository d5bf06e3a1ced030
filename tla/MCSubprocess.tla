---------------------------- MODULE MCSubprocess ----------------------------
(***************************************************************************)
(* Every script of up to MaxOps operations before its last one.            *)
(***************************************************************************)
EXTENDS Subprocess

CONSTANT MaxOps   \* BOUND: operations before the exit

Bodies == UNION {[1 .. n -> {"in", "drain", "close", "stdout", "stderr", "fork"}] : n \in 0 .. MaxOps}

AllScripts == {Append(b, e) : b \in Bodies, e \in {"hang", "exit0", "exit1"}}

(* One command that answers before it has read everything. *)
EagerScripts == {<<"stdout", "stdout", "drain", "exit0">>}
=============================================================================
