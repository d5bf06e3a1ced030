---------------------------- MODULE CockpitTypes ----------------------------
(***************************************************************************)
(* The data types of crates/cockpitctl-types.                              *)
(*                                                                         *)
(* Names (sensor ids, codes, messages, paths, sections) only matter through *)
(* equality and lexical order, so a name is a natural number and its       *)
(* lexical order is <.  An absent Option is the model value None.  A       *)
(* finding without a path has the path 0: the sort keys of the domain take *)
(* it for an empty one, so the model does not hold a path that is present  *)
(* and empty.                                                              *)
(***************************************************************************)
EXTENDS Ordering

CONSTANTS
  None,       \* an absent Option
  U32Max,     \* u32::MAX, the line a finding without a line sorts at
  CockpitId,  \* the name "_cockpit", under which cockpitctl reports itself
  SensorReasons  \* the reasons sensors give for their verdicts

ASSUME TypesAssumption ==
  /\ None \notin Nat /\ None \notin Seq(Nat)
  /\ U32Max \in Nat
  /\ CockpitId \in Nat

VerdictStatus == {"pass", "warn", "fail", "skip"}
Severity == {"info", "warn", "error"}
MissingPolicy == {"skip", "warn", "fail"}
Presence == {"present", "missing", "invalid"}
PolicyOutcome == {"blocked", "allowed", "informational"}
SchemaValidation == {"lax", "strict"}

(* The reasons cockpitctl gives itself, and the ones it passes on. *)
Reason ==
  SensorReasons \cup
  {"missing_receipt", "invalid_receipt", "schema_violation", "path_traversal",
   "receipt_oversized", "receipt_inconsistent", "warn_is_fail"}

severity_rank == [error |-> 0, warn |-> 1, info |-> 2]
verdict_status_rank == [fail |-> 0, warn |-> 1, pass |-> 2, skip |-> 3]

VerdictCounts == [info : Nat, warn : Nat, error : Nat, suppressed : Nat]

(* A fingerprint is a string; its first number names the form it was made  *)
(* from (see the Fp definitions of Domain), the others what it was made of. *)
Fingerprint == Seq(Nat)

Finding ==
  [severity    : Severity,
   code        : Nat,
   message     : Nat,
   path        : Nat,
   line        : (0 .. U32Max) \cup {None},
   fingerprint : Fingerprint \cup {None}]

Highlight == [sensor_id : Nat, finding : Finding]

SensorPolicy ==
  [blocking      : BOOLEAN,
   missing       : MissingPolicy,
   section       : Nat \cup {None},
   require_label : Nat \cup {None}]

\* Mutant: the policy of an undeclared sensor blocks.
DefaultPolicyBlocks ==
  [blocking |-> TRUE, missing |-> "skip", section |-> None, require_label |-> None]

DefaultSensorPolicy ==
  [blocking |-> FALSE, missing |-> "skip", section |-> None, require_label |-> None]

(* What a summary says of one sensor.  The wording of `errors` and the two *)
(* path strings are left out; comment_path keeps whether there is one.     *)
SensorSummary ==
  [id                     : Nat,
   blocking               : BOOLEAN,
   missing                : MissingPolicy,
   presence               : Presence,
   comment_path           : BOOLEAN,
   status                 : VerdictStatus,
   counts                 : VerdictCounts,
   reasons                : SUBSET Reason,
   truncated              : BOOLEAN,
   missing_policy_applied : MissingPolicy \cup {None},
   policy_outcome         : PolicyOutcome]
=============================================================================
