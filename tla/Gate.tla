-------------------------------- MODULE Gate --------------------------------
(***************************************************************************)
(* What an ingest run promises, without files, receipts or summaries:      *)
(* it fixes the sensors it expects, takes evidence of each of them once,   *)
(* publishes a verdict that depends on that evidence and the policy only,  *)
(* and exits with the code of the verdict it published - or it gives up    *)
(* with code 1.  Ingest implements this (ImplementsGate).                  *)
(***************************************************************************)
EXTENDS CockpitTypes

CONSTANTS Ids

Evidence == VerdictStatus \cup {"gated", "missing", "rejected"}

VARIABLES
  policy,    \* [id -> SensorPolicy] of the expected sensors, None before it is fixed
  warn_is_fail,
  seen,      \* [Ids -> Evidence \cup {None}]
  verdict,   \* the published verdict, None before
  exit       \* the exit code, None before

vars == <<policy, warn_is_fail, seen, verdict, exit>>

(* The evidence blocks (fail) or flags (warn) a sensor under its policy. *)
Failing(id) ==
  \/ seen[id] \in {"fail", "rejected"}
  \/ seen[id] = "missing" /\ policy[id].missing = "fail"

Warning(id) ==
  \/ seen[id] = "warn"
  \/ seen[id] = "missing" /\ policy[id].missing = "warn"

Blocking == {id \in DOMAIN policy : policy[id].blocking}

Verdict ==
  IF \E id \in Blocking : Failing(id) \/ (warn_is_fail /\ Warning(id)) THEN "fail"
  ELSE IF \E id \in Blocking : Warning(id) THEN "warn"
  ELSE "pass"

Init ==
  /\ policy = None /\ warn_is_fail = FALSE
  /\ seen = [id \in Ids |-> None]
  /\ verdict = None /\ exit = None

Configure ==
  /\ policy = None /\ exit = None
  /\ \E D \in SUBSET Ids : policy' \in [D -> SensorPolicy]
  /\ warn_is_fail' \in BOOLEAN
  /\ UNCHANGED <<seen, verdict, exit>>

Observe(id) ==
  /\ exit = None /\ policy # None /\ id \in DOMAIN policy /\ seen[id] = None
  /\ \E e \in Evidence : seen' = [seen EXCEPT ![id] = e]
  /\ UNCHANGED <<policy, warn_is_fail, verdict, exit>>

Publish ==
  /\ exit = None /\ policy # None /\ verdict = None
  /\ \A id \in DOMAIN policy : seen[id] # None
  /\ verdict' = Verdict
  /\ UNCHANGED <<policy, warn_is_fail, seen, exit>>

Exit ==
  /\ exit = None /\ verdict # None
  /\ exit' = IF verdict = "fail" THEN 2 ELSE 0
  /\ UNCHANGED <<policy, warn_is_fail, seen, verdict>>

GiveUp ==
  /\ exit = None /\ exit' = 1
  /\ UNCHANGED <<policy, warn_is_fail, seen>>
  /\ verdict' = verdict

Next == Configure \/ (\E id \in Ids : Observe(id)) \/ Publish \/ Exit \/ GiveUp

Spec == Init /\ [][Next]_vars
=============================================================================
