----------------------------- MODULE MCBuildfix -----------------------------
(***************************************************************************)
(* Two sensors with plans for every branch of matching and selection.      *)
(***************************************************************************)
EXTENDS Buildfix

\* What the receipts said: an error both sensors report under one
\* fingerprint, and a warning of sensor 2 alone, without a fingerprint.
Shared == [severity |-> "error", code |-> 11, message |-> 1, path |-> 1, line |-> 2,
           fingerprint |-> SensorFp(1)]
Own == [severity |-> "warn", code |-> 12, message |-> 1, path |-> 1, line |-> None,
        fingerprint |-> None]

Receipt(findings, infos, warns, errors) ==
  [status |-> "fail", reasons |-> {}, findings |-> findings,
   counts |-> [info |-> infos, warn |-> warns, error |-> errors, suppressed |-> 0]]

Both == <<Receipt(<<Shared>>, 0, 0, 1), Receipt(<<Own, Shared>>, 0, 1, 1)>>
\* Sensor 2's receipt was off the schema: the only finding under its name.
Rejected == <<Receipt(<<Shared>>, 0, 0, 1), None>>

Ref(sensor_id, fingerprint, code) ==
  [sensor_id |-> sensor_id, fingerprint |-> fingerprint, code |-> code]

MkFix(id, safety, refs, head) ==
  [id |-> id, safety |-> safety, finding_refs |-> refs, repo_head |-> head]

\* A fix by fingerprint whose code is another's, and one for anything of sensor 1.
Precise == [size |-> 1, fixes |->
  <<MkFix(1, "guarded", <<Ref(1, SensorFp(1), 12), Ref(2, SensorFp(1), 11)>>, None),
    MkFix(2, "safe", <<Ref(1, None, None), Ref(2, None, None)>>, None)>>]
\* Made for another commit; nobody's sensor; dangerous.
Loose == [size |-> 1, fixes |->
  <<MkFix(3, "unsafe", <<Ref(2, None, 12), Ref(1, None, 11)>>, None),
    MkFix(4, "safe", <<Ref(1, SensorFp(1), 11), Ref(2, None, 12)>>, 2),
    MkFix(5, "safe", <<Ref(3, None, None)>>, None)>>]
Huge == [Loose EXCEPT !.size = 5]
Garbage == [size |-> 1, fixes |-> None]
NoFixes == [size |-> 1, fixes |-> << >>]

AllPlans == {Precise, Loose, Huge, Garbage, NoFixes}

Command(n) == [command |-> n, timeout_ms |-> 1]
Policy(auto, level, matched, actuator) ==
  [auto_apply |-> auto, max_auto_apply_safety |-> level, require_matched_finding |-> matched,
   actuator |-> actuator]

NoFlags == [auto_apply |-> FALSE, max_safety |-> None, actuator |-> None, timeout_ms |-> None,
            policy_sign |-> FALSE, key_path |-> None, key_env |-> None, key_id |-> None,
            disabled |-> {}]

In(config, cli, discovered, receipts, max_findings, max) ==
  [config |-> config, cli |-> cli, discovered |-> discovered, receipts |-> receipts,
   max_per_sensor_findings |-> max_findings, max_highlights |-> max, blocking |-> {2}, head |-> 1]

\* The third cuts Own off the receipt of sensor 2, the last disables buildfix.
AllInputs ==
  {In(Policy(TRUE, "safe", TRUE, Command(1)), NoFlags, {1, 2}, Both, 2, 3),
   In(Policy(TRUE, "unsafe", TRUE, Command(1)), [NoFlags EXCEPT !.max_safety = "guarded"], {1, 2}, Both, 2, 1),
   In(Policy(TRUE, "safe", TRUE, None), NoFlags, {2}, Both, 1, 4),
   In(Policy(FALSE, "safe", FALSE, None),
      [NoFlags EXCEPT !.auto_apply = TRUE, !.max_safety = "unsafe", !.actuator = 1], {1, 2}, Rejected, 2, 2),
   In(Policy(TRUE, "guarded", FALSE, Command(0)), NoFlags, {2}, Both, 2, 2),
   In(Policy(FALSE, "safe", TRUE, None), [NoFlags EXCEPT !.timeout_ms = 2], {1}, Both, 2, 2),
   In(Policy(FALSE, "safe", TRUE, Command(1)), NoFlags, {1}, Both, 2, 2),
   In(Policy(TRUE, "safe", TRUE, Command(1)), [NoFlags EXCEPT !.disabled = {"buildfix"}], {1}, Both, 2, 3)}

FewInputs == {In(Policy(TRUE, "safe", TRUE, Command(1)), NoFlags, {1}, Both, 2, 3)}
FewPlans == {Loose}

Anywhere == {None, Escape}
NoPlan == {None}
=============================================================================
