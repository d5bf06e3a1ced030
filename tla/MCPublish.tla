----------------------------- MODULE MCPublish ------------------------------
(***************************************************************************)
(* Invocations of Publish: one for every phase it can take.                *)
(***************************************************************************)
EXTENDS Publish

NoFlags == [auto_apply |-> FALSE, max_safety |-> None, actuator |-> None, timeout_ms |-> None,
            policy_sign |-> FALSE, key_path |-> None, key_env |-> None, key_id |-> None,
            disabled |-> {}]

\* File 1 and variable 2 hold a key each; file 3 holds a newline only.
Plain ==
  [buildfix    |-> [auto_apply |-> FALSE, max_auto_apply_safety |-> "safe",
                    require_matched_finding |-> TRUE, actuator |-> None],
   signing     |-> [enabled |-> FALSE, key_path |-> None, key_env |-> None, key_id |-> None],
   cli         |-> NoFlags,
   files       |-> [name \in {1, 3} |-> IF name = 1 THEN 7 ELSE 0],
   environment |-> [name \in {2} |-> 8],
   answer      |-> "ok", hooks |-> << >>, sarif |-> FALSE, baseline |-> "none"]

Hook(names, appends) == [fails |-> FALSE, files |-> names, sections |-> appends]
FailingHook == [fails |-> TRUE, files |-> << >>, sections |-> FALSE]

Actuator1 == [command |-> 1, timeout_ms |-> 1]

\* Configured to sign with a key file; the command line names a variable instead.
Applying == [Plain EXCEPT !.buildfix.auto_apply = TRUE, !.buildfix.actuator = Actuator1,
                          !.signing.enabled = TRUE, !.signing.key_path = 1, !.cli.key_env = 2]
ApplyFails == [Plain EXCEPT !.cli.auto_apply = TRUE, !.cli.actuator = 1, !.answer = "fails",
                            !.hooks = <<Hook(<<"extra", "unsafe">>, TRUE)>>]
BlankActuator == [Plain EXCEPT !.buildfix.auto_apply = TRUE, !.buildfix.actuator = [Actuator1 EXCEPT !.command = 0]]
NoActuator == [Plain EXCEPT !.cli.timeout_ms = 5]
Disabled == [Applying EXCEPT !.cli.disabled = {"buildfix", "policy-signing"},
                             !.hooks = <<Hook(<< >>, TRUE)>>]
Hooked == [Plain EXCEPT !.cli.key_path = 1, !.cli.key_id = 1, !.sarif = TRUE,
             !.hooks = <<FailingHook, Hook(<<"extra">>, TRUE), Hook(<<"report.json">>, FALSE)>>]
NoKey == [Plain EXCEPT !.signing.key_path = 3, !.cli.policy_sign = TRUE]
BadBaseline == [Plain EXCEPT !.baseline = "unreadable"]
HooksOff == [Hooked EXCEPT !.cli.disabled = {"hooks"}, !.baseline = "good"]

AllInvocations == {Plain, Applying, ApplyFails, BlankActuator, NoActuator, Disabled, Hooked, NoKey,
                   BadBaseline, HooksOff}
=============================================================================
