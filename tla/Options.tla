------------------------------ MODULE Options -------------------------------
(***************************************************************************)
(* What one invocation is asked to do: the first lines of cmd_ingest       *)
(* (crates/cockpitctl-cli), where the command line is laid over            *)
(* cockpit.toml, the runtime features (crates/cockpitctl-feature-state)    *)
(* and the signing key (crates/cockpitctl-io-policy-signing).              *)
(*                                                                         *)
(* Strings given by a user (a command, a path, the name of a variable) are *)
(* naturals; 0 is one of blanks only.                                      *)
(***************************************************************************)
EXTENDS CockpitTypes

SafetyLevel == {"safe", "guarded", "unsafe"}

safety_level_rank == [safe |-> 0, guarded |-> 1, unsafe |-> 2]

Actuator == [command : Nat, timeout_ms : Nat]

BuildfixPolicy ==
  [auto_apply              : BOOLEAN,
   max_auto_apply_safety   : SafetyLevel,
   require_matched_finding : BOOLEAN,
   actuator                : Actuator \cup {None}]

PolicySigning ==
  [enabled : BOOLEAN, key_path : Nat \cup {None}, key_env : Nat \cup {None},
   key_id  : Nat \cup {None}]

(* The options of `cockpitctl ingest` that change what the phases after    *)
(* execute do.  Clap refuses a key path together with a key variable.      *)
CommandLine ==
  {cli \in [auto_apply     : BOOLEAN,
            max_safety     : SafetyLevel \cup {None},
            actuator       : Nat \cup {None},
            timeout_ms     : Nat \cup {None},
            policy_sign    : BOOLEAN,
            key_path       : Nat \cup {None},
            key_env        : Nat \cup {None},
            key_id         : Nat \cup {None},
            disabled       : SUBSET {"hooks", "buildfix", "policy-signing"}] :
     cli.key_path = None \/ cli.key_env = None}

Or(override, configured) == IF override # None THEN override ELSE configured

(***************************************************************************)
(* Buildfix.                                                               *)
(***************************************************************************)
ActuatorOverridden(cli) == cli.actuator # None \/ cli.timeout_ms # None

\* Mutant: a timeout alone makes an actuator without a command.
NoDefaultCommand(cfg, cli) ==
  LET base == IF cfg.actuator = None THEN [command |-> None, timeout_ms |-> 30000] ELSE cfg.actuator
  IN  [auto_apply              |-> cfg.auto_apply \/ cli.auto_apply,
       max_auto_apply_safety   |-> Or(cli.max_safety, cfg.max_auto_apply_safety),
       require_matched_finding |-> cfg.require_matched_finding,
       actuator                |->
         IF ActuatorOverridden(cli)
         THEN [command    |-> Or(cli.actuator, base.command),
               timeout_ms |-> Or(cli.timeout_ms, base.timeout_ms)]
         ELSE cfg.actuator]

effective_buildfix(cfg, cli) ==
  LET base == IF cfg.actuator = None THEN [command |-> 0, timeout_ms |-> 30000] ELSE cfg.actuator
  IN  [auto_apply              |-> cfg.auto_apply \/ cli.auto_apply,
       max_auto_apply_safety   |-> Or(cli.max_safety, cfg.max_auto_apply_safety),
       require_matched_finding |-> cfg.require_matched_finding,
       actuator                |->
         IF ActuatorOverridden(cli)
         THEN [command    |-> Or(cli.actuator, base.command),
               timeout_ms |-> Or(cli.timeout_ms, base.timeout_ms)]
         ELSE cfg.actuator]

(* anyhow::bail!: an override that leaves no command.  A blank command that *)
(* is only configured is found out when the actuator is to run.             *)
ActuatorUnnamed(cfg, cli) ==
  ActuatorOverridden(cli) /\ effective_buildfix(cfg, cli).actuator.command = 0

buildfix_apply_requested(cfg, cli) ==
  \/ effective_buildfix(cfg, cli).auto_apply
  \/ cli.max_safety # None
  \/ ActuatorOverridden(cli)

(***************************************************************************)
(* Policy signing.  Naming a key on the command line enables signing and   *)
(* replaces the configured one, of either kind.                            *)
(***************************************************************************)
\* Mutant: a variable named on the command line leaves a configured path in place.
PathStays(cfg, cli) ==
  [enabled  |-> cfg.enabled \/ cli.policy_sign \/ cli.key_path # None \/ cli.key_env # None
                \/ cli.key_id # None,
   key_path |-> Or(cli.key_path, cfg.key_path),
   key_env  |-> Or(cli.key_env, cfg.key_env),
   key_id   |-> Or(cli.key_id, cfg.key_id)]

effective_policy_signing(cfg, cli) ==
  LET named == cli.key_path # None \/ cli.key_env # None
  IN  [enabled  |-> cfg.enabled \/ cli.policy_sign \/ named \/ cli.key_id # None,
       key_path |-> IF named THEN cli.key_path ELSE cfg.key_path,
       key_env  |-> IF named THEN cli.key_env ELSE cfg.key_env,
       key_id   |-> Or(cli.key_id, cfg.key_id)]

(* load_policy_signing_key: a configured path is the only one tried, a     *)
(* variable is looked at when there is no path.  `files` and `environment` *)
(* give the bytes found under a name, without the final newlines that are  *)
(* stripped (0: nothing is left); None is every way of getting no key.     *)
load_policy_signing_key(signing, files, environment) ==
  LET Named(name, source) ==
        IF name # 0 /\ name \in DOMAIN source /\ source[name] # 0 THEN source[name] ELSE None
  IN  IF signing.key_path # None THEN Named(signing.key_path, files)
      ELSE IF signing.key_env # None THEN Named(signing.key_env, environment)
      ELSE None

(***************************************************************************)
(* Runtime features, in a build that has them all.                         *)
(***************************************************************************)

(* RuntimeFeatureState::from_disable_flags. *)
FeatureEnabled(cli, feature) == feature \notin cli.disabled

(* Feature::contract: the key a feature leaves in report.data (and so in    *)
(* the comment), and its sidecar file.  Hooks leave neither.               *)
contract ==
  [buildfix |-> [report_data_key |-> "_buildfix", sidecar_file |-> "buildfix.apply.json"],
   signing  |-> [report_data_key |-> "_policy_signature", sidecar_file |-> "policy.signature.json"]]
=============================================================================
