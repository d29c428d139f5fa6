---------------------------- MODULE ProtocolConfig ----------------------------
(***************************************************************************)
(* The life of the Config account: created once by config_initialize, or   *)
(* deployed in the shorter version 1 layout and grown by config_migrate.    *)
(* It names who may do what, and the admin hands over in two steps.  An     *)
(* instruction that loads the account in the version 1 layout fails.        *)
(*                                                                         *)
(* The numeric settings other than the slippage cap are in HedgeVault, the  *)
(* manager whitelist and next_vault_id in VaultStrategies, the rent of the  *)
(* account, which the admin tops up, in neither.                            *)
(***************************************************************************)
EXTENDS Integers

CONSTANTS
  Keys,                      \* wallets that can sign
  DefaultKey,                \* the zero address, which nobody can sign for
  Omitted,                   \* an argument that is not given
  Initializations,           \* arguments config_initialize is called with
  Updates,                   \* arguments config_update is called with
  Deployments,               \* version 1 configs: admin, guardian and status
  MAX_BPS,                   \* 100%, in basis points
  DEFAULT_MAX_SLIPPAGE_BPS   \* the cap of a config that has none

Statuses == {"Normal", "Paused", "ReduceOnly"}

Addresses == Keys \cup {DefaultKey}

ASSUME ConfigAssumption ==
  /\ DefaultKey \notin Keys
  /\ MAX_BPS \in Nat \ {0}
  /\ DEFAULT_MAX_SLIPPAGE_BPS \in 1 .. MAX_BPS
  /\ Omitted \notin Addresses \cup Nat \cup Statuses
  /\ Initializations \subseteq [nav_updater : Addresses, treasury_authority : Addresses,
                                guardian : Addresses, max_slippage_bps : Nat]
  /\ Deployments \subseteq [admin : Keys, guardian : Keys, status : Statuses]
  /\ Updates \subseteq [pending_admin : Addresses \cup {Omitted},
                        nav_updater : Addresses \cup {Omitted},
                        treasury_authority : Addresses \cup {Omitted},
                        guardian : Addresses \cup {Omitted},
                        max_slippage_bps : Nat \cup {Omitted},
                        status : Statuses \cup {Omitted}]

VARIABLE config

\* Absent, the 160 bytes of version 1, or the current layout.
Layouts == {"none", "v1", "v2"}

NoConfig == [layout |-> "none", admin |-> DefaultKey, pending_admin |-> DefaultKey,
             nav_updater |-> DefaultKey, treasury_authority |-> DefaultKey,
             guardian |-> DefaultKey, status |-> "Paused", max_slippage_bps |-> 0]

\* A config of version 1 ends before the nomination and the slippage cap.
ConfigV1(deployment) ==
  [NoConfig EXCEPT !.layout = "v1", !.admin = deployment.admin,
                   !.nav_updater = deployment.admin, !.treasury_authority = deployment.admin,
                   !.guardian = deployment.guardian, !.status = deployment.status]

ConfigInit == config = NoConfig \/ \E d \in Deployments : config = ConfigV1(d)

-----------------------------------------------------------------------------
(* What the instructions read. *)

ConfigLoads == config.layout = "v2"

IsAdmin(signer) == ConfigLoads /\ config.admin = signer

ProtocolOperational == ConfigLoads /\ config.status = "Normal"

ProtocolWithdrawable == ConfigLoads /\ config.status # "Paused"

\* A migrated config has no cap yet.
MaxSlippage ==
  IF config.max_slippage_bps = 0 THEN DEFAULT_MAX_SLIPPAGE_BPS ELSE config.max_slippage_bps

Mutant_IsNominee(signer) == config.pending_admin # DefaultKey

IsNominee(signer) == config.pending_admin # DefaultKey /\ config.pending_admin = signer

Mutant_IsSlippageCap(bps) == bps > 0

IsSlippageCap(bps) == bps > 0 /\ bps <= MAX_BPS

-----------------------------------------------------------------------------
(* The instructions. *)

\* By anyone, once.
ConfigInitialize(signer, args) ==
  /\ config.layout = "none"
  /\ DefaultKey \notin {args.nav_updater, args.treasury_authority, args.guardian}
  /\ IsSlippageCap(args.max_slippage_bps)
  /\ config' = [layout |-> "v2", admin |-> signer, pending_admin |-> DefaultKey,
                nav_updater |-> args.nav_updater,
                treasury_authority |-> args.treasury_authority,
                guardian |-> args.guardian, status |-> "Paused",
                max_slippage_bps |-> args.max_slippage_bps]

Given(argument, current) == IF argument = Omitted THEN current ELSE argument

\* By the admin.  One bad argument fails the whole update.
ConfigUpdate(signer, args) ==
  /\ IsAdmin(signer)
  /\ DefaultKey \notin {args.pending_admin, args.nav_updater, args.treasury_authority,
                        args.guardian}
  /\ args.max_slippage_bps # Omitted => IsSlippageCap(args.max_slippage_bps)
  /\ config' = [config EXCEPT
                  !.pending_admin = Given(args.pending_admin, @),
                  !.nav_updater = Given(args.nav_updater, @),
                  !.treasury_authority = Given(args.treasury_authority, @),
                  !.guardian = Given(args.guardian, @),
                  !.max_slippage_bps = Given(args.max_slippage_bps, @),
                  !.status = Given(args.status, @)]

\* By the nominee, who becomes admin.
AdminAccept(signer) ==
  /\ ConfigLoads
  /\ IsNominee(signer)
  /\ config' = [config EXCEPT !.admin = signer, !.pending_admin = DefaultKey]

\* By the guardian.
ConfigPause(signer) ==
  /\ ConfigLoads
  /\ signer = config.guardian
  /\ config' = [config EXCEPT !.status = "Paused"]

\* By the admin.  The bytes the account grows by are zero.
ConfigMigrate(signer) ==
  /\ config.layout = "v1"
  /\ signer = config.admin
  /\ config' = [config EXCEPT !.layout = "v2", !.pending_admin = DefaultKey,
                              !.max_slippage_bps = 0]

ConfigStep ==
  \E signer \in Keys :
    \/ \E args \in Initializations : ConfigInitialize(signer, args)
    \/ \E args \in Updates : ConfigUpdate(signer, args)
    \/ AdminAccept(signer)
    \/ ConfigPause(signer)
    \/ ConfigMigrate(signer)
=============================================================================
