----------------------------- MODULE MCHedgeVault -----------------------------
(***************************************************************************)
(* Small instances of HedgeVault for TLC.  Each cfg picks the inputs its   *)
(* question needs from the sets below and leaves the others empty.         *)
(***************************************************************************)
EXTENDS HedgeVaultProps

LOCAL INSTANCE Functions

\* The count of Totals is the sum that a fold computes.
ASSUME TotalIsTheSum ==
  \A f \in [1 .. 3 -> 0 .. 3] : Total(f) = FoldFunction(+, 0, f)

NoVaultChange ==
  [performance_fee_bps |-> None, management_fee_bps |-> None, deposit_cap |-> None,
   min_deposit |-> None, min_withdrawal_shares |-> None, status |-> None,
   deposit_paused |-> None, withdrawal_paused |-> None]

NoConfigChange ==
  [platform_performance_fee_bps |-> None, platform_management_fee_bps |-> None,
   max_nav_deviation_bps |-> None, max_epoch_outflow_bps |-> None, status |-> None]

NoVaultUpdates == {NoVaultChange}
NoConfigUpdates == {NoConfigChange}

\* A config without platform fees that bounds a NAV move to half the NAV.
PlainConfig ==
  [status |-> "Normal", platform_performance_fee_bps |-> 0,
   platform_management_fee_bps |-> 0, max_nav_deviation_bps |-> 2,
   max_epoch_outflow_bps |-> 2]

PlainArgs ==
  [performance_fee_bps |-> 0, management_fee_bps |-> 0, deposit_cap |-> 8,
   min_deposit |-> 1, min_withdrawal_shares |-> 2]

-----------------------------------------------------------------------------
(* Settlement: requests and NAVs, no fees and no pauses. *)

SettlementConfigs == {PlainConfig}
SettlementArgs == {PlainArgs}

-----------------------------------------------------------------------------
(* Fees: one NAV after another with performance and management fees of the   *)
(* manager and the platform, their claims and a fee increase.                *)

FeeConfigs ==
  [status : {"Normal"}, platform_performance_fee_bps : {0, 2},
   platform_management_fee_bps : {0, 1}, max_nav_deviation_bps : {8},
   max_epoch_outflow_bps : {0}]

FeeArgs ==
  [performance_fee_bps : {1, 2}, management_fee_bps : {0, 1}, deposit_cap : {30},
   min_deposit : {1}, min_withdrawal_shares : {1}]

FeeVaultUpdates ==
  {NoVaultChange, [NoVaultChange EXCEPT !.performance_fee_bps = 8]}

-----------------------------------------------------------------------------
(* Gates: every status and pause flag, direct SPL token transfers and moves  *)
(* of idle tokens between any two steps of two users' requests.              *)

GateVaultUpdates ==
  {NoVaultChange}
    \cup {[NoVaultChange EXCEPT !.status = s] : s \in Statuses}
    \cup {[NoVaultChange EXCEPT !.deposit_paused = b] : b \in BOOLEAN}
    \cup {[NoVaultChange EXCEPT !.withdrawal_paused = b] : b \in BOOLEAN}

GateConfigUpdates ==
  {[NoConfigChange EXCEPT !.status = s] : s \in Statuses}

-----------------------------------------------------------------------------
(* The cap on withdrawals, as docs/accounts.md states it.                    *)

\* A withdrawal resolution fails once the payouts since the last NAV update
\* exceed max_epoch_outflow_bps of the total assets (the cap is taken on the
\* assets before those payouts).
OutflowStaysUnderCap ==
  [][vault'.epoch_outflow > vault.epoch_outflow
       => vault'.epoch_outflow * MAX_BPS
            <= (vault.total_assets + vault.epoch_outflow) * config.max_epoch_outflow_bps]_vars
=============================================================================
