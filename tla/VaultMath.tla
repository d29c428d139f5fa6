------------------------------ MODULE VaultMath ------------------------------
(***************************************************************************)
(* The arithmetic of state/vault.rs: conversions between deposit tokens    *)
(* and shares, the fees of a NAV update and the NAV that results.  Every   *)
(* operator is pure.  The program computes in u128, where none of these    *)
(* intermediate products overflows, and rounds every division down.  The   *)
(* results that are stored as u64 are checked by the actions that use them. *)
(*                                                                         *)
(* Operators named Mutant_... are variants with a plausible bug.  Nothing  *)
(* uses them: each shows that a property can tell it from the original.    *)
(***************************************************************************)
EXTENDS Integers

CONSTANTS
  NAV_PRECISION,       \* scale of NAV per share: one share worth one token
  MAX_BPS,             \* 100%, in basis points
  SECONDS_PER_YEAR,    \* prorates the management fee
  EPOCH_DURATION,      \* seconds of a NAV epoch
  FEE_INCREASE_DELAY,  \* seconds before a manager fee increase applies
  U64_MAX              \* the largest value an account field or mint supply holds

ASSUME MathAssumption ==
  /\ NAV_PRECISION \in Nat \ {0}
  /\ MAX_BPS \in Nat \ {0}
  /\ SECONDS_PER_YEAR \in Nat \ {0}
  /\ EPOCH_DURATION \in Nat \ {0}
  /\ FEE_INCREASE_DELAY \in Nat \ {0}
  /\ U64_MAX \in Nat
  /\ NAV_PRECISION <= U64_MAX

U64 == 0 .. U64_MAX

Epoch(ts) == ts \div EPOCH_DURATION

-----------------------------------------------------------------------------
(* Settlement of a request at a stored NAV per share. *)

Mutant_SharesFor(amount, nav_per_share) ==
  (amount * NAV_PRECISION + nav_per_share - 1) \div nav_per_share

\* Shares minted for a deposit.
SharesFor(amount, nav_per_share) == (amount * NAV_PRECISION) \div nav_per_share

Mutant_AssetsFor(shares, nav_per_share) ==
  (shares * nav_per_share + NAV_PRECISION - 1) \div NAV_PRECISION

\* Deposit tokens paid for redeemed shares.
AssetsFor(shares, nav_per_share) == (shares * nav_per_share) \div NAV_PRECISION

-----------------------------------------------------------------------------
(* The fees of a NAV update.  A pair of rates is a record with the fields   *)
(* performance and management, both in basis points.                        *)

ManagementFee(total_assets, fee_bps, elapsed) ==
  (total_assets * fee_bps * elapsed) \div (SECONDS_PER_YEAR * MAX_BPS)

PerformanceFee(profit, fee_bps) == (profit * fee_bps) \div MAX_BPS

\* NAV per share before fees.
GrossNav(total_assets, supply) == (total_assets * NAV_PRECISION) \div supply

Mutant_EligibleProfit(total_assets, supply, high_water_mark) == total_assets

\* The gain above the high water mark, in deposit tokens.
EligibleProfit(total_assets, supply, high_water_mark) ==
  LET gross == GrossNav(total_assets, supply)
  IN  IF gross > high_water_mark
        THEN ((gross - high_water_mark) * supply) \div NAV_PRECISION
        ELSE 0

Fee(total_assets, profit, rates, elapsed) ==
  ManagementFee(total_assets, rates.management, elapsed)
    + PerformanceFee(profit, rates.performance)

Mutant_FeeShares(fee, total_fee, total_assets, supply) ==
  IF total_fee = 0 THEN 0
  ELSE (fee * supply + total_assets - total_fee - 1) \div (total_assets - total_fee)

\* Shares that dilute the supply by the fee.
FeeShares(fee, total_fee, total_assets, supply) ==
  IF total_fee = 0 THEN 0 ELSE (fee * supply) \div (total_assets - total_fee)

\* The fees a NAV update owes to the manager and to the platform.
OwedFees(total_assets, supply, high_water_mark, elapsed, manager, platform) ==
  LET profit == EligibleProfit(total_assets, supply, high_water_mark)
  IN  [manager  |-> Fee(total_assets, profit, manager, elapsed),
       platform |-> Fee(total_assets, profit, platform, elapsed)]

TotalFee(owed) == owed.manager + owed.platform

\* The fee shares and the NAV of an update that owes these fees, for fees that
\* are zero or below total_assets.
NavSettlement(total_assets, supply, owed) ==
  LET manager  == FeeShares(owed.manager, TotalFee(owed), total_assets, supply)
      platform == FeeShares(owed.platform, TotalFee(owed), total_assets, supply)
  IN  [manager_fee_shares  |-> manager,
       platform_fee_shares |-> platform,
       nav_per_share       |-> GrossNav(total_assets, supply + manager + platform)]

Mutant_WithinDeviation(nav_per_share, old, max_bps) ==
  LET max_deviation == (old * max_bps) \div MAX_BPS
  IN  old = 0 \/ nav_per_share \in (old - max_deviation) .. (old + max_deviation)

\* The move of a NAV posted by the updater is bounded.
WithinDeviation(nav_per_share, old, max_bps) ==
  LET max_deviation == (old * max_bps) \div MAX_BPS
  IN  nav_per_share \in (old - max_deviation) .. (old + max_deviation)
=============================================================================
