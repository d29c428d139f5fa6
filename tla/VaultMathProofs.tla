---------------------------- MODULE VaultMathProofs ----------------------------
(***************************************************************************)
(* Facts about the arithmetic of a vault, for every value of its constants. *)
(* Every one of them is about the direction of a division that rounds down. *)
(***************************************************************************)
EXTENDS VaultMath, Totals, FiniteSetTheorems, TLAPS

\* A division rounds down to a natural number: at most the exact quotient.
LEMMA DivisionRoundsDown ==
  ASSUME NEW a \in Nat, NEW b \in Nat \ {0}
  PROVE  /\ a \div b \in Nat
         /\ (a \div b) * b <= a
         /\ a < (a \div b) * b + b
BY SMT

\* A division never exceeds a bound on its exact quotient.
LEMMA DivisionIsMonotone ==
  ASSUME NEW a \in Nat, NEW b \in Nat \ {0}, NEW q \in Nat, q * b <= a
  PROVE  q <= a \div b
<1>1. a \div b \in Nat /\ a < (a \div b) * b + b
  BY DivisionRoundsDown
<1>2. ASSUME a \div b < q PROVE FALSE
  <2>1. (a \div b) + 1 <= q
    BY <1>1, <1>2
  <2>2. ((a \div b) + 1) * b <= q * b
    BY <1>1, <2>1, SMT
  <2> QED BY <1>1, <2>2, SMT
<1> QED BY <1>1, <1>2

\* A positive factor cancels.
LEMMA FactorCancels ==
  ASSUME NEW x \in Int, NEW y \in Int, NEW b \in Nat \ {0}, x * b <= y * b
  PROVE  x <= y
<1>1. ASSUME y < x PROVE FALSE
  <2>1. y + 1 <= x
    BY <1>1
  <2>2. (y + 1) * b <= x * b
    BY <2>1, SMT
  <2> QED BY <2>2, SMT
<1> QED BY <1>1

\* A later time is not in an earlier epoch.
LEMMA EpochIsMonotone ==
  ASSUME NEW s \in Nat, NEW t \in Nat, s <= t
  PROVE  Epoch(s) \in Nat /\ Epoch(t) \in Nat /\ Epoch(s) <= Epoch(t)
<1>1. EPOCH_DURATION \in Nat \ {0}
  BY MathAssumption
<1>2. (s \div EPOCH_DURATION) * EPOCH_DURATION <= t
  BY <1>1, DivisionRoundsDown
<1> QED BY <1>1, <1>2, DivisionRoundsDown, DivisionIsMonotone DEF Epoch

-----------------------------------------------------------------------------
(* Settlement. *)

\* Shares minted for a deposit are worth at most what was deposited.
LEMMA SharesForIsCovered ==
  ASSUME NEW amount \in Nat, NEW nav_per_share \in Nat \ {0}
  PROVE  /\ SharesFor(amount, nav_per_share) \in Nat
         /\ SharesFor(amount, nav_per_share) * nav_per_share <= amount * NAV_PRECISION
<1>1. amount * NAV_PRECISION \in Nat
  BY MathAssumption
<1> QED BY <1>1, DivisionRoundsDown DEF SharesFor

\* Tokens paid for redeemed shares are at most what the shares are worth.
LEMMA AssetsForIsCovered ==
  ASSUME NEW shares \in Nat, NEW nav_per_share \in Nat
  PROVE  /\ AssetsFor(shares, nav_per_share) \in Nat
         /\ AssetsFor(shares, nav_per_share) * NAV_PRECISION <= shares * nav_per_share
<1>1. shares * nav_per_share \in Nat /\ NAV_PRECISION \in Nat \ {0}
  BY MathAssumption
<1> QED BY <1>1, DivisionRoundsDown DEF AssetsFor

\* A balance that covers the value of the shares covers the payment.
LEMMA AssetsForFitsIn ==
  ASSUME NEW shares \in Nat, NEW nav_per_share \in Nat, NEW balance \in Nat,
         shares * nav_per_share <= balance * NAV_PRECISION
  PROVE  AssetsFor(shares, nav_per_share) <= balance
<1>1. NAV_PRECISION \in Nat \ {0}
  BY MathAssumption
<1>2. AssetsFor(shares, nav_per_share) \in Nat
  BY AssetsForIsCovered
<1>3. AssetsFor(shares, nav_per_share) * NAV_PRECISION <= shares * nav_per_share
  BY AssetsForIsCovered
<1>4. AssetsFor(shares, nav_per_share) * NAV_PRECISION <= balance * NAV_PRECISION
  BY <1>1, <1>2, <1>3
<1> QED BY <1>1, <1>2, <1>4, FactorCancels

-----------------------------------------------------------------------------
(* Fees. *)

Rates == [performance : Nat, management : Nat]

\* The gain above the mark is a natural number, and charging all of it leaves
\* the supply worth at least the mark.
LEMMA EligibleProfitIsAboveMark ==
  ASSUME NEW total_assets \in Nat, NEW supply \in Nat \ {0}, NEW high_water_mark \in Nat
  PROVE  LET profit == EligibleProfit(total_assets, supply, high_water_mark)
         IN  /\ profit \in Nat
             /\ high_water_mark * supply <= total_assets * NAV_PRECISION
                  => high_water_mark * supply + profit * NAV_PRECISION
                       <= total_assets * NAV_PRECISION
<1> DEFINE gross == GrossNav(total_assets, supply)
           profit == EligibleProfit(total_assets, supply, high_water_mark)
           value == (gross - high_water_mark) * supply
<1>1. NAV_PRECISION \in Nat \ {0} /\ total_assets * NAV_PRECISION \in Nat
  BY MathAssumption
<1>2. gross \in Nat /\ gross * supply <= total_assets * NAV_PRECISION
  BY <1>1, DivisionRoundsDown DEF GrossNav
<1>3. CASE gross > high_water_mark
  <2>1. value \in Nat
    BY <1>2, <1>3
  <2>2. profit = value \div NAV_PRECISION
    BY <1>3 DEF EligibleProfit
  <2>3. profit \in Nat /\ profit * NAV_PRECISION <= value
    BY <1>1, <2>1, <2>2, DivisionRoundsDown
  <2>4. value = gross * supply - high_water_mark * supply
    BY <1>2, SMT
  <2>5. /\ gross * supply \in Nat /\ high_water_mark * supply \in Nat
        /\ profit * NAV_PRECISION \in Nat
    BY <1>1, <1>2, <2>3
  <2>6. high_water_mark * supply + profit * NAV_PRECISION <= total_assets * NAV_PRECISION
    BY <1>1, <1>2, <2>3, <2>4, <2>5
  <2> QED BY <2>3, <2>6
<1>4. CASE ~(gross > high_water_mark)
  <2>1. profit = 0
    BY <1>4 DEF EligibleProfit
  <2> QED BY <1>1, <2>1
<1> QED BY <1>3, <1>4

\* A performance fee is at most its part of the profit.
LEMMA PerformanceFeeIsCovered ==
  ASSUME NEW profit \in Nat, NEW fee_bps \in Nat
  PROVE  /\ PerformanceFee(profit, fee_bps) \in Nat
         /\ PerformanceFee(profit, fee_bps) * MAX_BPS <= profit * fee_bps
<1>1. profit * fee_bps \in Nat /\ MAX_BPS \in Nat \ {0}
  BY MathAssumption
<1> QED BY <1>1, DivisionRoundsDown DEF PerformanceFee

\* The management fee is at most its share of the assets, before rounding.
LEMMA ManagementFeeIsCovered ==
  ASSUME NEW total_assets \in Nat, NEW fee_bps \in Nat, NEW elapsed \in Nat
  PROVE  /\ ManagementFee(total_assets, fee_bps, elapsed) \in Nat
         /\ ManagementFee(total_assets, fee_bps, elapsed) * (SECONDS_PER_YEAR * MAX_BPS)
              <= total_assets * fee_bps * elapsed
<1>1. SECONDS_PER_YEAR \in Nat \ {0} /\ MAX_BPS \in Nat \ {0}
  BY MathAssumption
<1>2. total_assets * fee_bps * elapsed \in Nat /\ SECONDS_PER_YEAR * MAX_BPS \in Nat \ {0}
  BY <1>1, SMT
<1> QED BY <1>2, DivisionRoundsDown DEF ManagementFee

\* A fee is a natural number.
LEMMA FeeIsNat ==
  ASSUME NEW total_assets \in Nat, NEW profit \in Nat, NEW rates \in Rates, NEW elapsed \in Nat
  PROVE  Fee(total_assets, profit, rates, elapsed) \in Nat
<1>1. rates.performance \in Nat /\ rates.management \in Nat
  BY DEF Rates
<1>2. /\ ManagementFee(total_assets, rates.management, elapsed) \in Nat
      /\ PerformanceFee(profit, rates.performance) \in Nat
  BY <1>1, ManagementFeeIsCovered, PerformanceFeeIsCovered
<1> QED BY <1>2 DEF Fee

\* Without a management rate a fee is the performance fee.
LEMMA FeeWithoutManagement ==
  ASSUME NEW total_assets \in Nat, NEW profit \in Nat, NEW rates \in Rates, NEW elapsed \in Nat,
         rates.management = 0
  PROVE  Fee(total_assets, profit, rates, elapsed) = PerformanceFee(profit, rates.performance)
<1> DEFINE fee == ManagementFee(total_assets, rates.management, elapsed)
           charged == total_assets * rates.management * elapsed
           year == SECONDS_PER_YEAR * MAX_BPS
<1>1. year \in Nat \ {0}
  BY MathAssumption, SMT
<1>2. fee \in Nat /\ fee * year <= charged
  BY ManagementFeeIsCovered DEF Rates
<1>3. charged = 0
  BY SMT
<1>4. PerformanceFee(profit, rates.performance) \in Nat
  BY PerformanceFeeIsCovered DEF Rates
<1>5. Fee(total_assets, profit, rates, elapsed) = fee + PerformanceFee(profit, rates.performance)
  BY DEF Fee
<1> HIDE DEF fee, year, charged
<1>6. fee = 0
  <2>1. fee * year <= 0 * year
    BY <1>1, <1>2, <1>3, SMT
  <2>2. fee <= 0
    BY <1>1, <1>2, <2>1, FactorCancels
  <2> QED BY <1>2, <2>2
<1> QED BY <1>4, <1>5, <1>6

\* What an update owes to the manager and to the platform.
LEMMA OwedFeesAreNat ==
  ASSUME NEW total_assets \in Nat, NEW supply \in Nat \ {0}, NEW high_water_mark \in Nat,
         NEW elapsed \in Nat, NEW manager \in Rates, NEW platform \in Rates
  PROVE  LET owed == OwedFees(total_assets, supply, high_water_mark, elapsed, manager, platform)
         IN  owed \in [manager : Nat, platform : Nat] /\ TotalFee(owed) \in Nat
<1>1. EligibleProfit(total_assets, supply, high_water_mark) \in Nat
  BY EligibleProfitIsAboveMark
<1> DEFINE profit == EligibleProfit(total_assets, supply, high_water_mark)
<1>2. /\ Fee(total_assets, profit, manager, elapsed) \in Nat
      /\ Fee(total_assets, profit, platform, elapsed) \in Nat
  BY <1>1, FeeIsNat
<1> HIDE DEF profit
<1>3. OwedFees(total_assets, supply, high_water_mark, elapsed, manager, platform)
        = [manager  |-> Fee(total_assets, profit, manager, elapsed),
           platform |-> Fee(total_assets, profit, platform, elapsed)]
  BY DEF OwedFees, profit
<1> QED BY <1>2, <1>3 DEF TotalFee

\* The shares of a fee are at most the fee's part of the supply.
LEMMA FeeSharesAreCovered ==
  ASSUME NEW fee \in Nat, NEW total_fee \in Nat, NEW total_assets \in Nat, NEW supply \in Nat,
         total_fee = 0 \/ total_fee < total_assets
  PROVE  /\ FeeShares(fee, total_fee, total_assets, supply) \in Nat
         /\ FeeShares(fee, total_fee, total_assets, supply) * (total_assets - total_fee)
              <= fee * supply
<1>1. fee * supply \in Nat
  OBVIOUS
<1>2. CASE total_fee = 0
  <2>1. FeeShares(fee, total_fee, total_assets, supply) = 0
    BY <1>2 DEF FeeShares
  <2> QED BY <1>1, <1>2, <2>1, SMT
<1>3. CASE total_fee # 0
  <2>1. total_assets - total_fee \in Nat \ {0}
    BY <1>3
  <2>2. FeeShares(fee, total_fee, total_assets, supply)
          = (fee * supply) \div (total_assets - total_fee)
    BY <1>3 DEF FeeShares
  <2> QED BY <1>1, <2>1, <2>2, DivisionRoundsDown
<1> QED BY <1>2, <1>3

FeesAreSettled(total_assets, owed) ==
  /\ owed \in [manager : Nat, platform : Nat]
  /\ TotalFee(owed) = 0 \/ TotalFee(owed) < total_assets

AccruedShares(settlement) == settlement.manager_fee_shares + settlement.platform_fee_shares

\* The fee shares of an update are natural numbers.
LEMMA SettledFeesAreNat ==
  ASSUME NEW total_assets \in Nat, NEW owed, FeesAreSettled(total_assets, owed)
  PROVE  /\ TotalFee(owed) \in Nat
         /\ TotalFee(owed) = 0 \/ TotalFee(owed) < total_assets
BY DEF FeesAreSettled, TotalFee

\* The NAV of an update is backed by the total it reports, and the dilution is
\* at most the fees' part of that total.
LEMMA NavSettlementIsBacked ==
  ASSUME NEW total_assets \in Nat, NEW supply \in Nat \ {0}, NEW owed,
         FeesAreSettled(total_assets, owed)
  PROVE  LET settlement == NavSettlement(total_assets, supply, owed)
             diluted == supply + AccruedShares(settlement)
         IN  /\ settlement.manager_fee_shares \in Nat /\ settlement.platform_fee_shares \in Nat
             /\ settlement.nav_per_share \in Nat
             /\ settlement.nav_per_share = GrossNav(total_assets, diluted)
             /\ diluted * settlement.nav_per_share <= total_assets * NAV_PRECISION
             /\ AccruedShares(settlement) * (total_assets - TotalFee(owed))
                  <= TotalFee(owed) * supply
             /\ TotalFee(owed) = 0 => AccruedShares(settlement) = 0
<1> DEFINE m == FeeShares(owed.manager, TotalFee(owed), total_assets, supply)
           p == FeeShares(owed.platform, TotalFee(owed), total_assets, supply)
           settlement == NavSettlement(total_assets, supply, owed)
           rest == total_assets - TotalFee(owed)
<1>1. /\ owed.manager \in Nat /\ owed.platform \in Nat /\ TotalFee(owed) \in Nat
      /\ TotalFee(owed) = owed.manager + owed.platform
      /\ NAV_PRECISION \in Nat
      /\ TotalFee(owed) = 0 \/ TotalFee(owed) < total_assets
  BY MathAssumption DEF FeesAreSettled, TotalFee
<1>2. /\ m \in Nat /\ p \in Nat
      /\ m * rest <= owed.manager * supply /\ p * rest <= owed.platform * supply
  BY <1>1, FeeSharesAreCovered
<1>3. /\ settlement.manager_fee_shares = m /\ settlement.platform_fee_shares = p
      /\ settlement.nav_per_share = GrossNav(total_assets, supply + m + p)
  BY DEF NavSettlement
<1>4. TotalFee(owed) = 0 => m = 0 /\ p = 0
  BY DEF FeeShares
<1> HIDE DEF m, p, settlement
<1>5. (m + p) * rest <= TotalFee(owed) * supply
  BY <1>1, <1>2, SMT
<1>6. /\ supply + m + p \in Nat \ {0} /\ total_assets * NAV_PRECISION \in Nat
      /\ supply + m + p = supply + (m + p)
  BY <1>1, <1>2
<1>7. /\ GrossNav(total_assets, supply + m + p) \in Nat
      /\ GrossNav(total_assets, supply + m + p) * (supply + m + p)
           <= total_assets * NAV_PRECISION
  BY <1>6, DivisionRoundsDown DEF GrossNav
<1>8. AccruedShares(settlement) = m + p
  BY <1>3 DEF AccruedShares
<1>9. (supply + (m + p)) * GrossNav(total_assets, supply + (m + p))
        <= total_assets * NAV_PRECISION
  BY <1>6, <1>7, SMT
<1> QED BY <1>2, <1>3, <1>4, <1>5, <1>6, <1>7, <1>8, <1>9 DEF settlement

\* The accrued shares are worth at most the fees they settle.
LEMMA AccruedSharesAreWorthAtMostFees ==
  ASSUME NEW total_assets \in Nat, NEW supply \in Nat \ {0}, NEW owed,
         FeesAreSettled(total_assets, owed)
  PROVE  LET settlement == NavSettlement(total_assets, supply, owed)
         IN  AccruedShares(settlement) * settlement.nav_per_share
               <= TotalFee(owed) * NAV_PRECISION
<1> DEFINE settlement == NavSettlement(total_assets, supply, owed)
           accrued == AccruedShares(settlement)
           nav == settlement.nav_per_share
           fee == TotalFee(owed)
<1>1. /\ accrued \in Nat /\ nav \in Nat /\ fee \in Nat /\ NAV_PRECISION \in Nat \ {0}
      /\ fee = 0 \/ fee < total_assets
  <2>1. accrued \in Nat /\ nav \in Nat
    BY NavSettlementIsBacked DEF AccruedShares
  <2> QED BY <2>1, SettledFeesAreNat, MathAssumption
<1>2. /\ (supply + accrued) * nav <= total_assets * NAV_PRECISION
      /\ accrued * (total_assets - fee) <= fee * supply
      /\ fee = 0 => accrued = 0
  BY NavSettlementIsBacked
<1> HIDE DEF accrued, nav, fee
<1>3. CASE fee = 0
  <2>1. accrued * nav = 0 /\ fee * NAV_PRECISION = 0
    BY <1>1, <1>2, <1>3, SMT
  <2> QED BY <2>1 DEF accrued, nav, fee
<1>4. CASE fee # 0
  <2>1. accrued * total_assets <= fee * (supply + accrued)
    BY <1>1, <1>2, SMT
  <2>2. (accrued * total_assets) * nav <= (fee * (supply + accrued)) * nav
    BY <1>1, <2>1, SMT
  <2>3. fee * ((supply + accrued) * nav) <= fee * (total_assets * NAV_PRECISION)
    BY <1>1, <1>2, SMT
  <2>4. (accrued * nav) * total_assets <= (fee * NAV_PRECISION) * total_assets
    BY <1>1, <2>2, <2>3, SMT
  <2>5. total_assets \in Nat \ {0} /\ accrued * nav \in Int /\ fee * NAV_PRECISION \in Int
    BY <1>1, <1>4
  <2>6. accrued * nav <= fee * NAV_PRECISION
    BY <2>4, <2>5, FactorCancels
  <2> QED BY <2>6 DEF accrued, nav, fee
<1> QED BY <1>3, <1>4

\* A settlement whose fees are at most the gain above the mark posts a NAV at
\* or above the mark.
LEMMA FeesWithinProfitSpareMark ==
  ASSUME NEW total_assets \in Nat, NEW supply \in Nat \ {0}, NEW owed,
         FeesAreSettled(total_assets, owed),
         NEW high_water_mark \in Nat,
         high_water_mark * supply + TotalFee(owed) * NAV_PRECISION
           <= total_assets * NAV_PRECISION
  PROVE  NavSettlement(total_assets, supply, owed).nav_per_share >= high_water_mark
<1> DEFINE settlement == NavSettlement(total_assets, supply, owed)
           accrued == AccruedShares(settlement)
           fee == TotalFee(owed)
           rest == total_assets - fee
<1>1. /\ accrued \in Nat /\ fee \in Nat /\ NAV_PRECISION \in Nat \ {0}
      /\ fee = 0 \/ fee < total_assets
  <2>1. accrued \in Nat
    BY NavSettlementIsBacked DEF AccruedShares
  <2> QED BY <2>1, SettledFeesAreNat, MathAssumption
<1>2. /\ settlement.nav_per_share = (total_assets * NAV_PRECISION) \div (supply + accrued)
      /\ accrued * rest <= fee * supply
      /\ fee = 0 => accrued = 0
      /\ high_water_mark * supply + fee * NAV_PRECISION <= total_assets * NAV_PRECISION
  BY NavSettlementIsBacked DEF GrossNav
<1> HIDE DEF accrued, fee
<1>3. high_water_mark * (supply + accrued) <= total_assets * NAV_PRECISION
  <2>1. CASE fee = 0
    <3>1. accrued = 0 /\ supply + accrued = supply /\ fee * NAV_PRECISION = 0
      BY <1>1, <1>2, <2>1
    <3> QED BY <1>1, <1>2, <3>1
  <2>2. CASE fee # 0
    <3>1. high_water_mark * supply <= rest * NAV_PRECISION
      BY <1>1, <1>2, SMT
    <3>2. rest \in Nat \ {0} /\ total_assets = rest + fee
      BY <1>1, <2>2
    <3> HIDE DEF rest
    <3>3. (supply + accrued) * rest <= supply * total_assets
      BY <1>1, <1>2, <3>2, SMT
    <3>4. high_water_mark * ((supply + accrued) * rest) <= high_water_mark * (supply * total_assets)
      BY <1>1, <3>2, <3>3, SMT
    <3>5. (high_water_mark * supply) * total_assets <= (rest * NAV_PRECISION) * total_assets
      BY <1>1, <3>1, <3>2, SMT
    <3>6. (high_water_mark * (supply + accrued)) * rest <= (total_assets * NAV_PRECISION) * rest
      BY <1>1, <3>2, <3>4, <3>5, SMT
    <3>7. /\ high_water_mark * (supply + accrued) \in Int
          /\ total_assets * NAV_PRECISION \in Int
      BY <1>1
    <3> QED BY <3>2, <3>6, <3>7, FactorCancels
  <2> QED BY <2>1, <2>2
<1>4. supply + accrued \in Nat \ {0} /\ total_assets * NAV_PRECISION \in Nat
  BY <1>1
<1> QED BY <1>2, <1>3, <1>4, DivisionIsMonotone

\* Without management fees, performance fees at rates of at most 100% together
\* are at most the gain above the mark.
LEMMA PerformanceFeesAreWithinProfit ==
  ASSUME NEW total_assets \in Nat, NEW supply \in Nat \ {0}, NEW high_water_mark \in Nat,
         NEW elapsed \in Nat, NEW manager \in Rates, NEW platform \in Rates,
         manager.management = 0, platform.management = 0,
         manager.performance + platform.performance <= MAX_BPS
  PROVE  TotalFee(OwedFees(total_assets, supply, high_water_mark, elapsed, manager, platform))
           <= EligibleProfit(total_assets, supply, high_water_mark)
<1> DEFINE profit == EligibleProfit(total_assets, supply, high_water_mark)
           m == PerformanceFee(profit, manager.performance)
           p == PerformanceFee(profit, platform.performance)
<1>1. profit \in Nat
  BY EligibleProfitIsAboveMark
<1>3. m \in Nat /\ p \in Nat
  BY <1>1, PerformanceFeeIsCovered DEF Rates
<1>4. /\ Fee(total_assets, profit, manager, elapsed) = m
      /\ Fee(total_assets, profit, platform, elapsed) = p
  BY <1>1, FeeWithoutManagement
<1>2. OwedFees(total_assets, supply, high_water_mark, elapsed, manager, platform)
        = [manager  |-> Fee(total_assets, profit, manager, elapsed),
           platform |-> Fee(total_assets, profit, platform, elapsed)]
  BY DEF OwedFees, profit
<1> HIDE DEF profit
<1> DEFINE r == manager.performance
           q == platform.performance
<1>5. r \in Nat /\ q \in Nat /\ r + q <= MAX_BPS /\ MAX_BPS \in Nat \ {0}
  BY MathAssumption DEF Rates
<1>6. m * MAX_BPS <= profit * r /\ p * MAX_BPS <= profit * q
  BY <1>1, <1>5, PerformanceFeeIsCovered
<1> HIDE DEF m, p, r, q
<1>7. (m + p) * MAX_BPS <= profit * MAX_BPS
  <2>1. profit * (r + q) <= profit * MAX_BPS
    BY <1>1, <1>5, SMT
  <2>2. (m + p) * MAX_BPS <= profit * (r + q)
    BY <1>1, <1>3, <1>5, <1>6, SMT
  <2>3. (m + p) * MAX_BPS \in Nat /\ profit * (r + q) \in Nat /\ profit * MAX_BPS \in Nat
    BY <1>1, <1>3, <1>5
  <2> QED BY <2>1, <2>2, <2>3
<1>8. m + p <= profit
  BY <1>1, <1>3, <1>5, <1>7, FactorCancels
<1>9. TotalFee(OwedFees(total_assets, supply, high_water_mark, elapsed, manager, platform)) = m + p
  BY <1>2, <1>4 DEF TotalFee
<1> QED BY <1>8, <1>9 DEF profit

\* From a zero NAV the updater posts only a zero NAV.
LEMMA NoDeviationFromZero ==
  ASSUME NEW nav_per_share, NEW max_bps \in Nat, WithinDeviation(nav_per_share, 0, max_bps)
  PROVE  nav_per_share = 0
<1>1. 0 * max_bps = 0 /\ MAX_BPS \in Nat \ {0}
  BY MathAssumption
<1>2. 0 \div MAX_BPS = 0
  <2>1. 0 \div MAX_BPS \in Nat /\ (0 \div MAX_BPS) * MAX_BPS <= 0 * MAX_BPS
    BY <1>1, DivisionRoundsDown
  <2>2. 0 \div MAX_BPS <= 0
    BY <1>1, <2>1, FactorCancels
  <2> QED BY <2>1, <2>2
<1> QED BY <1>1, <1>2 DEF WithinDeviation

-----------------------------------------------------------------------------
(* Totals. *)

\* A key stands for as many units as its value says.
LEMMA UnitsOfCount ==
  ASSUME NEW x, NEW n \in Nat
  PROVE  IsFiniteSet(UnitsOf(x, n)) /\ Cardinality(UnitsOf(x, n)) = n
<1>1. IsFiniteSet({x}) /\ Cardinality({x}) = 1
  BY FS_Singleton
<1>2. IsFiniteSet(1 .. n) /\ Cardinality(1 .. n) = n
  BY FS_Interval
<1>3. /\ IsFiniteSet({x} \X (1 .. n))
      /\ Cardinality({x} \X (1 .. n)) = Cardinality({x}) * Cardinality(1 .. n)
  BY <1>1, <1>2, FS_Product
<1> QED BY <1>1, <1>2, <1>3 DEF UnitsOf

\* Finitely many keys have finitely many units.
LEMMA UnitsAreFinite ==
  ASSUME NEW S, IsFiniteSet(S), NEW f \in [S -> Nat]
  PROVE  IsFiniteSet(Units(f))
<1> DEFINE units == [x \in S |-> UnitsOf(x, f[x])]
           T == {units[x] : x \in S}
<1>1. units \in Surjection(S, T)
  BY DEF Surjection
<1>2. IsFiniteSet(T)
  BY <1>1, FS_Surjection
<1>3. \A U \in T : IsFiniteSet(U)
  BY UnitsOfCount
<1>4. IsFiniteSet(UNION T)
  BY <1>2, <1>3, FS_UNION
<1>5. Units(f) = UNION T
  BY DEF Units
<1> QED BY <1>4, <1>5

\* The units of the keys other than x.
OtherUnits(f, x) == Units(f) \ UnitsOf(x, f[x])

\* A total is the value of one key and the units of the others.
LEMMA TotalSplits ==
  ASSUME NEW S, IsFiniteSet(S), NEW f \in [S -> Nat], NEW x \in S
  PROVE  /\ Cardinality(OtherUnits(f, x)) \in Nat
         /\ Total(f) = f[x] + Cardinality(OtherUnits(f, x))
<1>1. IsFiniteSet(Units(f))
  BY UnitsAreFinite
<1>2. IsFiniteSet(UnitsOf(x, f[x])) /\ Cardinality(UnitsOf(x, f[x])) = f[x]
  BY UnitsOfCount
<1>3. Units(f) \cap UnitsOf(x, f[x]) = UnitsOf(x, f[x])
  BY DEF Units
<1>4. /\ IsFiniteSet(OtherUnits(f, x))
      /\ Cardinality(OtherUnits(f, x)) = Cardinality(Units(f)) - f[x]
  <2>1. /\ IsFiniteSet(Units(f) \ UnitsOf(x, f[x]))
        /\ Cardinality(Units(f) \ UnitsOf(x, f[x]))
             = Cardinality(Units(f)) - Cardinality(Units(f) \cap UnitsOf(x, f[x]))
    BY <1>1, FS_Difference
  <2> QED BY <1>2, <1>3, <2>1 DEF OtherUnits
<1>5. Cardinality(OtherUnits(f, x)) \in Nat /\ Cardinality(Units(f)) \in Nat /\ f[x] \in Nat
  BY <1>1, <1>4, FS_CardinalityType
<1> QED BY <1>4, <1>5 DEF Total

\* The units of the other keys do not depend on the value of x.
LEMMA OtherUnitsKept ==
  ASSUME NEW S, NEW f \in [S -> Nat], NEW x \in S, NEW n \in Nat
  PROVE  OtherUnits([f EXCEPT ![x] = n], x) = OtherUnits(f, x)
<1> DEFINE g == [f EXCEPT ![x] = n]
           Others(h) == UNION {UnitsOf(y, h[y]) : y \in S \ {x}}
<1>1. ASSUME NEW h \in [S -> Nat] PROVE OtherUnits(h, x) = Others(h)
  BY <1>1 DEF OtherUnits, Units, UnitsOf
<1>2. g \in [S -> Nat] /\ \A y \in S \ {x} : g[y] = f[y]
  OBVIOUS
<1>3. Others(g) = Others(f)
  BY <1>2
<1> QED BY <1>1, <1>2, <1>3

\* Changing one value changes the total by the difference.
LEMMA TotalOfUpdate ==
  ASSUME NEW S, IsFiniteSet(S), NEW f \in [S -> Nat], NEW x \in S, NEW n \in Nat
  PROVE  Total([f EXCEPT ![x] = n]) = Total(f) - f[x] + n
<1> DEFINE g == [f EXCEPT ![x] = n]
<1>1. g \in [S -> Nat] /\ g[x] = n
  OBVIOUS
<1>2. Total(f) = f[x] + Cardinality(OtherUnits(f, x))
      /\ Cardinality(OtherUnits(f, x)) \in Nat
  BY TotalSplits
<1> HIDE DEF g
<1>3. Total(g) = n + Cardinality(OtherUnits(g, x))
  BY <1>1, TotalSplits
<1>4. OtherUnits(g, x) = OtherUnits(f, x)
  BY OtherUnitsKept DEF g
<1>5. f[x] \in Nat
  OBVIOUS
<1>6. Total(g) = Total(f) - f[x] + n
  BY <1>2, <1>3, <1>4, <1>5
<1> QED BY <1>6 DEF g

\* A total is a natural number that no single value exceeds.
LEMMA TotalBoundsValues ==
  ASSUME NEW S, IsFiniteSet(S), NEW f \in [S -> Nat]
  PROVE  /\ Total(f) \in Nat
         /\ \A x \in S : f[x] <= Total(f)
<1>1. Total(f) \in Nat
  BY UnitsAreFinite, FS_CardinalityType DEF Total
<1>2. ASSUME NEW x \in S PROVE f[x] <= Total(f)
  <2>1. f[x] \in Nat
    OBVIOUS
  <2> QED BY <2>1, TotalSplits
<1> QED BY <1>1, <1>2

\* The total of nothing is nothing.
LEMMA TotalOfZeros ==
  ASSUME NEW S
  PROVE  Total([x \in S |-> 0]) = 0
<1>1. \A x : UnitsOf(x, 0) = {}
  BY DEF UnitsOf
<1>2. Units([x \in S |-> 0]) = {}
  BY <1>1 DEF Units
<1> QED BY <1>2, FS_EmptySet DEF Total
=============================================================================
