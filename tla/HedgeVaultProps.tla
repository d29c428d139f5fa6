--------------------------- MODULE HedgeVaultProps ---------------------------
(***************************************************************************)
(* What one vault promises: the type invariant, the safety invariants and  *)
(* the action properties of HedgeVault.                                    *)
(***************************************************************************)
EXTENDS HedgeVault, Totals

Configs == [status : Statuses, platform_performance_fee_bps : Bps,
            platform_management_fee_bps : Bps, max_nav_deviation_bps : Bps,
            max_epoch_outflow_bps : Bps]
Books == [total_assets : U64, nav_per_share : U64, high_water_mark : U64,
          nav_epoch : Nat, last_nav_ts : Nat, pending_deposits : U64,
          pending_withdrawal_shares : U64, unclaimed_manager_fee_shares : U64,
          unclaimed_platform_fee_shares : U64, epoch_outflow : U64]
FeeSchedules == [performance_fee_bps : Bps, management_fee_bps : Bps,
                 pending_performance_fee_bps : Bps, pending_management_fee_bps : Bps,
                 fee_effective_ts : Nat]
Settings == [deposit_cap : U64, min_deposit : U64 \ {0}, min_withdrawal_shares : U64 \ {0},
             status : Statuses, deposit_paused : BOOLEAN, withdrawal_paused : BOOLEAN]
Requests == [amount : U64, epoch : Nat]

\* Every field stays within the width and the range the program gives it.
TypeOK ==
  /\ now \in Nat
  /\ config \in Configs /\ vault \in Books /\ fees \in FeeSchedules /\ params \in Settings
  /\ deposit_requests \in [Users -> Requests]
  /\ withdrawal_requests \in [Users -> Requests]
  /\ wallets \in [Users -> Nat]
  /\ share_balances \in [Users -> Nat]
  /\ deposit_escrow \in Nat /\ share_escrow \in Nat /\ idle \in Nat
  /\ share_supply \in U64

-----------------------------------------------------------------------------
(* The books. *)

\* The value the books hold above what all shares, minted and unclaimed, are
\* worth at the stored NAV, scaled by NAV_PRECISION.
Surplus == vault.total_assets * NAV_PRECISION - Supply * vault.nav_per_share

\* Redeeming every share at the stored NAV never takes more than the recorded
\* assets, so resolve_withdrawal never underflows total_assets.
SharesAreBacked == Surplus >= 0

BackingStep == vault'.nav_epoch = vault.nav_epoch => Surplus' >= Surplus

\* Between two NAV updates no instruction lowers the backing of the shares:
\* both directions of settlement round in favour of the vault, and a claim of
\* fee shares moves nothing.
BackingNeverErodes == [][BackingStep]_vars

\* What a user owns: tokens, with those of an open deposit request, and shares,
\* with those of an open withdrawal request and fee shares still to be claimed.
TokensOf(u) == wallets[u] + deposit_requests[u].amount

SharesOf(u) ==
  share_balances[u] + withdrawal_requests[u].amount
    + (IF u = Manager THEN vault.unclaimed_manager_fee_shares ELSE 0)
    + (IF u = Treasury THEN vault.unclaimed_platform_fee_shares ELSE 0)

\* Its value at the stored NAV, scaled by NAV_PRECISION.
Worth(u) == TokensOf(u) * NAV_PRECISION + SharesOf(u) * vault.nav_per_share

NoGainStep ==
  vault'.nav_epoch = vault.nav_epoch =>
    \A u \in Users : Worth(u)' > Worth(u) =>
      \E giver \in Users : Worth(u)' - Worth(u) <= Worth(giver) - Worth(giver)'

\* Between two NAV updates nobody gains at the stored NAV, other than by shares
\* that another user gives away: requesting, settling in either direction,
\* cancelling and claiming in any order are worth at most what they cost.
NobodyGainsBetweenNavs == [][NoGainStep]_vars

\* The stored NAV never exceeds the high water mark, which never falls below
\* its first value, also through the reset of an empty vault.
HighWaterMarkDominates ==
  /\ vault.nav_per_share <= vault.high_water_mark
  /\ NAV_PRECISION <= vault.high_water_mark

-----------------------------------------------------------------------------
(* Requests and token accounts. *)

Requested(open_requests) == Total([u \in Users |-> open_requests[u].amount])

\* The pending totals are the sums of the open requests, and the escrows hold
\* at least that much (more when somebody sends tokens to them directly).
RequestsAreEscrowed ==
  /\ Requested(deposit_requests) = vault.pending_deposits
  /\ Requested(withdrawal_requests) = vault.pending_withdrawal_shares
  /\ deposit_escrow >= vault.pending_deposits
  /\ share_escrow >= vault.pending_withdrawal_shares

\* The share supply is what the users and the share escrow hold: minting,
\* escrowing, redeeming, returning and burning never part the mint from the
\* balances, so the shares of a request can always be burnt.
SharesAddUp == Total(share_balances) + share_escrow = share_supply

\* The checks of a cancellation and of a rejection.
CanCancelDeposit(u) == DepositIsCancellable(deposit_requests[u]) /\ CanReleaseDeposit(u)
CanRejectDeposit(u) == IsOpen(deposit_requests[u]) /\ CanReleaseDeposit(u)
CanCancelWithdrawal(u) ==
  WithdrawalIsCancellable(withdrawal_requests[u]) /\ CanReleaseShares(u)
CanRejectWithdrawal(u) == IsOpen(withdrawal_requests[u]) /\ CanReleaseShares(u)

\* An open request can always be rejected by the admin, and until a NAV of a
\* later epoch than its own is posted its owner can cancel it: no pause, cap,
\* limit or sequence of other settlements takes that away.
RequestsCanBeUndone ==
  \A u \in Users :
    /\ IsOpen(deposit_requests[u]) => CanRejectDeposit(u)
    /\ IsOpen(withdrawal_requests[u]) => CanRejectWithdrawal(u)
    /\ IsOpen(deposit_requests[u]) /\ vault.nav_epoch <= deposit_requests[u].epoch
         => CanCancelDeposit(u)
    /\ IsOpen(withdrawal_requests[u]) /\ vault.nav_epoch <= withdrawal_requests[u].epoch
         => CanCancelWithdrawal(u)

\* A NAV of a later epoch than the request's own is posted.
Covered(request) == IsOpen(request) /\ vault.nav_epoch > request.epoch

\* What may hold a covered deposit: deposits are not open, the NAV is zero or
\* so high that it buys no share, or a result does not fit a u64.
DepositHeld(u) ==
  LET amount == deposit_requests[u].amount
      minted == SharesFor(amount, vault.nav_per_share)
  IN  \/ {config.status, params.status} # {"Normal"} \/ params.deposit_paused
      \/ vault.nav_per_share = 0
      \/ amount * NAV_PRECISION < vault.nav_per_share
      \/ ~({vault.total_assets + amount, share_supply + minted} \subseteq U64)

\* What may hold a covered withdrawal: withdrawals are not open, the vault is
\* short of idle tokens, or the outflow of the epoch does not fit a u64.
WithdrawalHeld(u) ==
  LET amount == withdrawal_requests[u].amount
  IN  \/ "Paused" \in {config.status, params.status} \/ params.withdrawal_paused
      \/ idle * NAV_PRECISION < amount * vault.nav_per_share
      \/ vault.epoch_outflow + AssetsFor(amount, vault.nav_per_share) \notin U64

\* Once a NAV of a later epoch is posted, a request settles unless one of those
\* conditions holds it: no checked subtraction, and no balance other than the
\* idle one, can make its resolution fail.
CoveredRequestsSettle ==
  \A u \in Users :
    /\ Covered(deposit_requests[u]) /\ ~DepositHeld(u) => CanResolveDeposit(u)
    /\ Covered(withdrawal_requests[u]) /\ ~WithdrawalHeld(u) => CanResolveWithdrawal(u)

\* The owner never holds a choice between two prices: a request that can be
\* settled cannot be cancelled, and one that cannot be cancelled was priced by
\* a NAV posted after the epoch it was made in.
NoOptionOnPrice ==
  \A u \in Users :
    /\ ~(CanCancelDeposit(u) /\ CanResolveDeposit(u))
    /\ ~(CanCancelWithdrawal(u) /\ CanResolveWithdrawal(u))
    /\ IsOpen(deposit_requests[u]) /\ ~CanCancelDeposit(u)
         => Epoch(vault.last_nav_ts) > deposit_requests[u].epoch
    /\ IsOpen(withdrawal_requests[u]) /\ ~CanCancelWithdrawal(u)
         => Epoch(vault.last_nav_ts) > withdrawal_requests[u].epoch

\* Neither the last NAV nor any request is dated in the future, and the epoch
\* of the last NAV had begun when it was posted: a NAV that settles a request
\* was posted after the whole epoch of the request.
EpochsAreOrdered ==
  /\ vault.last_nav_ts <= now
  /\ vault.nav_epoch <= Epoch(vault.last_nav_ts)
  /\ \A u \in Users : /\ deposit_requests[u].epoch <= Epoch(now)
                      /\ withdrawal_requests[u].epoch <= Epoch(now)

BlindStep ==
  \A u \in Users :
    /\ deposit_requests'[u].amount > deposit_requests[u].amount
         => vault.nav_epoch <= deposit_requests'[u].epoch
    /\ withdrawal_requests'[u].amount > withdrawal_requests[u].amount
         => vault.nav_epoch <= withdrawal_requests'[u].epoch

\* Nobody joins a request whose price is already known: whatever a request
\* gains, it gains while no NAV that settles it is posted.
RequestsAreBlind == [][BlindStep]_vars

-----------------------------------------------------------------------------
(* Refinement.  A request is priced once a NAV of a later epoch is posted.   *)

AbstractRequests(open_requests) ==
  [u \in Users |->
     [amount |-> open_requests[u].amount,
      priced |-> IsOpen(open_requests[u]) /\ vault.nav_epoch > open_requests[u].epoch]]

Async == INSTANCE AsyncVault WITH
  deposits <- AbstractRequests(deposit_requests),
  withdrawals <- AbstractRequests(withdrawal_requests),
  price <- vault.nav_per_share,
  tokens <- wallets,
  shares <- share_balances

\* Every behaviour of the vault is one of AsyncVault: epochs, escrows, pauses
\* and fees never let a request be changed, lost or settled off the posted price.
ImplementsAsyncVault == Async!Spec

-----------------------------------------------------------------------------
(* NAV updates and fees. *)

NavPosted == vault'.nav_epoch # vault.nav_epoch

ZeroNavStep ==
  /\ vault.nav_per_share = 0 /\ Supply > 0
  /\ \E total_assets \in ReportedTotals : NavUpdate(total_assets)
  => vault'.nav_per_share = 0

\* A zero NAV is final for the updater: with shares outstanding, whatever total
\* is reported, only the admin's override leaves it.
ZeroNavNeedsOverride == [][ZeroNavStep]_vars

GainStep ==
  NavPosted /\ Supply' > 0
    => GrossNav(vault'.total_assets, Supply') <= vault'.high_water_mark

\* A gain is charged once: right after an update, nothing is left above the
\* high water mark, so posting the same total again owes no performance fee.
GainsAreChargedOnce == [][GainStep]_vars

SparePrincipalStep ==
  /\ NavPosted /\ Supply > 0
  /\ fees.management_fee_bps = 0 /\ config.platform_management_fee_bps = 0
  /\ fees.performance_fee_bps + config.platform_performance_fee_bps <= MAX_BPS
  /\ vault'.total_assets * NAV_PRECISION >= vault.high_water_mark * Supply
  => vault'.nav_per_share >= vault.high_water_mark

\* With no management fee and performance rates of at most 100% together, fees
\* take from the gain only: a NAV that starts above the mark settles at or above it.
PerformanceFeesSparePrincipal == [][SparePrincipalStep]_vars

FeeSharesStep ==
  NavPosted /\ Supply > 0
    => (Supply' - Supply) * vault'.nav_per_share
         <= TotalFee(FeesOwed(vault'.total_assets)) * NAV_PRECISION

\* The shares accrued by an update are worth at most the fees it owes, at the
\* NAV it posts.
FeeSharesWorthAtMostFees == [][FeeSharesStep]_vars

-----------------------------------------------------------------------------
(* Pauses. *)

\* While the protocol or the vault is paused no instruction of the program
\* spends the idle balance, and shares are minted only to claim accrued fees.
PauseFreezesTheVault ==
  []["Paused" \in {config.status, params.status}
     => idle' >= idle /\ (~NavPosted => Supply' <= Supply)]_vars
=============================================================================
