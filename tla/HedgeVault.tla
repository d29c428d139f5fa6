------------------------------ MODULE HedgeVault ------------------------------
(***************************************************************************)
(* One vault of the hedge_vault program: its books, its deposit and        *)
(* withdrawal requests, its token accounts and the two pause switches that *)
(* gate them.  An action is one instruction, executed atomically by the    *)
(* runtime; an instruction that fails any check has no effect, so every    *)
(* check is a conjunct of its action.  Instructions of depositors, of the  *)
(* resolvers, of the manager (vault authority), the NAV updater, the admin, *)
(* the guardian and the treasury interleave in any order.  Accounts are    *)
(* addressed by the seeds the program validates, so address checks are the *)
(* indexing of the functions below, and signer checks are the choice of    *)
(* the action.                                                             *)
(*                                                                         *)
(* The Vault account is split in three records: vault (the books), fees    *)
(* (the manager's fee schedule) and params (the manager's settings).       *)
(***************************************************************************)
EXTENDS VaultMath, FiniteSets

CONSTANTS
  Users,            \* owners of wallets, shares and requests
  Manager,          \* the vault authority, receives manager fee shares
  Treasury,         \* config.treasury_authority, receives platform fee shares
  None,             \* an omitted optional argument
  GenesisTs,        \* time of vault_initialize
  GenesisConfigs,   \* configs that may hold when the vault is initialized
  GenesisArgs,      \* arguments of vault_initialize
  InitialWallet,    \* deposit tokens each user starts with
  DepositAmounts,   \* arguments of deposit_request_create
  ShareAmounts,     \* arguments of withdrawal_request_create
  ReportedTotals,   \* arguments of nav_update and nav_override
  VaultUpdates,     \* arguments of vault_update
  ConfigUpdates,    \* arguments of config_update
  Guardians,        \* who may pause: {} or one model value
  IdleMoves,        \* amounts strategies take from or return to the vault
  SplAmounts,       \* amounts of direct SPL token instructions
  MaxTime,          \* bound: the clock stops here
  MaxIdle           \* bound: strategies return no more than this

U16 == 0 .. 65535
Bps == 0 .. MAX_BPS
Statuses == {"Normal", "ReduceOnly", "Paused"}
NoRequest == [amount |-> 0, epoch |-> 0]

ASSUME UsersAssumption == IsFiniteSet(Users) /\ {Manager, Treasury} \subseteq Users

ASSUME NoneAssumption == None \notin Nat \cup BOOLEAN \cup Statuses

ASSUME InputsAssumption ==
  /\ GenesisTs \in Nat /\ GenesisTs >= EPOCH_DURATION
  /\ InitialWallet \in Nat
  /\ DepositAmounts \subseteq U64
  /\ ShareAmounts \subseteq U64
  /\ ReportedTotals \subseteq U64
  /\ IdleMoves \subseteq Nat
  /\ SplAmounts \subseteq Nat

ASSUME ArgumentsAssumption ==
  /\ GenesisConfigs \subseteq
       [status : {"Normal"}, platform_performance_fee_bps : Bps,
        platform_management_fee_bps : Bps, max_nav_deviation_bps : Bps,
        max_epoch_outflow_bps : Bps]
  /\ GenesisArgs \subseteq
       [performance_fee_bps : Bps, management_fee_bps : Bps, deposit_cap : U64,
        min_deposit : U64 \ {0}, min_withdrawal_shares : U64 \ {0}]
  /\ VaultUpdates \subseteq
       [performance_fee_bps : U16 \cup {None}, management_fee_bps : U16 \cup {None},
        deposit_cap : U64 \cup {None}, min_deposit : U64 \cup {None},
        min_withdrawal_shares : U64 \cup {None}, status : Statuses \cup {None},
        deposit_paused : BOOLEAN \cup {None}, withdrawal_paused : BOOLEAN \cup {None}]
  /\ ConfigUpdates \subseteq
       [platform_performance_fee_bps : U16 \cup {None},
        platform_management_fee_bps : U16 \cup {None},
        max_nav_deviation_bps : U16 \cup {None},
        max_epoch_outflow_bps : U16 \cup {None}, status : Statuses \cup {None}]

VARIABLES
  now,                  \* Clock unix_timestamp
  config,               \* the protocol Config, without the roles
  vault,                \* the books of the Vault
  fees,                 \* manager fees, live and pending
  params,               \* cap, minimums, status and pause flags of the Vault
  deposit_requests,     \* the DepositRequest of each user, or NoRequest
  withdrawal_requests,  \* the WithdrawalRequest of each user, or NoRequest
  wallets,              \* deposit tokens of each user
  share_balances,       \* shares of each user
  deposit_escrow,       \* balance of the deposit escrow
  share_escrow,         \* balance of the share escrow
  idle,                 \* balance of vault_token_account
  share_supply          \* supply of the share mint

requests == <<deposit_requests, withdrawal_requests>>
balances == <<wallets, share_balances, deposit_escrow, share_escrow, idle, share_supply>>
settings == <<config, fees, params>>
vars == <<now, vault, settings, requests, balances>>

-----------------------------------------------------------------------------
Init ==
  /\ now = GenesisTs
  /\ config \in GenesisConfigs
  /\ \E args \in GenesisArgs :
       /\ fees = [performance_fee_bps |-> args.performance_fee_bps,
                  management_fee_bps |-> args.management_fee_bps,
                  pending_performance_fee_bps |-> 0,
                  pending_management_fee_bps |-> 0,
                  fee_effective_ts |-> 0]
       /\ params = [deposit_cap |-> args.deposit_cap,
                    min_deposit |-> args.min_deposit,
                    min_withdrawal_shares |-> args.min_withdrawal_shares,
                    status |-> "Normal",
                    deposit_paused |-> FALSE,
                    withdrawal_paused |-> FALSE]
  /\ vault = [total_assets |-> 0,
              nav_per_share |-> NAV_PRECISION,
              high_water_mark |-> NAV_PRECISION,
              nav_epoch |-> 0,
              last_nav_ts |-> GenesisTs,
              pending_deposits |-> 0,
              pending_withdrawal_shares |-> 0,
              unclaimed_manager_fee_shares |-> 0,
              unclaimed_platform_fee_shares |-> 0,
              epoch_outflow |-> 0]
  /\ deposit_requests = [u \in Users |-> NoRequest]
  /\ withdrawal_requests = [u \in Users |-> NoRequest]
  /\ wallets = [u \in Users |-> InitialWallet]
  /\ share_balances = [u \in Users |-> 0]
  /\ deposit_escrow = 0 /\ share_escrow = 0 /\ idle = 0 /\ share_supply = 0

\* The clock advances between instructions.
Tick ==
  /\ now < MaxTime
  /\ now' = now + 1
  /\ UNCHANGED <<vault, settings, requests, balances>>

-----------------------------------------------------------------------------
(* Gates. *)

IsOperational == config.status = "Normal" /\ params.status = "Normal"

Mutant_IsWithdrawable == params.status # "Paused"

IsWithdrawable == config.status # "Paused" /\ params.status # "Paused"

DepositsOpen == IsOperational /\ ~params.deposit_paused

WithdrawalsOpen == IsWithdrawable /\ ~params.withdrawal_paused

-----------------------------------------------------------------------------
(* NAV updates. *)

\* Unclaimed fee shares count as supply.
Supply ==
  share_supply + vault.unclaimed_manager_fee_shares + vault.unclaimed_platform_fee_shares

ApplyPendingFees ==
  IF fees.fee_effective_ts # 0 /\ now >= fees.fee_effective_ts
    THEN [performance_fee_bps |-> fees.pending_performance_fee_bps,
          management_fee_bps |-> fees.pending_management_fee_bps,
          pending_performance_fee_bps |-> 0,
          pending_management_fee_bps |-> 0,
          fee_effective_ts |-> 0]
    ELSE fees

ManagerRates ==
  [performance |-> fees.performance_fee_bps, management |-> fees.management_fee_bps]

PlatformRates ==
  [performance |-> config.platform_performance_fee_bps,
   management |-> config.platform_management_fee_bps]

\* The fees of the period that ends now, at the live rates.
FeesOwed(total_assets) ==
  OwedFees(total_assets, Supply, vault.high_water_mark,
           now - vault.last_nav_ts, ManagerRates, PlatformRates)

Mutant_RaisedHighWaterMark(nav_per_share) == nav_per_share

Mutant_KeptHighWaterMark(nav_per_share) == vault.high_water_mark

RaisedHighWaterMark(nav_per_share) ==
  IF nav_per_share > vault.high_water_mark THEN nav_per_share ELSE vault.high_water_mark

\* The books after a NAV update with no supply: no fee, no bound on the move.
EmptyVaultBooks == [vault EXCEPT !.nav_per_share = NAV_PRECISION]

SettledBooks(settlement) ==
  [vault EXCEPT
     !.nav_per_share = settlement.nav_per_share,
     !.high_water_mark = RaisedHighWaterMark(settlement.nav_per_share),
     !.unclaimed_manager_fee_shares = @ + settlement.manager_fee_shares,
     !.unclaimed_platform_fee_shares = @ + settlement.platform_fee_shares]

\* The checks of an update with a nonzero supply.  max_deviation_bps is None
\* for the admin's override.
AcceptableNav(total_assets, settlement, max_deviation_bps) ==
  /\ {settlement.nav_per_share, settlement.manager_fee_shares,
      settlement.platform_fee_shares,
      vault.unclaimed_manager_fee_shares + settlement.manager_fee_shares,
      vault.unclaimed_platform_fee_shares + settlement.platform_fee_shares} \subseteq U64
  /\ max_deviation_bps # None =>
       WithinDeviation(settlement.nav_per_share, vault.nav_per_share, max_deviation_bps)

\* At most one NAV per epoch.
NavIsDue == Epoch(now) > vault.nav_epoch

\* Settles the fees as dilution and posts a NAV, once per epoch.  The pending
\* manager fees apply after the accrual, so the period that ended is charged
\* at the old rates.
UpdateNav(total_assets, max_deviation_bps) ==
  /\ total_assets >= idle
  /\ NavIsDue
  /\ Supply \in U64
  /\ LET owed       == FeesOwed(total_assets)
         settlement == NavSettlement(total_assets, Supply, owed)
         Posted(books) ==
           [books EXCEPT !.total_assets = total_assets, !.nav_epoch = Epoch(now),
                         !.last_nav_ts = now, !.epoch_outflow = 0]
     IN  \/ /\ Supply = 0
            /\ vault' = Posted(EmptyVaultBooks)
         \/ /\ Supply > 0
            /\ TotalFee(owed) > 0 => TotalFee(owed) < total_assets
            /\ AcceptableNav(total_assets, settlement, max_deviation_bps)
            /\ vault' = Posted(SettledBooks(settlement))
  /\ fees' = ApplyPendingFees
  /\ UNCHANGED <<now, config, params, requests, balances>>

\* By the NAV updater.
NavUpdate(total_assets) == UpdateNav(total_assets, config.max_nav_deviation_bps)

\* By the admin.
NavOverride(total_assets) == UpdateNav(total_assets, None)

-----------------------------------------------------------------------------
(* Requests.  A request is settled under a NAV of a later epoch than its     *)
(* own; until such a NAV is posted its owner may cancel it.                  *)

IsOpen(request) == request.amount > 0

Mutant_CanAccumulate(request) == TRUE

\* A request accumulates within a single epoch.
CanAccumulate(request) == IsOpen(request) => request.epoch = Epoch(now)

Mutant_Accumulated(request, amount) ==
  [amount |-> request.amount + amount,
   epoch  |-> IF IsOpen(request) THEN request.epoch ELSE vault.nav_epoch + 1]

Accumulated(request, amount) ==
  [amount |-> request.amount + amount,
   epoch  |-> IF IsOpen(request) THEN request.epoch ELSE Epoch(now)]

Mutant_IsResolvableLate(request) == IsOpen(request) /\ vault.nav_epoch > request.epoch + 1

Mutant_IsResolvable(request) == IsOpen(request) /\ vault.nav_epoch >= request.epoch

IsResolvable(request) == IsOpen(request) /\ vault.nav_epoch > request.epoch

Mutant_DepositIsCancellable(request) == IsOpen(request) /\ vault.nav_epoch < request.epoch

\* A deposit cannot resolve while the NAV is zero, so it may be cancelled then.
DepositIsCancellable(request) ==
  /\ IsOpen(request)
  /\ vault.nav_per_share = 0 \/ vault.nav_epoch <= request.epoch

Mutant_WithdrawalIsCancellable(request) ==
  /\ IsOpen(request)
  /\ vault.nav_per_share = 0 \/ vault.nav_epoch <= request.epoch

WithdrawalIsCancellable(request) ==
  IsOpen(request) /\ vault.nav_epoch <= request.epoch

-----------------------------------------------------------------------------
(* Deposits. *)

\* mint_to of the SPL token program.
CanMint(amount) == share_supply + amount \in U64

Mutant_Mint(u, amount) ==
  /\ share_supply' = share_supply + amount
  /\ share_balances' = [share_balances EXCEPT ![u] = amount]

Mint(u, amount) ==
  /\ share_supply' = share_supply + amount
  /\ share_balances' = [share_balances EXCEPT ![u] = @ + amount]

\* By the depositor.
DepositRequestCreate(u, amount) ==
  /\ amount > 0
  /\ DepositsOpen
  /\ CanAccumulate(deposit_requests[u])
  /\ vault.nav_per_share > 0
  /\ amount >= params.min_deposit
  /\ {deposit_requests[u].amount + amount, vault.pending_deposits + amount,
      vault.total_assets + vault.pending_deposits + amount} \subseteq U64
  /\ vault.total_assets + vault.pending_deposits + amount <= params.deposit_cap
  /\ wallets[u] >= amount
  /\ deposit_requests' = [deposit_requests EXCEPT ![u] = Accumulated(@, amount)]
  /\ vault' = [vault EXCEPT !.pending_deposits = @ + amount]
  /\ wallets' = [wallets EXCEPT ![u] = @ - amount]
  /\ deposit_escrow' = deposit_escrow + amount
  /\ UNCHANGED <<now, settings, withdrawal_requests, share_balances, share_escrow, idle, share_supply>>

Mutant_DepositBooked(amount) == [vault EXCEPT !.total_assets = @ + amount]

\* The books after a deposit is resolved.
DepositBooked(amount) ==
  [vault EXCEPT !.pending_deposits = @ - amount, !.total_assets = @ + amount]

\* The checked subtraction and the transfer that release an escrowed deposit.
CanReleaseDeposit(u) ==
  /\ vault.pending_deposits >= deposit_requests[u].amount
  /\ deposit_escrow >= deposit_requests[u].amount

CanResolveDeposit(u) ==
  LET amount == deposit_requests[u].amount
      minted == SharesFor(amount, vault.nav_per_share)
  IN  /\ DepositsOpen
      /\ IsResolvable(deposit_requests[u])
      /\ vault.nav_per_share > 0
      /\ minted > 0
      /\ {minted, vault.total_assets + amount} \subseteq U64
      /\ CanReleaseDeposit(u)
      /\ CanMint(minted)

\* By anyone, at the NAV the vault holds when it runs.
DepositRequestResolve(u) ==
  LET amount == deposit_requests[u].amount
      minted == SharesFor(amount, vault.nav_per_share)
  IN  /\ CanResolveDeposit(u)
      /\ vault' = DepositBooked(amount)
      /\ deposit_requests' = [deposit_requests EXCEPT ![u] = NoRequest]
      /\ deposit_escrow' = deposit_escrow - amount
      /\ idle' = idle + amount
      /\ Mint(u, minted)
      /\ UNCHANGED <<now, settings, withdrawal_requests, wallets, share_escrow>>

\* The refund shared by a cancellation and a rejection.
RefundDeposit(u) ==
  LET amount == deposit_requests[u].amount
  IN  /\ CanReleaseDeposit(u)
      /\ vault' = [vault EXCEPT !.pending_deposits = @ - amount]
      /\ deposit_requests' = [deposit_requests EXCEPT ![u] = NoRequest]
      /\ deposit_escrow' = deposit_escrow - amount
      /\ wallets' = [wallets EXCEPT ![u] = @ + amount]
      /\ UNCHANGED <<now, settings, withdrawal_requests, share_balances, share_escrow, idle, share_supply>>

\* By the depositor, whatever the statuses.
DepositRequestCancel(u) ==
  DepositIsCancellable(deposit_requests[u]) /\ RefundDeposit(u)

\* By the admin, whatever the statuses and the NAV.
DepositRequestReject(u) == IsOpen(deposit_requests[u]) /\ RefundDeposit(u)

-----------------------------------------------------------------------------
(* Withdrawals. *)

\* By the withdrawer.  A holder below the minimum may still exit entirely.
WithdrawalRequestCreate(u, amount) ==
  /\ amount > 0
  /\ WithdrawalsOpen
  /\ CanAccumulate(withdrawal_requests[u])
  /\ amount >= params.min_withdrawal_shares \/ amount = share_balances[u]
  /\ {withdrawal_requests[u].amount + amount,
      vault.pending_withdrawal_shares + amount} \subseteq U64
  /\ share_balances[u] >= amount
  /\ withdrawal_requests' = [withdrawal_requests EXCEPT ![u] = Accumulated(@, amount)]
  /\ vault' = [vault EXCEPT !.pending_withdrawal_shares = @ + amount]
  /\ share_balances' = [share_balances EXCEPT ![u] = @ - amount]
  /\ share_escrow' = share_escrow + amount
  /\ UNCHANGED <<now, settings, deposit_requests, wallets, deposit_escrow, idle, share_supply>>

Mutant_WithdrawalBooked(redeemed, paid) ==
  [vault EXCEPT !.pending_withdrawal_shares = @ - redeemed,
                !.epoch_outflow = @ + paid,
                !.total_assets = @ - redeemed]

\* The books after a withdrawal is resolved.
WithdrawalBooked(redeemed, paid) ==
  [vault EXCEPT !.pending_withdrawal_shares = @ - redeemed,
                !.epoch_outflow = @ + paid,
                !.total_assets = @ - paid]

\* The checked subtraction and the balance that release escrowed shares.
CanReleaseShares(u) ==
  /\ vault.pending_withdrawal_shares >= withdrawal_requests[u].amount
  /\ share_escrow >= withdrawal_requests[u].amount

\* The program computes the cap on the outflow of an epoch and does not enforce it.
CanResolveWithdrawal(u) ==
  LET redeemed == withdrawal_requests[u].amount
      paid     == AssetsFor(redeemed, vault.nav_per_share)
  IN  /\ WithdrawalsOpen
      /\ IsResolvable(withdrawal_requests[u])
      /\ {paid, vault.epoch_outflow + paid} \subseteq U64
      /\ vault.total_assets >= paid
      /\ idle >= paid
      /\ CanReleaseShares(u)
      /\ share_supply >= redeemed

\* By anyone, at the NAV the vault holds when it runs.
WithdrawalRequestResolve(u) ==
  LET redeemed == withdrawal_requests[u].amount
      paid     == AssetsFor(redeemed, vault.nav_per_share)
  IN  /\ CanResolveWithdrawal(u)
      /\ vault' = WithdrawalBooked(redeemed, paid)
      /\ withdrawal_requests' = [withdrawal_requests EXCEPT ![u] = NoRequest]
      /\ share_escrow' = share_escrow - redeemed
      /\ share_supply' = share_supply - redeemed
      /\ idle' = idle - paid
      /\ wallets' = [wallets EXCEPT ![u] = @ + paid]
      /\ UNCHANGED <<now, settings, deposit_requests, share_balances, deposit_escrow>>

ReturnShares(u) ==
  LET amount == withdrawal_requests[u].amount
  IN  /\ CanReleaseShares(u)
      /\ vault' = [vault EXCEPT !.pending_withdrawal_shares = @ - amount]
      /\ withdrawal_requests' = [withdrawal_requests EXCEPT ![u] = NoRequest]
      /\ share_escrow' = share_escrow - amount
      /\ share_balances' = [share_balances EXCEPT ![u] = @ + amount]
      /\ UNCHANGED <<now, settings, deposit_requests, wallets, deposit_escrow, idle, share_supply>>

\* By the withdrawer, whatever the statuses.
WithdrawalRequestCancel(u) ==
  WithdrawalIsCancellable(withdrawal_requests[u]) /\ ReturnShares(u)

\* By the admin, whatever the statuses and the NAV.
WithdrawalRequestReject(u) == IsOpen(withdrawal_requests[u]) /\ ReturnShares(u)

-----------------------------------------------------------------------------
(* Fee claims. *)

Mutant_ManagerFeeClaimed == vault

\* The books after the manager claims.
ManagerFeeClaimed == [vault EXCEPT !.unclaimed_manager_fee_shares = 0]

\* By the manager.
VaultClaimManagerFee ==
  /\ vault.unclaimed_manager_fee_shares > 0
  /\ CanMint(vault.unclaimed_manager_fee_shares)
  /\ vault' = ManagerFeeClaimed
  /\ Mint(Manager, vault.unclaimed_manager_fee_shares)
  /\ UNCHANGED <<now, settings, requests, wallets, deposit_escrow, share_escrow, idle>>

\* By the treasury.
ConfigClaimPlatformFee ==
  /\ vault.unclaimed_platform_fee_shares > 0
  /\ CanMint(vault.unclaimed_platform_fee_shares)
  /\ vault' = [vault EXCEPT !.unclaimed_platform_fee_shares = 0]
  /\ Mint(Treasury, vault.unclaimed_platform_fee_shares)
  /\ UNCHANGED <<now, settings, requests, wallets, deposit_escrow, share_escrow, idle>>

-----------------------------------------------------------------------------
(* Settings. *)

\* The value of an optional argument.
Given(arg, default) == IF arg = None THEN default ELSE arg

\* An omitted fee keeps its latest requested value.
RequestedFee(arg, live, pending) ==
  Given(arg, IF fees.fee_effective_ts = 0 THEN live ELSE pending)

Mutant_ScheduledFees(performance, management) ==
  [fees EXCEPT !.pending_performance_fee_bps = performance,
               !.pending_management_fee_bps = management,
               !.fee_effective_ts = IF @ = 0 THEN now + FEE_INCREASE_DELAY ELSE @]

\* Schedules the pair; a pair scheduled earlier is replaced and the delay restarts.
ScheduledFees(performance, management) ==
  [fees EXCEPT !.pending_performance_fee_bps = performance,
               !.pending_management_fee_bps = management,
               !.fee_effective_ts = now + FEE_INCREASE_DELAY]

\* A pair that raises neither fee applies at once and drops the pending pair.
FeesAfter(performance, management) ==
  IF /\ performance <= fees.performance_fee_bps
     /\ management <= fees.management_fee_bps
    THEN [performance_fee_bps |-> performance,
          management_fee_bps |-> management,
          pending_performance_fee_bps |-> 0,
          pending_management_fee_bps |-> 0,
          fee_effective_ts |-> 0]
    ELSE ScheduledFees(performance, management)

UpdateFees(performance_arg, management_arg) ==
  LET performance ==
        RequestedFee(performance_arg, fees.performance_fee_bps, fees.pending_performance_fee_bps)
      management ==
        RequestedFee(management_arg, fees.management_fee_bps, fees.pending_management_fee_bps)
  IN  IF performance_arg = None /\ management_arg = None
        THEN UNCHANGED fees
        ELSE /\ {performance, management} \subseteq Bps
             /\ fees' = FeesAfter(performance, management)

\* By the manager, whatever the statuses: also out of a guardian's pause.
VaultUpdate(args) ==
  /\ UpdateFees(args.performance_fee_bps, args.management_fee_bps)
  /\ args.min_deposit # 0 /\ args.min_withdrawal_shares # 0
  /\ params' = [deposit_cap |-> Given(args.deposit_cap, params.deposit_cap),
                min_deposit |-> Given(args.min_deposit, params.min_deposit),
                min_withdrawal_shares |->
                  Given(args.min_withdrawal_shares, params.min_withdrawal_shares),
                status |-> Given(args.status, params.status),
                deposit_paused |-> Given(args.deposit_paused, params.deposit_paused),
                withdrawal_paused |-> Given(args.withdrawal_paused, params.withdrawal_paused)]
  /\ UNCHANGED <<now, config, vault, requests, balances>>

\* By the guardian.
VaultPause ==
  /\ params' = [params EXCEPT !.status = "Paused"]
  /\ UNCHANGED <<now, config, fees, vault, requests, balances>>

\* By the admin.  The nomination of roles and the slippage cap are not state
\* of this module.
ConfigUpdate(args) ==
  /\ config' = [status |-> Given(args.status, config.status),
                platform_performance_fee_bps |->
                  Given(args.platform_performance_fee_bps, config.platform_performance_fee_bps),
                platform_management_fee_bps |->
                  Given(args.platform_management_fee_bps, config.platform_management_fee_bps),
                max_nav_deviation_bps |->
                  Given(args.max_nav_deviation_bps, config.max_nav_deviation_bps),
                max_epoch_outflow_bps |->
                  Given(args.max_epoch_outflow_bps, config.max_epoch_outflow_bps)]
  /\ {config'.platform_performance_fee_bps, config'.platform_management_fee_bps,
      config'.max_nav_deviation_bps, config'.max_epoch_outflow_bps} \subseteq Bps
  /\ UNCHANGED <<now, fees, params, vault, requests, balances>>

\* By the guardian.
ConfigPause ==
  /\ config' = [config EXCEPT !.status = "Paused"]
  /\ UNCHANGED <<now, fees, params, vault, requests, balances>>

-----------------------------------------------------------------------------
(* Other movements of the vault's token accounts.                            *)

\* A strategy instruction of the manager spends idle deposit tokens.  Only the
\* effect on the vault is modelled; the venue decides what it is worth.
DeployIdle(amount) ==
  /\ IsOperational
  /\ idle >= amount
  /\ idle' = idle - amount
  /\ UNCHANGED <<now, vault, settings, requests, wallets, share_balances,
                 deposit_escrow, share_escrow, share_supply>>

\* A strategy instruction of the manager brings deposit tokens back.
ReturnIdle(amount) ==
  /\ IsWithdrawable
  /\ idle + amount <= MaxIdle
  /\ idle' = idle + amount
  /\ UNCHANGED <<now, vault, settings, requests, wallets, share_balances,
                 deposit_escrow, share_escrow, share_supply>>

\* Token accounts belong to the SPL token program: anyone may send tokens to
\* the vault's accounts, and holders may move or burn their shares.
SplTransferToIdle(u, amount) ==
  /\ wallets[u] >= amount
  /\ wallets' = [wallets EXCEPT ![u] = @ - amount]
  /\ idle' = idle + amount
  /\ UNCHANGED <<now, vault, settings, requests, share_balances, deposit_escrow,
                 share_escrow, share_supply>>

SplTransferToDepositEscrow(u, amount) ==
  /\ wallets[u] >= amount
  /\ wallets' = [wallets EXCEPT ![u] = @ - amount]
  /\ deposit_escrow' = deposit_escrow + amount
  /\ UNCHANGED <<now, vault, settings, requests, share_balances, idle,
                 share_escrow, share_supply>>

SplTransferToShareEscrow(u, amount) ==
  /\ share_balances[u] >= amount
  /\ share_balances' = [share_balances EXCEPT ![u] = @ - amount]
  /\ share_escrow' = share_escrow + amount
  /\ UNCHANGED <<now, vault, settings, requests, wallets, deposit_escrow, idle, share_supply>>

SplTransferShares(u, to, amount) ==
  /\ u # to
  /\ share_balances[u] >= amount
  /\ share_balances' = [share_balances EXCEPT ![u] = @ - amount, ![to] = @ + amount]
  /\ UNCHANGED <<now, vault, settings, requests, wallets, deposit_escrow,
                 share_escrow, idle, share_supply>>

SplBurnShares(u, amount) ==
  /\ share_balances[u] >= amount /\ share_supply >= amount
  /\ share_balances' = [share_balances EXCEPT ![u] = @ - amount]
  /\ share_supply' = share_supply - amount
  /\ UNCHANGED <<now, vault, settings, requests, wallets, deposit_escrow, share_escrow, idle>>

-----------------------------------------------------------------------------
RequestStep(u) ==
  \/ \E amount \in DepositAmounts : DepositRequestCreate(u, amount)
  \/ DepositRequestResolve(u)
  \/ DepositRequestCancel(u)
  \/ DepositRequestReject(u)
  \/ \E amount \in ShareAmounts : WithdrawalRequestCreate(u, amount)
  \/ WithdrawalRequestResolve(u)
  \/ WithdrawalRequestCancel(u)
  \/ WithdrawalRequestReject(u)

NavStep ==
  \E total_assets \in ReportedTotals : NavUpdate(total_assets) \/ NavOverride(total_assets)

ManagerStep ==
  \/ VaultClaimManagerFee
  \/ \E args \in VaultUpdates : VaultUpdate(args)
  \/ \E amount \in IdleMoves : DeployIdle(amount) \/ ReturnIdle(amount)

ProtocolStep ==
  \/ ConfigClaimPlatformFee
  \/ \E args \in ConfigUpdates : ConfigUpdate(args)
  \/ \E guardian \in Guardians : VaultPause \/ ConfigPause

SplStep ==
  \E u \in Users, amount \in SplAmounts :
    \/ SplTransferToIdle(u, amount)
    \/ SplTransferToDepositEscrow(u, amount)
    \/ SplTransferToShareEscrow(u, amount)
    \/ \E to \in Users : SplTransferShares(u, to, amount)
    \/ SplBurnShares(u, amount)

Next ==
  \/ Tick
  \/ \E u \in Users : RequestStep(u)
  \/ NavStep
  \/ ManagerStep
  \/ ProtocolStep
  \/ SplStep

Spec == Init /\ [][Next]_vars
=============================================================================
