# Verification of the hedge_vault program

`hedge_vault` is a Solana program (Anchor, Rust, `src/programs/hedge_vault`)
that runs vaults with asynchronous deposits and withdrawals.  A manager invests
the deposits through strategies (Jupiter swaps, Meteora DLMM positions, Phoenix
perpetuals), an off-chain keeper posts the value of everything once per epoch,
and requests settle at the posted NAV.  This directory holds TLA+
specifications of the program, TLC configurations that check them on small
instances, and proofs checked by TLAPS for every value of the constants.

The runtime executes one instruction at a time and undoes all effects of one
that fails.  The concurrency that matters is therefore the **order of
instructions** of parties who do not trust each other: two depositors, any
resolver, the manager, the NAV updater, the admin, the guardian, the treasury,
and anybody who uses the token program directly on the vault's accounts.
Nothing is lost or duplicated inside the program, and there is no crash to
recover from; but every party may stop, and time moves between any two steps.

## 1. Inventory

| Part (source) | State | Operations | What makes it correct |
|---|---|---|---|
| Vault books and NAV (`state/vault.rs`, `nav_update`, `nav_override`) | `total_assets`, `nav_per_share`, `high_water_mark`, `nav_epoch`, `last_nav_ts`, unclaimed fee shares, `epoch_outflow` | `update_nav` once per epoch, `resolve_*`, `claim_*` | shares never claim more than the recorded assets; a gain is charged once; the updater's moves are bounded |
| Deposit requests (`state/deposit_request.rs`, `deposit_request_*`) | one account per user: amount, epoch, rent escrow; `pending_deposits`; the deposit escrow | create, resolve (anyone), cancel (owner), reject (admin) | priced by a NAV posted later; cancel and resolve exclude each other; escrow covers the requests |
| Withdrawal requests (`state/withdrawal_request.rs`, `withdrawal_request_*`) | shares, epoch; `pending_withdrawal_shares`; the share escrow | the same four | the same, and a covered one fails only for lack of idle tokens or a pause |
| Manager fees (`Vault::update_fees`, `apply_pending_fees`, `vault_update`, claims) | live and pending pair, `fee_effective_ts` | update, apply at a NAV update, claim | an increase gives the full notice; claims move no value |
| Protocol settings (`state/config.rs`, `config_update`, `config_pause`, `vault_pause`) | status, platform rates, limits | update (admin), pause (guardian) | a pause stops outflow and minting and never traps a request |
| Roles and managers (`admin_accept`, `config_add_manager`, ...) | admin, nominee, updater, treasury, guardian, whitelist, version | nominate, accept, update, add, remove, migrate | only the last nominee takes over, once; nobody else gains a right |
| Vault lifecycle and strategies (`vault_initialize`, `vault_close`, `*_initialize_strategy`, `vault_close_strategy`) | vault and strategy ids, `open_strategy_count`, strategy status | initialize, open, close | an id is given out once; a close strands neither deposit tokens nor anything at a venue |
| Payout rent (`utils/payout.rs`) | lamports and `rent_escrow` of a request | reserve, create account, refund | settlement can always pay for the account it needs |
| Venues (`protocol/*`, `jupiter_*`, `meteora_dlmm_*`, `phoenix_*`) | positions outside the program | swap, add, remove, claim, deposit, withdraw, order, cancel | bounded slippage, results land in the vault, no position is forgotten |

Parts interact through the `Config` and `Vault` accounts (every instruction
validates and reads them), through the token accounts of the vault, and through
calls to the token program and the venues.  There are no callbacks.

Hard behaviours: the order of create, NAV, cancel and resolve; a NAV that
arrives while a request waits through a pause or a short idle balance; rounding
over arbitrary sequences; zero NAV and zero supply; fee proposals around their
delay; token transfers the program does not see.  `PROJECT.json` lists them as
hazards, each at its line, with the properties that watch it.

## 2. Modules

| Module | Content |
|---|---|
| `VaultMath` | conversions, fees and NAV settlement of `state/vault.rs`, as pure operators |
| `HedgeVault` | the state machine: one action per instruction |
| `Totals` | the sum of a function over its domain, as a count of units |
| `HedgeVaultProps` | type invariant, safety invariants, action properties, refinement mapping |
| `FeeTimelock` | `HedgeVault` with the time of the pending fee proposal as history |
| `AsyncVault` | the abstract request lifecycle the vault promises to its users |
| `VaultStrategies` | vaults from creation to close, strategy records, and the instructions on Jupiter, Meteora DLMM and Phoenix, with what the venues do on their own |
| `VaultStrategiesProps` | their type invariant, safety invariants and action properties |
| `ProtocolConfig` | the life of the `Config` account: created or deployed in version 1, migrated, updated, paused, handed over |
| `AdminHandover` | the abstract two-step handover of a role |
| `PayoutRent` | on top of `ProtocolConfig`, the lamports of requests, payout accounts and wallets through the eight request instructions |
| `JupiterRoute` | the arguments read out of a route and the slippage checks before and after a swap, as pure operators |
| `PayoutRentProps` | type invariant, rent and handover properties, and the slippage bound under every config |
| `MCHedgeVault`, `MCFeeTimelock`, `MCLiveness`, `MCFirstNav`, `MCVaultStrategies`, `MCPayoutRent` | instances for TLC, with history variables or fairness where a property needs them |
| `VaultMathProofs`, `HedgeVaultProofs`, `HedgeVaultEscrow`, `FeeTimelockProofs`, `HedgeVaultRefinement`, `VaultStrategiesProofs`, `VaultStrategiesMoves`, `PayoutRentProofs` | theorems and proofs |

`HedgeVault` and `VaultStrategies` look at the same accounts from two sides.
In `HedgeVault` the strategies are one action that moves idle tokens; in
`VaultStrategies` the requests and NAVs are a few actions that move idle tokens
and make the books clear or not.  `PayoutRent` looks at the request accounts a
third time, for what they hold in lamports rather than what they say: the
tokens, the NAV and the vault's gates are left open there, so that every order
of requests and settlements that `HedgeVault` allows is among its behaviours.

### How the state corresponds to the code

In `HedgeVault`:

- `vault`, `fees` and `params` are three slices of the account `Vault`
  (`state/vault.rs:64-138`): the books, the manager's fee schedule, the
  manager's settings.  `config` is the part of `Config` that the vault reads.
- `deposit_requests[u]` and `withdrawal_requests[u]` are the request accounts,
  with `NoRequest` for an account that does not exist.  A request account
  always holds a positive amount, so `IsOpen` is its existence.
- `wallets`, `share_balances`, `deposit_escrow`, `share_escrow`, `idle` and
  `share_supply` are balances kept by the token program.  `idle` is
  `vault_token_account`.
- `now` is the cluster clock; `Tick` advances it between instructions.  Several
  instructions may run in the same second.

In `VaultStrategies`:

- `config` holds the status and `next_vault_id`; `managers` is the set of
  authorities with a `Manager` account; `vaults[id]` is the slice of `Vault`
  with authority, status, `next_strategy_id` and `open_strategy_count`.
- `strategies[id][t]` is the `Strategy` account of the vault for target `t`.
  Its address derives from both, so the function is the uniqueness the program
  gets from the address: a mint for Jupiter, a position for DLMM, the trader
  account for Phoenix.
- `in_use` are the vaults whose shares, requests, unclaimed fees or recorded
  assets are not all zero, `stray` those whose escrows hold more than their
  requests.  `vault_close` asks about the first; the token program, which only
  closes empty accounts, about the second.
- `tokens[id][m]` are the associated token accounts of the vault, the idle
  account (`DepositMint`) and the wrapped collateral (`CanonicalMint`) among
  them; `treasury[m]` are those of the treasury.
- `positions[p]` and `traders[id]` are accounts of the venues, as far as the
  program reads or moves them.

The venues are external.  A Jupiter swap spends and receives any amounts, since
the manager writes the route and the quote it is measured against.  In a DLMM
pool a unit of one token trades for a unit of the other and may earn a fee.  At
Phoenix a lot and a resting order each need one unit of collateral; a queued
withdrawal stays part of the collateral until the queue pays it in wrapped
USDC, or drops it when losses have eaten it; an order fills only if the margin
allows the position; a position without margin is liquidated.  `Ember`, which
wraps USDC, may mint any amount: the program checks that the wrapped balance
is as before.

In `ProtocolConfig`, `PayoutRent` and `JupiterRoute`:

- `config` holds the roles, the nominee, the status and the slippage cap of the
  account `Config`, with the layout its length stands for.  Instructions other
  than `config_migrate` load it only in the current layout; the cancel
  instructions do not load it at all.
- `requests[u][kind]` is a request account: its lamports and the field
  `rent_escrow`.  `LegacyRequest` is one made before the field was used.
  Lamports can be at the address of an account that does not exist, for
  requests and for token accounts.
- `accounts[u][mint]` are the two associated token accounts of a user that can
  receive a payout.  The user may close them, anybody may create them or send
  lamports to them: these are external actions.  `wallets[k]` is what a signer
  has to spend on rent.
- Rents are constants, one for a request and one for each mint; Token-2022
  accounts are longer, and the escrow is sized for the longer of the two.  A
  cluster that changes its rents while a request waits is not covered: a payer
  could then advance more than the request has escrowed.
- Instruction data is a record with the variant of the route and the numbers
  at its end.  `SwapsRespectCap` relates the checks to the cap of the `config`
  that the run has reached.

Each instruction handler is one action of the same name.  The checks of the
settling and refunding instructions are operators of their own (`CanMint`,
`CanReleaseDeposit`, `CanResolveDeposit`, `CanReleaseShares`,
`CanResolveWithdrawal`), which the actions conjoin with their assignments: what
can always be done is then said of a state, and not with ENABLED.  `validate!`
calls and `?` are conjuncts, `safe_*` arithmetic on `u64` is membership in
`U64`, and the `u128` intermediates cannot overflow and stay unbounded.
Address and signer checks are the indexing of the functions and the choice of
the action.  The accounts of the token program are external, modelled from how
the program uses them; `Spl*` actions are the direct use anybody can make of
it, including transfers into the escrows and burns, which the program cannot
prevent.

Constants are kept general: the scale, the basis-point base, the epoch, the
delay and the width are parameters, so that TLC checks a small arithmetic and
the proofs cover the real one (`NAV_PRECISION` 1e9, `MAX_BPS` 10,000,
`EPOCH_DURATION` 14,400 s, `FEE_INCREASE_DELAY` 604,800 s, `U64_MAX` 2^64-1).

Definitions named `Mutant_...` are variants with a plausible bug, used by
nothing; each shows that a property can tell it from the original.

## 3. Runs

| Run | Instance | Question |
|---|---|---|
| `settlement` | two users, NAV scale 2, NAVs 0, 3 and 5, three epochs, idle moves of 2 | does any order of requests, NAVs and settlements lose backing, enrich a user, break dates, offer an option on the price, leave a covered request stuck, or leave `AsyncVault`? |
| `fees` | one user who is also manager and treasury, scale 4, rates out of 8, NAVs 0, 5, 9 and 16, one fee increase | are gains charged once, principal spared, and fee shares worth at most the fees? |
| `gates` | two users, every status and flag of protocol and vault, both pauses, direct transfers of 1 | are requests always funded and undoable, does the share mint agree with the balances, and does a pause freeze the vault? |
| `fee_timelock` | every pair of fees in {omitted, 0, 1, 2}, delay 3, epoch 2, clock up to 12 | can a live fee rise without its full notice? |
| `liveness` | two users, NAVs 3 and 5, pauses by manager and guardian | does every covered request end or name what holds it? |
| `strategies` | one vault, mints `usdc` (the deposit mint) and `sol`, a position in their pool, every status, widths 1, 2 and 2, moves and claims of 2, treasury share 2/3, `u32` up to 2 | do counters and ids survive any order of opening and closing at their width, do gates stop new risk, is the treasury paid by claims of fees only? |
| `phoenix` | one USDC vault at Phoenix, amounts 1 and 2, gifts of plain and wrapped USDC | does everything the exchange owes keep its record, through queued withdrawals, fills, losses and liquidations? |
| `vault_ids` | two vaults one after the other or together, one position address, a pool of wrapped and plain USDC | can a vault come back after its close, does a closed vault leave deposit tokens or anything at a venue behind? |
| `rent` | one user, one other wallet (admin, guardian, resolver or stranger), rents 1, 1 and 2, gifts of 1, swaps of every variant around a cap of 1 or 2 out of 4 | do requests pay for their own settlement and owners keep their lamports, does the admin role pass only as nominated, can a state of the config let a swap past its cap? |
| `strategy_close` | expected violation | must a strategy be empty before its record closes, as the README says? |
| `first_nav` | expected violation | is a request settled at the first NAV posted after it, as the README says? |
| `outflow_cap` | expected violation | is the epoch outflow capped, as `docs/accounts.md` says? |

**Bounds.**  `MaxTime` stops the clock, `MaxIdle` bounds what strategies return;
the amounts are small sets.  Scales of 1, 2 and 4 with NAVs of 3, 5, 9 or 16
make both directions of settlement round, and deposits of 1 buy less than a
share.  Three epochs are enough for a request, the NAV that prices it, and a
second NAV that changes the price while it waits; four let a fee, a drop below
the mark and a recovery follow one another.  Two users are enough for
every pairwise interleaving that the pending totals and escrows join; the proofs
cover any number.  The timelock run lets a proposal be replaced before, at and
after the end of its delay.  `CHECK_DEADLOCK FALSE` is set where the bounded
clock and the spent inputs stop the system; the timelock run, where the manager
can always propose, checks deadlock.

In the strategy runs `MaxHolding` bounds every balance at the vault and the
venues: 1 where the question is which record points to what, and 2 at Phoenix,
where a withdrawal can then be partly covered, queued and overtaken by a loss.
It is 2 in `strategies` as well, where all moves of the program are of 2 and the
pool trades and earns by units: a claim of 2 at a share of 2/3 pays the treasury
1, its rate rounded down, in either mint of the pool.
`U32_MAX` of 2 lets a vault open and close until its ids run out, which it does
before the counter does.  An initial width of 1, extensions of up to 2 and a
limit of 2 reach the limit exactly and try to pass it.  One authority is enough,
since a vault's handlers compare only with its own; one vault is enough for the
counters, because no handler touches two vaults except through
`next_vault_id` and a position address, which `vault_ids` shares between two.
There the statuses are fixed, `strategies` and `phoenix` vary them.  Ids end at
`VaultIds`, so `CHECK_DEADLOCK FALSE` is set here too: with every id given out
and closed the system stops.

In `rent`, a wallet starts with 3 lamports, enough for one request of 1 and an
escrow of 2 and too little for a second until something is closed, so that both
a settlement by somebody who cannot advance the rent and one by somebody who can
occur.  Different rents for the two mints tell an escrow sized for the wrong one
from the right one.  The initial states are a protocol without config and
version 1 configs with every combination of old requests and none.  One user is
enough, as a settlement touches the accounts of its owner and the lamports of
its payer only; the proofs cover any number.  `CHECK_DEADLOCK FALSE` is set
there because the lamports in the instance can all be given away.

**Fairness.**  Only `liveness` assumes any: weak fairness of the two resolve
instructions for each user.  Both are permissionless, so the owner of a request
is enough to provide it, and a request that can be resolved stays so until
somebody acts.  No fairness is assumed of the NAV updater, the manager or the
admin: the properties start from a request that a NAV already covers, and their
conclusions name what may hold it (a pause, a NAV that buys no share, a short
idle balance).

### What the violations show

- **`strategy_close`.**  `README.md:151` says that the type of a strategy tells
  `vault_close_strategy` what must be empty before the record can be closed.
  For Jupiter the instruction derives the token account from the token program
  it is given, either of two, and takes a missing account for an empty one
  (`vault_close_strategy.rs:149`).  With the program that does not own the mint
  the record closes over a balance.  The tokens stay in the vault's account and
  the strategy can be opened again, so nothing is lost while the vault lives;
  but the keeper values what the records name, and `vault_close` relies on their
  count and looks at no other mint than the deposit mint, so a vault closed then
  leaves them where nobody can sign for them.  `VenueAssetsAreTracked` shows that DLMM and Phoenix records have no
  such gap.
- **`first_nav`.**  `README.md:53` and `:111`, and the comment at
  `withdrawal_request_cancel.rs:81`, promise the first NAV posted after the
  request.  The resolve instructions use the NAV stored when they run.  The
  counterexample leaves a covered withdrawal unresolved over a second NAV and
  resolves it at that price.  `AsyncVault` states what does hold: a request is
  settled at the latest posted price, and never before one was posted for it.
- **`outflow_cap`.**  `docs/accounts.md:158` says withdrawals fail above
  `max_epoch_outflow_bps`; the check in `vault.rs:490` is commented out.  The
  counterexample withdraws more than the cap in one epoch.

## 4. Proofs

`HedgeVaultProofs` proves, from the named assumptions on the constants only
(`MathAssumption`, `InputsAssumption`, `ArgumentsAssumption`, `NoneAssumption`,
`UsersAssumption`), the type invariant, the order of dates, blind requests, the
backing of shares, that nobody gains between two NAVs, the high water mark, single charging of gains, the bounds on
fee shares, that a zero NAV is final for the updater, and that a pause freezes
the vault.
`FeeTimelockProofs` proves that live fees rise only with notice: `NoticeRuns`
says that a scheduled date leaves the whole delay after the pair was proposed,
which holds because every proposal restarts the delay, also one that repeats
the pair.
`HedgeVaultEscrow` proves what ties the requests to the token accounts: that
they are escrowed, that the share mint adds up, and from these that a request
can always be undone or settled and never leaves its owner a choice of price.
`HedgeVaultRefinement` proves that the vault implements `AsyncVault`.

**Inductive invariant.**  `TypeOK` is not inductive alone: the time elapsed
since the last NAV is a natural number only because `last_nav_ts <= now`, and
without it a fee would have no sign.  `EpochsAreOrdered` is inductive together
with `TypeOK`, and the two are the invariant under every other proof:

1. `TypeOK /\ EpochsAreOrdered` holds initially and after every step
   (`TypeStep`, `EpochsStep`).
2. `SharesAreBacked` needs both and itself.  Between updates it follows from
   `BackingNeverErodes`: each step adds assets worth at least the shares it
   adds, because both divisions round down (`SharesForIsCovered`,
   `AssetsForIsCovered`).  At an update it does not depend on the past:
   `NavSettlementIsBacked` shows that any NAV derived from the reported total
   is covered by it.
3. `HighWaterMarkDominates` is inductive over the same pair.
4. The fee properties are facts of `VaultMath` about one update
   (`AccruedSharesAreWorthAtMostFees`, `FeesWithinProfitSpareMark`,
   `PerformanceFeesAreWithinProfit`), lifted to every update by
   `PostedByUpdate`: only a NAV update changes `nav_epoch`.
5. The refinement maps a request to its amount and to whether a later NAV is
   posted.  Accumulation happens only while a request is unpriced (again by
   `EpochsAreOrdered`); a resolve maps to a settlement at the stored NAV, cancel
   and reject to a refund, an update to `Post`, everything else to a move of
   balances.
6. `NobodyGainsBetweenNavs` values what a user owns, requests and unclaimed fee
   shares included, at the stored NAV.  Only two instructions exchange tokens
   for shares, and `ExchangeIsWorthNoMore` reduces both to the direction of
   their rounding; all others move holdings from one place to another
   (`NoMore`).  The one way to gain is a transfer of shares, where the giver
   loses as much.

`VaultMathProofs` holds the arithmetic: floor division is covered and monotone,
and each conversion and fee is bounded by its exact value.  It also holds the
facts about sums: how a total changes with one value (`TotalOfUpdate`) and that
no value exceeds it (`TotalBoundsValues`).

**Sums over the users.**  A fold over the users would need an induction that
the provers cannot do.  `Total(f)` is instead the number of pairs of a key and
one of its units, a cardinality, and the library's facts about unions and
products give the change of one value directly.  It needs finitely many users,
which `UsersAssumption` states and a ledger guarantees.  `MCHedgeVault` assumes,
and TLC evaluates, that the count equals the fold on every function of three
keys with values up to 3.

**Inductive invariants of `HedgeVaultEscrow`.**  `RequestsAreEscrowed` is
inductive with `TypeOK` because of its equalities: with inequalities only, a
cancellation could lower the pending total below another request.  `PendingStep`
reduces every step to making, releasing or keeping a request of each kind, with
request, pending total and escrow moving by the same amount.  `SharesAddUp` is
inductive with `TypeOK`; it is needed because burning checks the supply of the
mint, which no book of the program bounds.  `docs/accounts.md:236-237` says that
the balance of an escrow "always equals" its pending total.  What the program
moves keeps them equal, but strangers can send tokens to an escrow, so the
property says that the balance is at least the total.  Then:

- `RequestsCanBeUndone` follows as no request exceeds the sum of all, so the
  checked subtraction and the escrow cover it (`RequestsAreReleasable`);
- `NoOptionOnPrice` adds `EpochsAreOrdered`: what can no longer be cancelled is
  priced by a NAV of a later epoch, posted in that epoch or after;
- `CoveredRequestsSettle` adds `SharesAddUp` (the supply covers the shares of a
  request) and `SharesAreBacked` (the recorded assets cover the payment).

The proof of the last found an exception that the small runs do not reach:
`epoch_outflow` adds up all payouts of a period and deposits refill the vault
meanwhile, so its checked addition (`vault.rs:488`) has no bound from the
books.  `WithdrawalHeld` names it, with the overflows of a deposit; the next
NAV resets the counter.

`VaultStrategiesProofs` proves, from `StrategyAssumption` and
`PoolAssumption`, for any number of vaults, mints and positions: the types
(widths of positions and counters included), that the counter equals the number
of records, that a closed vault stays closed, that venue assets have a record,
and that a closed vault holds no deposit tokens.

**Inductive invariant.**  The count alone is not inductive:
a vault that is created would start with the records of its account's address,
and a closing lowers a counter that must be positive.  So `RecordsCounted` adds
that the records of a vault are finitely many and that a vault that does not
exist has none, which `vault_close` preserves because a counter of zero then
means an empty set.  `VenuesTracked` says that positions and what Phoenix owes
have a record, and that a vault that does not exist has no deposit tokens;
together with `RecordsCounted` it gives `VenueAssetsAreTracked` and
`ClosedVaultsHoldNoDeposits`.  That one is about deposit tokens, records and
venues only.  Tokens of other mints may remain: `vault_close.rs:100-123` closes
the accounts of the deposit mint and of the shares, and in `vault_ids` a vault
can take wrapped USDC out of a pool, close the record and then itself.

`VaultIdsAreNotReused` says of every id that after a vault of it existed and was
closed none ever does again.  It rests on three facts: vaults have ids below the next
one (`VaultsStayGivenOut`), the next one never falls (`GivenOutForEver`), and a
vault starts to exist only under the next one (`CreationTakesNextId`).

Most of the thirty actions leave the records alone,
open one or close one; `RecordStep` reduces every step to these cases once, and the invariants
are proved over the cases instead of over the actions.

`VaultStrategiesMoves` builds on these: that ids of records are unique
(`StrategyIdsAreUnique` is inductive with `RecordsCounted`, which a new vault
needs: its next id starts at zero), and what a step may never do.
`NoNewRiskUnlessNormal` needs the types only, by
cases over the actions of each venue: a reduce-only order cannot post, a fill
takes from the book at least what it adds to the position, and pool trading
keeps the sum of the sides.  `TreasuryTakesFeesOnly` speaks of both directions: fees that
leave a position are split between its vault and the treasury, and the treasury
is paid in no step but such a split, which moves no liquidity and lowers no
balance of a vault (`ClaimSplitsFees`).  The first needs that an address without a
position holds nothing (`AbsentPositionsAreEmpty`, inductive), or creating a
position could lower fees.  `CollateralMovesAtPar` is proved under
`CanonicalIsCollateralOnly`, which the run `phoenix` satisfies: the code does not keep
wrapped USDC from being a Jupiter target or in a pool, and a swap of it is not
at par.

`PayoutRentProofs` proves, from `ConfigAssumption`, `RentAssumption` and
`SwapAssumption`, every property of the run `rent`, for any number of wallets,
any rents and any scale.

**Inductive invariant.**  `TypeOK` contains what each layout implies for the
fields of the config, which makes it inductive: a cap of zero is possible only
before the first update after a migration, and a nominee is never the zero
address once accepted.  `RentIsEscrowed` is inductive over it: what a request
says it holds never exceeds what it has beyond its own rent, since only
`Request` writes the field and lamports of a request only grow until it ends.
`SettlementIsFree` then follows from `EscrowRepays`, where the three-way minimum
of the code comes down to the rent of the account, and `OwnerGetsTheRest` from
`DrawnIsBounded`: what is drawn from the request is at most what was put into
the owner's account.  `HandoverIsImplemented` maps a nomination of oneself to no
nomination; `SwapsStayWithinCap` is arithmetic (`SlippageBounds`) over the type
invariant.

**Only model-checked.**  `CoveredDepositsEnd` and `CoveredWithdrawalsEnd` are
liveness under fairness, which the prover does not do.  Their safety half is
proved: while nothing named by `DepositHeld` or `WithdrawalHeld` holds a covered
request, it can be settled (`CoveredRequestsSettle`), and it stays covered until
it is closed (`ImplementsAsyncVault`).  The three expected violations are
counterexamples and have nothing to prove.

## 5. Plan

Done: the core vault and its abstract lifecycle, vaults and strategies at all
three venues, the config with its roles and migration, payout rent, the
slippage bound of routes, the notice of fee increases, their runs, and proofs of
every safety property the passing runs check.
Left:

1. Corollaries of `NobodyGainsBetweenNavs` across NAV updates, as far as the
   reported totals, which the program cannot check, allow any.
2. The accounting of several positions of one vault at Phoenix, should the
   program ever read more than the emptiness of a trader account.

## 6. Not modelled

Wording of errors and events, account serialization and padding, compute
limits, PDA derivation and signer seeds (taken as correct addressing), the
TypeScript clients, generated interface descriptions, tests and CI: none of
them has a state of its own.

- **Mint validation** (`utils/token.rs`).  Deposit mints are those the program
  accepts.  The check reads one account, at `vault_initialize` and again at
  every deposit request, and its cases are unit tested; a transfer fee that the
  issuer schedules for a later epoch is outside the program.
- **CPI encoding** (`protocol/phoenix.rs`, `protocol/jupiter.rs`).  Discriminators,
  packet layouts, account lists and offsets are agreements with programs that
  are not here.  What the program decides from the parsed fields is modelled.
- **Inside `VaultStrategies`**: the selection of bins of a DLMM position, its
  rent and reward tokens, prices and order types at Phoenix beyond what they
  leave as position and orders, and funding payments, which act like
  `PhoenixMark`.
- **Inside `PayoutRent`**: the gates of the vault and the settled amounts, which
  are in `HedgeVault`; the rent of the config account, which the admin tops up
  at a migration; transaction fees and the minimum a wallet must keep.
