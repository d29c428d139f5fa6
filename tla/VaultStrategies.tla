---------------------------- MODULE VaultStrategies ----------------------------
(***************************************************************************)
(* Vaults from vault_initialize to vault_close, their strategy records and *)
(* what the records point to at the venues: token accounts filled by       *)
(* Jupiter swaps, positions in Meteora DLMM pools, and trader accounts at  *)
(* the Phoenix exchange.  Every instruction of the manager on a strategy   *)
(* is an action.  Requests and NAVs, which HedgeVault models, are reduced  *)
(* to what these instructions see of them: tokens enter and leave the idle *)
(* balance, and the books are either clear or not.                         *)
(*                                                                         *)
(* The venues and the token program are external: they move what the       *)
(* program asks them to, and change their own state at any time.  One unit *)
(* of a token is worth one lot, and an order needs a unit of margin.       *)
(***************************************************************************)
EXTENDS Integers

CONSTANTS
  Authorities,         \* wallets that may be whitelisted as managers
  VaultIds,            \* bound on config.next_vault_id: the ids that can be given out
  DepositMint,         \* the deposit mint of the vaults
  DepositMintIsUsdc,   \* whether it is the only mint Phoenix vaults may use
  CanonicalMint,       \* Phoenix collateral, wrapped USDC
  Mints,               \* mints a Jupiter strategy may target
  TokenPrograms,       \* SPL Token and Token-2022
  ProgramOf,           \* the token program that owns each mint
  Positions,           \* addresses of DLMM positions
  Pools,               \* the token pair of the pool of each position
  Trader,              \* the trader account of a vault
  Amounts,             \* amounts of one move
  Gifts,               \* mints that strangers send to the vaults
  NewStatuses,         \* statuses that are set after the start
  MaxHolding,          \* bound on what enters a vault, grows at a venue or is traded
  U32_MAX,             \* strategy ids and counters are u32
  MAX_INITIAL_WIDTH,   \* 70 bins
  MAX_RESIZE_LENGTH,   \* 91 bins
  MAX_POSITION_WIDTH,  \* 1,400 bins
  TREASURY_CLAIM_FEE_BPS,
  MAX_BPS

ASSUME StrategyAssumption ==
  /\ Authorities # {}
  /\ VaultIds \subseteq Nat /\ VaultIds # {}
  /\ CanonicalMint # DepositMint
  /\ Amounts \subseteq Nat \ {0}
  /\ Gifts \subseteq Mints \cup {DepositMint, CanonicalMint}
  /\ NewStatuses \subseteq {"Normal", "Paused", "ReduceOnly"}
  /\ MaxHolding \in Nat
  /\ U32_MAX \in Nat
  /\ MAX_BPS \in Nat \ {0} /\ TREASURY_CLAIM_FEE_BPS \in 0 .. MAX_BPS
  /\ MAX_INITIAL_WIDTH \in 1 .. MAX_POSITION_WIDTH
  /\ MAX_RESIZE_LENGTH \in Nat /\ MAX_POSITION_WIDTH \in Nat
  /\ Trader \notin Mints \cup Positions /\ Mints \cap Positions = {}

VARIABLES
  config,      \* status and next_vault_id of the Config account
  managers,    \* whitelist: authorities with a Manager account
  vaults,      \* each Vault account: existence, authority, status, counters
  in_use,      \* vaults with shares, requests, unclaimed fees or recorded assets
  stray,       \* vaults whose escrows hold more than their pending requests
  strategies,  \* each Strategy account: existence and id
  tokens,      \* associated token accounts of each vault
  positions,   \* DLMM position accounts
  traders,     \* Phoenix trader accounts
  treasury     \* token accounts of the treasury

vars == <<config, managers, vaults, in_use, stray, strategies, tokens, positions,
          traders, treasury>>

Targets == Mints \cup Positions \cup {Trader}
Tokens == Mints \cup {DepositMint, CanonicalMint}
Sides == {"x", "y"}
U32 == 0 .. U32_MAX

Statuses == {"Normal", "Paused", "ReduceOnly"}

\* How far a trader account is: absent, registered with Phoenix, or onboarded.
Stages == {"none", "registered", "ready"}

NoVault == [exists |-> FALSE, authority |-> CHOOSE a \in Authorities : TRUE,
            status |-> "Normal", next_strategy_id |-> 0, open_strategy_count |-> 0]

NoStrategy == [exists |-> FALSE, id |-> 0]

Nothing == [s \in Sides |-> 0]

NoPosition == [exists |-> FALSE, owner |-> CHOOSE id \in VaultIds : TRUE,
               width |-> 0, liquidity |-> Nothing, fees |-> Nothing]

NoTrader == [stage |-> "none", collateral |-> 0, lots |-> 0, resting |-> 0, queued |-> 0]

Init ==
  /\ config = [status |-> "Normal", next_vault_id |-> 0]
  /\ managers \in SUBSET Authorities
  /\ vaults = [id \in VaultIds |-> NoVault]
  /\ in_use = {}
  /\ stray = {}
  /\ strategies = [id \in VaultIds |-> [t \in Targets |-> NoStrategy]]
  /\ tokens = [id \in VaultIds |-> [m \in Tokens |-> 0]]
  /\ positions = [p \in Positions |-> NoPosition]
  /\ traders = [id \in VaultIds |-> NoTrader]
  /\ treasury = [m \in Tokens |-> 0]

venues == <<positions, traders, treasury>>
books == <<in_use, stray>>

\* The mints of a pool are mints a vault may hold.
ASSUME PoolAssumption == Pools \in [Positions -> [Sides -> Tokens]]

-----------------------------------------------------------------------------
(* Gates.  Entering a venue needs both statuses Normal.  Leaving Phoenix and *)
(* closing a strategy is open while either is reduce-only; leaving a DLMM    *)
(* position needs the protocol Normal.                                       *)

ProtocolOperational == config.status = "Normal"
ProtocolWithdrawable == config.status # "Paused"

Mutant_MayEnter(id) == vaults[id].exists /\ vaults[id].status = "Normal"

MayEnter(id) == vaults[id].exists /\ ProtocolOperational /\ vaults[id].status = "Normal"

MayExit(id) == vaults[id].exists /\ ProtocolWithdrawable /\ vaults[id].status # "Paused"

MayUnwind(id) == vaults[id].exists /\ ProtocolOperational /\ vaults[id].status # "Paused"

\* By the guardian or the admin, see HedgeVault.
ProtocolStatusChange(status) ==
  /\ config' = [config EXCEPT !.status = status]
  /\ UNCHANGED <<managers, vaults, books, strategies, tokens, venues>>

\* By the guardian or the vault's manager, see HedgeVault.
VaultStatusChange(id, status) ==
  /\ vaults[id].exists
  /\ vaults' = [vaults EXCEPT ![id].status = status]
  /\ UNCHANGED <<config, managers, books, strategies, tokens, venues>>

-----------------------------------------------------------------------------
(* Managers and vaults. *)

\* By the admin.
ConfigAddManager(authority) ==
  /\ authority \notin managers
  /\ managers' = managers \cup {authority}
  /\ UNCHANGED <<config, vaults, books, strategies, tokens, venues>>

\* By the admin.  The vaults of the authority stay as they are.
ConfigRemoveManager(authority) ==
  /\ authority \in managers
  /\ managers' = managers \ {authority}
  /\ UNCHANGED <<config, vaults, books, strategies, tokens, venues>>

Mutant_VaultIdIncremented == config

\* The id seeds the address of the vault, so each vault has an address of its own.
VaultIdIncremented == [config EXCEPT !.next_vault_id = @ + 1]

\* By a whitelisted manager.
VaultInitialize(authority) ==
  LET id == config.next_vault_id
  IN  /\ ProtocolOperational
      /\ authority \in managers
      /\ id \in VaultIds
      /\ ~vaults[id].exists
      /\ vaults' = [vaults EXCEPT ![id] = [NoVault EXCEPT !.exists = TRUE,
                                                          !.authority = authority]]
      /\ config' = VaultIdIncremented
      /\ UNCHANGED <<managers, books, strategies, tokens, venues>>

Mutant_IsWoundUp(id) == id \notin in_use /\ tokens[id][DepositMint] = 0 /\ id \notin stray

\* Nothing is owed, no strategy is open, and the token program can close the
\* empty idle account and escrows.
IsWoundUp(id) ==
  /\ id \notin in_use
  /\ vaults[id].open_strategy_count = 0
  /\ tokens[id][DepositMint] = 0
  /\ id \notin stray

\* By the manager of the vault.
VaultClose(id) ==
  /\ vaults[id].exists
  /\ IsWoundUp(id)
  /\ vaults' = [vaults EXCEPT ![id] = NoVault]
  /\ UNCHANGED <<config, managers, books, strategies, tokens, venues>>

-----------------------------------------------------------------------------
(* What requests and NAVs do to the vault, see HedgeVault. *)

\* A resolved deposit arrives in the idle account, with shares against it.
DepositResolved(id, amount) ==
  /\ vaults[id].exists
  /\ tokens[id][DepositMint] + amount <= MaxHolding
  /\ tokens' = [tokens EXCEPT ![id][DepositMint] = @ + amount]
  /\ in_use' = in_use \cup {id}
  /\ UNCHANGED <<config, managers, vaults, stray, strategies, venues>>

\* A withdrawal is paid; the last one may clear the books.
WithdrawalResolved(id, amount) ==
  /\ vaults[id].exists /\ id \in in_use
  /\ tokens[id][DepositMint] >= amount
  /\ tokens' = [tokens EXCEPT ![id][DepositMint] = @ - amount]
  /\ in_use' \in {in_use, in_use \ {id}}
  /\ UNCHANGED <<config, managers, vaults, stray, strategies, venues>>

\* A NAV records assets, or records none over an empty idle account.
NavPosted(id) ==
  /\ vaults[id].exists
  /\ in_use' \in {in_use \cup {id}}
                   \cup (IF tokens[id][DepositMint] = 0 THEN {in_use \ {id}} ELSE {})
  /\ UNCHANGED <<config, managers, vaults, stray, strategies, tokens, venues>>

\* Anybody may send tokens to an escrow or to another account of the vault.
SplToEscrow(id) ==
  /\ vaults[id].exists
  /\ stray' = stray \cup {id}
  /\ UNCHANGED <<config, managers, vaults, in_use, strategies, tokens, venues>>

SplTransfer(id, mint) ==
  /\ vaults[id].exists
  /\ tokens[id][mint] < MaxHolding
  /\ tokens' = [tokens EXCEPT ![id][mint] = @ + 1]
  /\ UNCHANGED <<config, managers, vaults, books, strategies, venues>>

-----------------------------------------------------------------------------
(* Strategy records.  The address of a record derives from the vault and the *)
(* target, so a vault has at most one record per target.                     *)

Mutant_StrategyAdded(id) == [vaults EXCEPT ![id].open_strategy_count = @ + 1]

\* The counters of the vault after a strategy is opened.
StrategyAdded(id) ==
  [vaults EXCEPT ![id].next_strategy_id = @ + 1, ![id].open_strategy_count = @ + 1]

OpenStrategy(id, target) ==
  /\ MayEnter(id)
  /\ ~strategies[id][target].exists
  /\ {vaults[id].next_strategy_id + 1, vaults[id].open_strategy_count + 1} \subseteq U32
  /\ strategies' = [strategies EXCEPT ![id][target] =
                      [exists |-> TRUE, id |-> vaults[id].next_strategy_id]]
  /\ vaults' = StrategyAdded(id)

Mutant_StrategyDropped(id) == vaults

\* The counter of the vault after a strategy is closed.
StrategyDropped(id) == [vaults EXCEPT ![id].open_strategy_count = @ - 1]

CloseStrategy(id, target) ==
  /\ MayExit(id)
  /\ strategies[id][target].exists
  /\ vaults[id].open_strategy_count > 0
  /\ strategies' = [strategies EXCEPT ![id][target] = NoStrategy]
  /\ vaults' = StrategyDropped(id)

-----------------------------------------------------------------------------
(* Jupiter.  The target of a strategy is a mint. *)

\* By the manager.  Closing the strategy closes the account of the target
\* mint, so the deposit mint cannot be a target.
JupiterInitializeStrategy(id, mint) ==
  /\ mint # DepositMint
  /\ OpenStrategy(id, mint)
  /\ UNCHANGED <<config, managers, books, tokens, venues>>

\* By the manager: deposit mint to target or back.  The manager builds the
\* route and its quote, so any outcome can satisfy the checks on the amounts.
JupiterSwap(id, mint, source, destination, spent, received) ==
  /\ MayEnter(id)
  /\ strategies[id][mint].exists
  /\ {source, destination} = {mint, DepositMint} /\ mint # DepositMint
  /\ tokens[id][source] >= spent
  /\ tokens[id][destination] + received <= MaxHolding
  /\ tokens' = [tokens EXCEPT ![id][source] = @ - spent, ![id][destination] = @ + received]
  /\ UNCHANGED <<config, managers, vaults, books, strategies, venues>>

\* The account that vault_close_strategy looks at is the one of the token
\* program it is given; a vault has no account of the mint under another
\* program, and then there is nothing to close.
SeenBalance(id, mint, token_program) ==
  IF token_program = ProgramOf[mint] THEN tokens[id][mint] ELSE 0

\* By the manager.
VaultCloseJupiterStrategy(id, mint, token_program) ==
  /\ CloseStrategy(id, mint)
  /\ SeenBalance(id, mint, token_program) = 0
  /\ UNCHANGED <<config, managers, books, tokens, venues>>

-----------------------------------------------------------------------------
(* Meteora DLMM.  The target of a strategy is a position. *)

\* By the manager.  The position account signs, so it is new.
MeteoraDlmmInitializePosition(id, p, width) ==
  /\ width \in 1 .. MAX_INITIAL_WIDTH
  /\ OpenStrategy(id, p)
  /\ ~positions[p].exists
  /\ positions' = [positions EXCEPT ![p] = [NoPosition EXCEPT !.exists = TRUE, !.owner = id,
                                                             !.width = width]]
  /\ UNCHANGED <<config, managers, books, tokens, traders, treasury>>

\* The strategy of the position belongs to the vault, which owns the position.
HoldsPosition(id, p) ==
  strategies[id][p].exists /\ positions[p].exists /\ positions[p].owner = id

Mutant_ExtensionFits(p, bins_to_add) ==
  bins_to_add \in 1 .. MAX_RESIZE_LENGTH /\ positions[p].width <= MAX_POSITION_WIDTH

\* validate_extension.
ExtensionFits(p, bins_to_add) ==
  /\ bins_to_add \in 1 .. MAX_RESIZE_LENGTH
  /\ positions[p].width + bins_to_add <= MAX_POSITION_WIDTH

\* By the manager.
MeteoraDlmmExtendPosition(id, p, bins_to_add) ==
  /\ MayEnter(id)
  /\ HoldsPosition(id, p)
  /\ ExtensionFits(p, bins_to_add)
  /\ positions' = [positions EXCEPT ![p].width = @ + bins_to_add]
  /\ UNCHANGED <<config, managers, vaults, books, strategies, tokens, traders, treasury>>

\* By the manager.
MeteoraDlmmAddLiquidity(id, p, side, amount) ==
  LET mint == Pools[p][side]
  IN  /\ MayEnter(id)
      /\ HoldsPosition(id, p)
      /\ tokens[id][mint] >= amount
      /\ positions[p].liquidity[side] + amount <= MaxHolding
      /\ tokens' = [tokens EXCEPT ![id][mint] = @ - amount]
      /\ positions' = [positions EXCEPT ![p].liquidity[side] = @ + amount]
      /\ UNCHANGED <<config, managers, vaults, books, strategies, traders, treasury>>

\* By the manager, of any bins of the position.
MeteoraDlmmRemoveLiquidity(id, p, side, amount) ==
  LET mint == Pools[p][side]
  IN  /\ MayUnwind(id)
      /\ HoldsPosition(id, p)
      /\ positions[p].liquidity[side] >= amount
      /\ tokens[id][mint] + amount <= MaxHolding
      /\ tokens' = [tokens EXCEPT ![id][mint] = @ + amount]
      /\ positions' = [positions EXCEPT ![p].liquidity[side] = @ - amount]
      /\ UNCHANGED <<config, managers, vaults, books, strategies, traders, treasury>>

Mutant_TreasuryFee(claimed) == (claimed * TREASURY_CLAIM_FEE_BPS + MAX_BPS - 1) \div MAX_BPS

\* transfer_treasury_fee.
TreasuryFee(claimed) == (claimed * TREASURY_CLAIM_FEE_BPS) \div MAX_BPS

\* By the manager, of any bins of the position.  The treasury gets its share
\* of what arrived.
MeteoraDlmmClaimFee(id, p, side, claimed) ==
  LET mint == Pools[p][side]
      fee  == TreasuryFee(claimed)
  IN  /\ MayUnwind(id)
      /\ HoldsPosition(id, p)
      /\ positions[p].fees[side] >= claimed
      /\ tokens[id][mint] + claimed <= MaxHolding /\ treasury[mint] + claimed <= MaxHolding
      /\ tokens' = [tokens EXCEPT ![id][mint] = @ + claimed - fee]
      /\ treasury' = [treasury EXCEPT ![mint] = @ + fee]
      /\ positions' = [positions EXCEPT ![p].fees[side] = @ - claimed]
      /\ UNCHANGED <<config, managers, vaults, books, strategies, traders>>

\* By the manager.  The DLMM program closes an empty position only.
VaultCloseDlmmStrategy(id, p) ==
  /\ CloseStrategy(id, p)
  /\ positions[p].liquidity = Nothing /\ positions[p].fees = Nothing
  /\ positions' = [positions EXCEPT ![p] = NoPosition]
  /\ UNCHANGED <<config, managers, books, tokens, traders, treasury>>

OtherSide(side) == CHOOSE s \in Sides : s # side

\* What is left of the two sides when a unit of one is traded for the other.
Traded(liquidity, side) == [liquidity EXCEPT ![side] = @ - 1, ![OtherSide(side)] = @ + 1]

Earned(fees, side, fee) == [fees EXCEPT ![OtherSide(side)] = @ + fee]

\* Trading in the pool: one side of a position turns into the other, and a
\* fee may be earned.
DlmmTrade(p, side) ==
  LET held == positions[p]
  IN  /\ held.liquidity[side] > 0
      /\ held.liquidity[OtherSide(side)] < MaxHolding
      /\ \E fee \in {0, 1} :
           /\ held.fees[OtherSide(side)] + fee <= MaxHolding
           /\ positions' = [positions EXCEPT ![p] =
                [held EXCEPT !.liquidity = Traded(held.liquidity, side),
                             !.fees = Earned(held.fees, side, fee)]]
      /\ UNCHANGED <<config, managers, vaults, books, strategies, tokens, traders, treasury>>

-----------------------------------------------------------------------------
(* Phoenix.  The target of a strategy is the trader account of the vault.    *)
(* Collateral is wrapped USDC: Ember wraps and unwraps it one to one.        *)

\* Hawkeye's view of the margin, for a trader account t.
Liquidatable(t) == t.lots > t.collateral

Mutant_IsEmpty(t) == t.collateral = 0 /\ t.lots = 0

\* is_empty; orders that rest on the book are not looked at.
IsEmpty(t) == t.collateral = 0 /\ t.lots = 0 /\ t.queued = 0

\* By the manager.  The builder API may have registered the trader before.
PhoenixInitializeStrategy(id) ==
  /\ DepositMintIsUsdc
  /\ OpenStrategy(id, Trader)
  /\ traders' = IF traders[id].stage = "none"
                THEN [traders EXCEPT ![id].stage = "registered"]
                ELSE traders
  /\ UNCHANGED <<config, managers, books, tokens, positions, treasury>>

\* Ember minted exactly the amount that Phoenix took.
AmountsMatch(canonical_before, canonical_after) == canonical_after = canonical_before

\* By the manager.  Ember mints what it mints, Phoenix takes the amount.
PhoenixDepositFunds(id, amount, minted) ==
  LET wrapped == tokens[id][CanonicalMint]
  IN  /\ MayEnter(id)
      /\ strategies[id][Trader].exists
      /\ traders[id].stage = "ready"
      /\ tokens[id][DepositMint] >= amount
      /\ wrapped + minted >= amount
      /\ traders[id].collateral + amount <= MaxHolding
      /\ AmountsMatch(wrapped, wrapped + minted - amount)
      /\ tokens' = [tokens EXCEPT ![id][DepositMint] = @ - amount,
                                  ![id][CanonicalMint] = @ + minted - amount]
      /\ traders' = [traders EXCEPT ![id].collateral = @ + amount]
      /\ UNCHANGED <<config, managers, vaults, books, strategies, positions, treasury>>

Mutant_IsPaidOrQueued(amount, received) == TRUE

\* The withdraw throttle pays the full amount now or queues all of it.
IsPaidOrQueued(amount, received) == received \in {amount, 0}

\* By the manager.  Collateral that backs lots or orders stays; what is queued
\* stays part of the collateral until the queue pays it.
PhoenixWithdrawFunds(id, amount, received) ==
  LET t == traders[id]
  IN  /\ MayExit(id)
      /\ strategies[id][Trader].exists
      /\ t.collateral - t.queued - t.lots - t.resting >= amount
      /\ IsPaidOrQueued(amount, received)
      /\ tokens[id][DepositMint] + received <= MaxHolding
      /\ tokens' = [tokens EXCEPT ![id][DepositMint] = @ + received]
      /\ traders' = [traders EXCEPT
                       ![id].collateral = IF received > 0 THEN @ - amount ELSE @,
                       ![id].queued = IF received = 0 THEN @ + amount ELSE @]
      /\ UNCHANGED <<config, managers, vaults, books, strategies, positions, treasury>>

\* By the manager: unwraps what the withdraw queue paid.
PhoenixEmberWithdraw(id) ==
  LET amount == tokens[id][CanonicalMint]
  IN  /\ MayExit(id)
      /\ strategies[id][Trader].exists
      /\ amount > 0
      /\ tokens[id][DepositMint] + amount <= MaxHolding
      /\ tokens' = [tokens EXCEPT ![id][DepositMint] = @ + amount, ![id][CanonicalMint] = 0]
      /\ UNCHANGED <<config, managers, vaults, books, strategies, venues>>

Mutant_MayTrade(id, reduce_only) == MayExit(id)

\* A market order that only reduces a position is an exit.
MayTrade(id, reduce_only) == IF reduce_only THEN MayExit(id) ELSE MayEnter(id)

\* What rests of the orders of t when a new one may cancel them.
KeptResting(t, cancel_existing) == IF cancel_existing THEN 0 .. t.resting ELSE {t.resting}

\* By the manager.  The order leaves a position of that many lots.
PhoenixPlaceMarketOrder(id, reduce_only, cancel_existing, lots, min_base_lots_to_fill) ==
  LET t == traders[id]
      filled == IF lots > t.lots THEN lots - t.lots ELSE t.lots - lots
  IN  /\ MayTrade(id, reduce_only)
      /\ strategies[id][Trader].exists
      /\ reduce_only => lots <= t.lots
      /\ filled >= min_base_lots_to_fill
      /\ \E kept \in KeptResting(t, cancel_existing) :
           LET placed == [t EXCEPT !.lots = lots, !.resting = kept]
           IN  ~Liquidatable(placed) /\ traders' = [traders EXCEPT ![id] = placed]
      /\ UNCHANGED <<config, managers, vaults, books, strategies, tokens, positions, treasury>>

\* By the manager.  A part may fill before the rest is posted on the book,
\* against margin of its own; even a reduce-only order is new risk.
PhoenixPlaceLimitOrder(id, cancel_existing, lots, posted) ==
  LET t == traders[id]
  IN  /\ MayEnter(id)
      /\ strategies[id][Trader].exists
      /\ \E kept \in KeptResting(t, cancel_existing) :
           LET placed == [t EXCEPT !.lots = lots, !.resting = kept + posted]
           IN  /\ placed.lots + placed.resting <= t.collateral
               /\ ~Liquidatable(placed)
               /\ traders' = [traders EXCEPT ![id] = placed]
      /\ UNCHANGED <<config, managers, vaults, books, strategies, tokens, positions, treasury>>

\* By the manager: some or all of the orders.
PhoenixCancelOrders(id, resting) ==
  /\ MayExit(id)
  /\ strategies[id][Trader].exists
  /\ resting <= traders[id].resting
  /\ traders' = [traders EXCEPT ![id].resting = resting]
  /\ UNCHANGED <<config, managers, vaults, books, strategies, tokens, positions, treasury>>

\* The trader account holds nothing, and the token program can close the
\* account of unwrapped collateral.
IsClosable(id) == IsEmpty(traders[id]) /\ tokens[id][CanonicalMint] = 0

\* By the manager.  Phoenix keeps the trader account.
VaultClosePhoenixStrategy(id) ==
  /\ CloseStrategy(id, Trader)
  /\ IsClosable(id)
  /\ UNCHANGED <<config, managers, books, tokens, venues>>

-----------------------------------------------------------------------------
(* What Phoenix does on its own. *)

PhoenixChanges == UNCHANGED <<config, managers, vaults, books, strategies, positions, treasury>>

\* The builder API registers the trader of a vault, or makes it ready.
PhoenixOnboard(id) ==
  /\ vaults[id].exists
  /\ traders[id].stage # "ready"
  /\ \E stage \in {"registered", "ready"} : traders' = [traders EXCEPT ![id].stage = stage]
  /\ PhoenixChanges /\ UNCHANGED tokens

\* The withdraw queue pays, or drops a withdrawal the collateral no longer covers.
PhoenixPayQueued(id) ==
  LET t == traders[id]
      paid == IF t.collateral >= t.queued THEN t.queued ELSE 0
  IN  /\ t.queued > 0
      /\ tokens[id][CanonicalMint] + paid <= MaxHolding
      /\ tokens' = [tokens EXCEPT ![id][CanonicalMint] = @ + paid]
      /\ traders' = [traders EXCEPT ![id].collateral = @ - paid, ![id].queued = 0]
      /\ PhoenixChanges

\* An order on the book is hit, if the margin allows the position that results.
PhoenixFill(id) ==
  LET t == traders[id]
  IN  /\ t.resting > 0
      /\ \E lots \in {t.lots + 1, t.lots - 1} \cap (0 .. t.collateral) :
           traders' = [traders EXCEPT ![id].lots = lots, ![id].resting = @ - 1]
      /\ PhoenixChanges /\ UNCHANGED tokens

\* A position gains or loses.
PhoenixMark(id) ==
  LET t == traders[id]
  IN  /\ t.lots > 0
      /\ \E collateral \in {t.collateral + 1, t.collateral - 1} \cap (0 .. MaxHolding) :
           traders' = [traders EXCEPT ![id].collateral = collateral]
      /\ PhoenixChanges /\ UNCHANGED tokens

\* A position without margin is liquidated, and its orders are cancelled.
PhoenixLiquidate(id) ==
  /\ Liquidatable(traders[id])
  /\ traders' = [traders EXCEPT ![id].lots = 0, ![id].resting = 0]
  /\ PhoenixChanges /\ UNCHANGED tokens

-----------------------------------------------------------------------------
Lots == 0 .. MaxHolding

Administration ==
  \/ \E status \in NewStatuses : ProtocolStatusChange(status)
  \/ \E a \in Authorities : ConfigAddManager(a) \/ ConfigRemoveManager(a) \/ VaultInitialize(a)
  \/ \E id \in VaultIds, status \in NewStatuses : VaultStatusChange(id, status)
  \/ \E id \in VaultIds : VaultClose(id)

Books ==
  \/ \E id \in VaultIds, amount \in Amounts :
       DepositResolved(id, amount) \/ WithdrawalResolved(id, amount)
  \/ \E id \in VaultIds : NavPosted(id) \/ SplToEscrow(id)
  \/ \E id \in VaultIds, mint \in Gifts : SplTransfer(id, mint)

Jupiter ==
  \E id \in VaultIds, mint \in Mints :
    \/ JupiterInitializeStrategy(id, mint)
    \/ \E source, destination \in {mint, DepositMint}, spent, received \in Amounts :
         JupiterSwap(id, mint, source, destination, spent, received)
    \/ \E token_program \in TokenPrograms : VaultCloseJupiterStrategy(id, mint, token_program)

MeteoraDlmm ==
  \/ \E id \in VaultIds, p \in Positions :
       \/ \E width \in 1 .. MAX_INITIAL_WIDTH : MeteoraDlmmInitializePosition(id, p, width)
       \/ \E bins \in 1 .. MAX_RESIZE_LENGTH : MeteoraDlmmExtendPosition(id, p, bins)
       \/ \E side \in Sides, amount \in Amounts :
            \/ MeteoraDlmmAddLiquidity(id, p, side, amount)
            \/ MeteoraDlmmRemoveLiquidity(id, p, side, amount)
            \/ MeteoraDlmmClaimFee(id, p, side, amount)
       \/ VaultCloseDlmmStrategy(id, p)
  \/ \E p \in Positions, side \in Sides : DlmmTrade(p, side)

Phoenix ==
  \E id \in VaultIds :
    \/ PhoenixInitializeStrategy(id)
    \/ \E amount \in Amounts, minted, received \in Amounts \cup {0} :
         \/ PhoenixDepositFunds(id, amount, minted)
         \/ PhoenixWithdrawFunds(id, amount, received)
    \/ PhoenixEmberWithdraw(id)
    \/ \E reduce_only, cancel_existing \in BOOLEAN, lots, min_base_lots_to_fill \in Lots :
         PhoenixPlaceMarketOrder(id, reduce_only, cancel_existing, lots, min_base_lots_to_fill)
    \/ \E cancel_existing \in BOOLEAN, lots, posted \in Lots :
         PhoenixPlaceLimitOrder(id, cancel_existing, lots, posted)
    \/ \E resting \in Lots : PhoenixCancelOrders(id, resting)
    \/ VaultClosePhoenixStrategy(id)
    \/ PhoenixOnboard(id)
    \/ PhoenixPayQueued(id)
    \/ PhoenixFill(id)
    \/ PhoenixMark(id)
    \/ PhoenixLiquidate(id)

Next == Administration \/ Books \/ Jupiter \/ MeteoraDlmm \/ Phoenix

Spec == Init /\ [][Next]_vars

=============================================================================
