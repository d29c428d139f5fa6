------------------------- MODULE VaultStrategiesProps -------------------------
(***************************************************************************)
(* What the strategy records promise about the assets a vault has moved    *)
(* out of its idle account.                                                *)
(***************************************************************************)
EXTENDS VaultStrategies, FiniteSets

Holding == 0 .. MaxHolding
Vault == [exists : BOOLEAN, authority : Authorities, status : Statuses,
          next_strategy_id : U32, open_strategy_count : U32]
Position == [exists : BOOLEAN, owner : VaultIds, width : 0 .. MAX_POSITION_WIDTH,
             liquidity : [Sides -> Holding], fees : [Sides -> Holding]]
TraderAccount == [stage : Stages, collateral : Holding, lots : Holding,
                  resting : Holding, queued : Holding]

\* Every field stays within its width, and no position grows past the widest
\* that the DLMM program serves.
TypeOK ==
  /\ config \in [status : Statuses, next_vault_id : Nat]
  /\ managers \subseteq Authorities
  /\ vaults \in [VaultIds -> Vault]
  /\ in_use \subseteq VaultIds /\ stray \subseteq VaultIds
  /\ strategies \in [VaultIds -> [Targets -> [exists : BOOLEAN, id : U32]]]
  /\ tokens \in [VaultIds -> [Tokens -> Holding]]
  /\ positions \in [Positions -> Position]
  /\ traders \in [VaultIds -> TraderAccount]
  /\ treasury \in [Tokens -> Holding]

-----------------------------------------------------------------------------
(* Records and counters. *)

Open(id) == {t \in Targets : strategies[id][t].exists}

\* vault_close relies on open_strategy_count instead of looking for strategy
\* accounts: the counter is the number of records of the vault, however often
\* targets are opened and closed.
StrategyCountIsExact ==
  \A id \in VaultIds : vaults[id].open_strategy_count = Cardinality(Open(id))

\* Each record of a vault has an id of its own, and none has the next one.
StrategyIdsAreUnique ==
  \A id \in VaultIds : \A t \in Open(id) :
    /\ strategies[id][t].id < vaults[id].next_strategy_id
    /\ \A other \in Open(id) \ {t} : strategies[id][other].id # strategies[id][t].id

\* A vault is the seed of every account below it: what is left of its records,
\* positions and balances would be found by a vault that took its address.  So
\* once a vault that existed is closed, there is never one of that id again.
VaultIdsAreNotReused ==
  \A id \in VaultIds :
    [](vaults[id].exists => [](~vaults[id].exists => []~vaults[id].exists))

-----------------------------------------------------------------------------
(* Records and venues. *)

\* Phoenix has nothing of the owner of the trader account t.
OwesNothing(t) == t.collateral = 0 /\ t.lots = 0 /\ t.queued = 0

\* README: each open position is tracked by a Strategy account.  Liquidity in
\* a DLMM position and whatever Phoenix owes belong to an existing vault with
\* a record of that venue, also while a withdrawal is queued and after losses.
VenueAssetsAreTracked ==
  /\ \A p \in Positions : positions[p].exists =>
       LET id == positions[p].owner IN vaults[id].exists /\ strategies[id][p].exists
  /\ \A id \in VaultIds : ~OwesNothing(traders[id]) =>
       vaults[id].exists /\ strategies[id][Trader].exists

\* Once a vault is closed, no venue holds anything for it and its depositors'
\* mint is paid out: no record, no deposit tokens, no position, nothing at
\* Phoenix.  Tokens of other mints may remain in accounts that only the closed
\* vault could sign for: vault_close does not look at them.
ClosedVaultsHoldNoDeposits ==
  \A id \in VaultIds : ~vaults[id].exists =>
    /\ Open(id) = {}
    /\ tokens[id][DepositMint] = 0
    /\ \A p \in Positions : positions[p].exists => positions[p].owner # id
    /\ OwesNothing(traders[id])

\* README: a StrategyType tells vault_close_strategy what must be empty before
\* the record can be closed.
OnlyEmptiedStrategiesClose ==
  [][\A id \in VaultIds, t \in Targets :
       strategies[id][t].exists /\ ~strategies'[id][t].exists =>
         /\ t \in Mints => tokens[id][t] = 0
         /\ t \in Positions => positions[t].liquidity = Nothing /\ positions[t].fees = Nothing
         /\ t = Trader => OwesNothing(traders[id]) /\ tokens[id][CanonicalMint] = 0]_vars

-----------------------------------------------------------------------------
(* Moves between the vault and the venues. *)

\* What the vault has at risk at Phoenix: its position and its orders.
Exposure(t) == t.lots + t.resting
Liquidity(pos) == pos.liquidity["x"] + pos.liquidity["y"]

\* While the protocol or a vault is paused or reduce-only, its manager cannot
\* add exposure at Phoenix or liquidity to a pool, whatever the order is
\* called; fills of orders already resting only turn one into the other.
NoNewRiskUnlessNormal ==
  [][\A id \in VaultIds : ~(ProtocolOperational /\ vaults[id].status = "Normal") =>
       /\ Exposure(traders'[id]) <= Exposure(traders[id])
       /\ \A p \in Positions : positions[p].owner = id =>
            Liquidity(positions'[p]) <= Liquidity(positions[p])]_vars

\* USDC of a vault, idle, wrapped or as collateral.
Usdc(id) == tokens[id][DepositMint] + tokens[id][CanonicalMint] + traders[id].collateral

\* Without a position, collateral changes and tokens are wrapped or unwrapped
\* at par only: a deposit Ember mints short, or a withdrawal Phoenix pays in
\* part, fails as a whole.
CollateralMovesAtPar ==
  [][\A id \in VaultIds :
       traders[id].lots = 0 /\ ( traders'[id].collateral # traders[id].collateral
                              \/ tokens'[id][CanonicalMint] < tokens[id][CanonicalMint])
         => Usdc(id)' = Usdc(id)]_vars

\* Fees of one side of position p leave it: the vault gets all but what the
\* treasury takes, and the treasury takes at most its rate.
FeesAreSplit(p, side) ==
  LET id      == positions[p].owner
      mint    == Pools[p][side]
      claimed == positions[p].fees[side] - positions'[p].fees[side]
      taken   == treasury'[mint] - treasury[mint]
  IN  /\ claimed > 0
      /\ taken >= 0 /\ taken * MAX_BPS <= claimed * TREASURY_CLAIM_FEE_BPS
      /\ tokens'[id][mint] - tokens[id][mint] = claimed - taken

\* No liquidity leaves a position, and no tokens leave a vault.
OnlyFeesMove ==
  /\ \A p \in Positions : positions'[p].liquidity = positions[p].liquidity
  /\ \A id \in VaultIds, mint \in Tokens : tokens'[id][mint] >= tokens[id][mint]

\* Fees leave a position only to the vault and the treasury, and the treasury's
\* balance changes only when they do: by at most its rate of what was claimed
\* in that mint, never out of liquidity or out of the idle balance of a vault.
TreasuryTakesFeesOnly ==
  [][/\ \A p \in Positions, side \in Sides :
          positions'[p].fees[side] < positions[p].fees[side] => FeesAreSplit(p, side)
     /\ \A mint \in Tokens : treasury'[mint] # treasury[mint] =>
          /\ \E p \in Positions, side \in Sides : Pools[p][side] = mint /\ FeesAreSplit(p, side)
          /\ OnlyFeesMove]_vars

=============================================================================
