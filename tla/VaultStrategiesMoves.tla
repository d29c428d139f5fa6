------------------------- MODULE VaultStrategiesMoves -------------------------
(***************************************************************************)
(* Proofs of what a step on a strategy may never do, for any number of     *)
(* vaults, mints and positions, and that strategy ids are unique.           *)
(***************************************************************************)
EXTENDS VaultStrategiesProofs

-----------------------------------------------------------------------------
(* Ids of records. *)

\* A vault that does not exist has no record whose id could be given out again.
LEMMA OpenedIdIsNew ==
  ASSUME TypeOK, StrategyIdsAreUnique, NEW id \in VaultIds, NEW t \in Targets, OpenStrategy(id, t)
  PROVE  StrategyIdsAreUnique'
<1> DEFINE next == vaults[id].next_strategy_id
<1>1. vaults[id] \in Vault /\ next \in Nat
  BY StrategyAssumption DEF TypeOK, Vault, U32
<1>2. /\ strategies'[id][t] = [exists |-> TRUE, id |-> next]
      /\ \A v \in VaultIds, u \in Targets : ~(v = id /\ u = t) => strategies'[v][u] = strategies[v][u]
  BY DEF OpenStrategy, TypeOK
<1>3. /\ vaults'[id].next_strategy_id = next + 1
      /\ \A v \in VaultIds \ {id} : vaults'[v] = vaults[v]
  BY <1>1 DEF OpenStrategy, StrategyAdded, TypeOK, Vault
<1>4. \A u \in Targets : strategies[id][u].exists =>
        strategies[id][u].id < next /\ strategies[id][u].id \in Nat
  BY StrategyAssumption DEF StrategyIdsAreUnique, Open, TypeOK, U32
<1>5. ASSUME NEW v \in VaultIds \ {id}
      PROVE  \A u \in Open(v)' :
               /\ strategies'[v][u].id < vaults'[v].next_strategy_id
               /\ \A other \in Open(v)' \ {u} : strategies'[v][other].id # strategies'[v][u].id
  <2>1. Open(v)' = Open(v)
    BY <1>2, <1>5 DEF Open
  <2>2. \A u \in Open(v) : strategies'[v][u] = strategies[v][u]
    BY <1>2, <1>5 DEF Open
  <2> QED
    BY <1>3, <1>5, <2>1, <2>2 DEF StrategyIdsAreUnique
<1>6. \A u \in Open(id)' :
        /\ strategies'[id][u].id < vaults'[id].next_strategy_id
        /\ \A other \in Open(id)' \ {u} : strategies'[id][other].id # strategies'[id][u].id
  <2> SUFFICES ASSUME NEW u \in Open(id)'
               PROVE  /\ strategies'[id][u].id < next + 1
                      /\ \A other \in Open(id)' \ {u} :
                           strategies'[id][other].id # strategies'[id][u].id
    BY <1>3
  <2>1. \A w \in Open(id)' : w \in Targets /\ (w = t \/ w \in Open(id))
    BY <1>2 DEF Open
  <2>2. \A w \in Open(id) \ {t} : strategies'[id][w] = strategies[id][w] /\ strategies[id][w].exists
    BY <1>2 DEF Open
  <2>3. CASE u = t
    BY <1>1, <1>2, <1>4, <2>1, <2>2, <2>3
  <2>4. CASE u # t
    <3>1. u \in Open(id) /\ strategies'[id][u].id < next /\ strategies'[id][u].id \in Nat
      BY <1>4, <2>1, <2>2, <2>4
    <3>2. \A other \in Open(id)' \ {u} : strategies'[id][other].id # strategies'[id][u].id
      BY <1>2, <2>1, <2>2, <2>4, <3>1 DEF StrategyIdsAreUnique
    <3> QED
      BY <1>1, <3>1, <3>2
  <2> QED
    BY <2>3, <2>4
<1> QED
  BY <1>5, <1>6 DEF StrategyIdsAreUnique

\* Closing a record leaves the ids of the others and the next id.
LEMMA ClosedIdIsGone ==
  ASSUME TypeOK, StrategyIdsAreUnique, NEW id \in VaultIds, NEW t \in Targets, CloseStrategy(id, t)
  PROVE  StrategyIdsAreUnique'
<1>1. \A v \in VaultIds, u \in Targets :
        strategies'[v][u].exists => strategies[v][u].exists /\ strategies'[v][u] = strategies[v][u]
  BY DEF CloseStrategy, NoStrategy, TypeOK
<1>2. \A v \in VaultIds : vaults'[v].next_strategy_id = vaults[v].next_strategy_id
  BY DEF CloseStrategy, StrategyDropped, TypeOK, Vault
<1>3. \A v \in VaultIds : Open(v)' \subseteq Open(v)
  BY <1>1 DEF Open
<1>4. \A v \in VaultIds : \A u \in Open(v)' : strategies'[v][u] = strategies[v][u]
  BY <1>1 DEF Open
<1> QED
  BY <1>2, <1>3, <1>4 DEF StrategyIdsAreUnique

\* A vault that is created or closed has no records; its next id starts again.
LEMMA IdsStayUnique ==
  TypeOK /\ RecordsCounted /\ StrategyIdsAreUnique /\ RecordStep => StrategyIdsAreUnique'
<1> SUFFICES ASSUME TypeOK, RecordsCounted, StrategyIdsAreUnique, RecordStep
             PROVE  StrategyIdsAreUnique'
  OBVIOUS
<1>1. CASE \/ \E id \in VaultIds, t \in Targets : OpenStrategy(id, t)
           \/ \E id \in VaultIds, t \in Targets : CloseStrategy(id, t)
  BY <1>1, OpenedIdIsNew, ClosedIdIsGone
<1>2. ASSUME UNCHANGED strategies,
             \A v \in VaultIds : \/ Open(v) = {}
                                 \/ vaults'[v].next_strategy_id = vaults[v].next_strategy_id
      PROVE  StrategyIdsAreUnique'
  <2>1. \A v \in VaultIds : Open(v)' = Open(v)
    BY <1>2 DEF Open
  <2> QED
    BY <1>2, <2>1 DEF StrategyIdsAreUnique
<1>3. ASSUME UNCHANGED strategies, NEW a \in Authorities, VaultInitialize(a)
      PROVE  StrategyIdsAreUnique'
  <2>1. \A v \in VaultIds : \/ Open(v) = {}
                            \/ vaults'[v].next_strategy_id = vaults[v].next_strategy_id
    BY <1>3 DEF VaultInitialize, RecordsCounted, TypeOK
  <2> QED
    BY <1>2, <1>3, <2>1
<1>4. ASSUME UNCHANGED strategies, NEW id \in VaultIds, VaultClose(id)
      PROVE  StrategyIdsAreUnique'
  <2>1. Open(id) = {}
    BY <1>4, FS_EmptySet DEF VaultClose, IsWoundUp, RecordsCounted
  <2>2. \A v \in VaultIds \ {id} : vaults'[v] = vaults[v]
    BY <1>4 DEF VaultClose, TypeOK
  <2> QED
    BY <1>2, <1>4, <2>1, <2>2
<1>5. ASSUME UNCHANGED strategies, NEW id \in VaultIds, NEW status \in Statuses,
             VaultStatusChange(id, status)
      PROVE  StrategyIdsAreUnique'
  <2>1. \A v \in VaultIds : vaults'[v].next_strategy_id = vaults[v].next_strategy_id
    BY <1>5 DEF VaultStatusChange, TypeOK, Vault
  <2> QED
    BY <1>2, <1>5, <2>1
<1>6. CASE UNCHANGED <<strategies, vaults>>
  BY <1>2, <1>6
<1> QED
  BY <1>1, <1>3, <1>4, <1>5, <1>6 DEF RecordStep

\* Each record of a vault has an id of its own, at every time and after any
\* number of records were opened and closed.
THEOREM StrategyIdsStayUnique == Spec => []StrategyIdsAreUnique
<1>1. Init => StrategyIdsAreUnique
  BY DEF Init, StrategyIdsAreUnique, Open, NoStrategy
<1>2. TypeOK /\ RecordsCounted /\ StrategyIdsAreUnique /\ [Next]_vars => StrategyIdsAreUnique'
  BY IdsStayUnique, StepsOnRecords
<1> QED
  BY <1>1, <1>2, RecordsAndVenues, PTL DEF Spec

-----------------------------------------------------------------------------
(* Risk. *)

\* The exposure of the vault and the liquidity of its positions, afterwards.
NoMoreRisk(id) ==
  /\ Exposure(traders'[id]) <= Exposure(traders[id])
  /\ \A p \in Positions : positions[p].owner = id =>
       Liquidity(positions'[p]) <= Liquidity(positions[p])


\* Orders, fills and everything else at Phoenix add no exposure without MayEnter.
LEMMA PhoenixAddsNoRisk ==
  ASSUME TypeOK, Phoenix, NEW id \in VaultIds, ~MayEnter(id)
  PROVE  NoMoreRisk(id)
<1>1. /\ traders[id].lots \in Nat /\ traders[id].resting \in Nat
      /\ \A p \in Positions : positions[p].liquidity["x"] \in Nat
                              /\ positions[p].liquidity["y"] \in Nat
  BY StrategyAssumption DEF TypeOK, TraderAccount, Position, Holding, Sides
<1>2. ASSUME UNCHANGED positions,
             \/ traders'[id] = traders[id]
             \/ /\ traders'[id].lots \in Nat /\ traders'[id].resting \in Nat
                /\ traders'[id].lots + traders'[id].resting
                     <= traders[id].lots + traders[id].resting
      PROVE  NoMoreRisk(id)
  BY <1>1, <1>2 DEF NoMoreRisk, Exposure, Liquidity
<1>3. PICK v \in VaultIds :
    \/ PhoenixInitializeStrategy(v)
    \/ \E amount \in Amounts, minted, received \in Amounts \cup {0} :
         \/ PhoenixDepositFunds(v, amount, minted)
         \/ PhoenixWithdrawFunds(v, amount, received)
    \/ PhoenixEmberWithdraw(v)
    \/ \E reduce_only, cancel_existing \in BOOLEAN, lots, min_base_lots_to_fill \in Lots :
         PhoenixPlaceMarketOrder(v, reduce_only, cancel_existing, lots, min_base_lots_to_fill)
    \/ \E cancel_existing \in BOOLEAN, lots, posted \in Lots :
         PhoenixPlaceLimitOrder(v, cancel_existing, lots, posted)
    \/ \E resting \in Lots : PhoenixCancelOrders(v, resting)
    \/ VaultClosePhoenixStrategy(v)
    \/ PhoenixOnboard(v)
    \/ PhoenixPayQueued(v)
    \/ PhoenixFill(v)
    \/ PhoenixMark(v)
    \/ PhoenixLiquidate(v)
  BY DEF Phoenix
<1>4. traders \in [VaultIds -> TraderAccount] /\ traders[v] \in TraderAccount
  BY DEF TypeOK
<1>5. Lots \subseteq Nat
  BY StrategyAssumption DEF Lots
<1>6. CASE PhoenixInitializeStrategy(v)
  <2>1. \/ UNCHANGED traders
        \/ traders' = [traders EXCEPT ![v].stage = "registered"]
    BY <1>6 DEF PhoenixInitializeStrategy
  <2>2. traders'[id].lots = traders[id].lots /\ traders'[id].resting = traders[id].resting
    BY <1>4, <2>1 DEF TraderAccount
  <2> QED
    BY <1>1, <1>2, <1>6, <2>2 DEF PhoenixInitializeStrategy
<1>7. ASSUME NEW amount \in Amounts, NEW minted \in Amounts \cup {0},
             NEW received \in Amounts \cup {0},
             PhoenixDepositFunds(v, amount, minted) \/ PhoenixWithdrawFunds(v, amount, received)
      PROVE  NoMoreRisk(id)
  <2>1. traders'[id].lots = traders[id].lots /\ traders'[id].resting = traders[id].resting
    BY <1>4, <1>7 DEF PhoenixDepositFunds, PhoenixWithdrawFunds, TraderAccount
  <2> QED
    BY <1>1, <1>2, <1>7, <2>1 DEF PhoenixDepositFunds, PhoenixWithdrawFunds
<1>8. CASE PhoenixEmberWithdraw(v) \/ VaultClosePhoenixStrategy(v)
  BY <1>2, <1>8 DEF PhoenixEmberWithdraw, VaultClosePhoenixStrategy, venues
<1>9. ASSUME NEW reduce_only \in BOOLEAN, NEW cancel_existing \in BOOLEAN, NEW lots \in Lots,
             NEW min \in Lots,
             PhoenixPlaceMarketOrder(v, reduce_only, cancel_existing, lots, min)
      PROVE  NoMoreRisk(id)
  <2>1. PICK kept \in KeptResting(traders[v], cancel_existing) :
          traders' = [traders EXCEPT ![v] = [traders[v] EXCEPT !.lots = lots, !.resting = kept]]
    BY <1>9 DEF PhoenixPlaceMarketOrder
  <2>2. CASE v # id
    BY <1>2, <1>4, <1>9, <2>1, <2>2 DEF PhoenixPlaceMarketOrder
  <2>3. CASE v = id
    <3>1. reduce_only /\ lots <= traders[id].lots
      BY <1>9, <2>3 DEF PhoenixPlaceMarketOrder, MayTrade
    <3>2. kept \in Nat /\ kept <= traders[id].resting
      BY <1>1, <2>1, <2>3 DEF KeptResting
    <3>3. traders'[id].lots = lots /\ traders'[id].resting = kept
      BY <1>4, <2>1, <2>3 DEF TraderAccount
    <3> QED
      BY <1>1, <1>2, <1>5, <1>9, <3>1, <3>2, <3>3 DEF PhoenixPlaceMarketOrder
  <2> QED
    BY <2>2, <2>3
<1>10. ASSUME NEW cancel_existing \in BOOLEAN, NEW lots \in Lots, NEW posted \in Lots,
              PhoenixPlaceLimitOrder(v, cancel_existing, lots, posted)
       PROVE  NoMoreRisk(id)
  <2>1. v # id
    BY <1>10 DEF PhoenixPlaceLimitOrder
  <2>2. traders'[id] = traders[id]
    BY <1>4, <1>10, <2>1 DEF PhoenixPlaceLimitOrder
  <2> QED
    BY <1>2, <1>10, <2>2 DEF PhoenixPlaceLimitOrder
<1>11. ASSUME NEW resting \in Lots, PhoenixCancelOrders(v, resting)
       PROVE  NoMoreRisk(id)
  <2>1. traders' = [traders EXCEPT ![v].resting = resting] /\ resting <= traders[v].resting
    BY <1>11 DEF PhoenixCancelOrders
  <2>2. \/ traders'[id] = traders[id]
        \/ /\ traders'[id].lots = traders[id].lots
           /\ traders'[id].resting = resting
           /\ resting <= traders[id].resting
    BY <1>4, <2>1 DEF TraderAccount
  <2> QED
    BY <1>1, <1>2, <1>5, <1>11, <2>2 DEF PhoenixCancelOrders
<1>12. CASE PhoenixOnboard(v) \/ PhoenixPayQueued(v) \/ PhoenixMark(v)
  <2>1. traders'[id].lots = traders[id].lots /\ traders'[id].resting = traders[id].resting
    BY <1>4, <1>12 DEF PhoenixOnboard, PhoenixPayQueued, PhoenixMark, TraderAccount
  <2> QED
    BY <1>1, <1>2, <1>12, <2>1 DEF PhoenixOnboard, PhoenixPayQueued, PhoenixMark, PhoenixChanges
<1>13. CASE PhoenixFill(v)
  <2>1. PICK lots \in {traders[v].lots + 1, traders[v].lots - 1} \cap (0 .. traders[v].collateral) :
          traders' = [traders EXCEPT ![v].lots = lots, ![v].resting = @ - 1]
    BY <1>13 DEF PhoenixFill
  <2>2. traders[v].resting > 0
    BY <1>13 DEF PhoenixFill
  <2>3. CASE v # id
    BY <1>2, <1>4, <1>13, <2>1, <2>3 DEF PhoenixFill, PhoenixChanges
  <2>4. CASE v = id
    <3>1. traders'[id].lots = lots /\ traders'[id].resting = traders[id].resting - 1
      BY <1>4, <2>1, <2>4 DEF TraderAccount
    <3>2. lots \in Nat /\ lots <= traders[id].lots + 1 /\ traders[id].resting - 1 \in Nat
      BY <1>1, <2>1, <2>2, <2>4
    <3> QED
      BY <1>1, <1>2, <1>13, <3>1, <3>2 DEF PhoenixFill, PhoenixChanges
  <2> QED
    BY <2>3, <2>4
<1>14. CASE PhoenixLiquidate(v)
  <2>1. \/ traders'[id] = traders[id]
        \/ traders'[id].lots = 0 /\ traders'[id].resting = 0
    BY <1>4, <1>14 DEF PhoenixLiquidate, TraderAccount
  <2> QED
    BY <1>1, <1>2, <1>14, <2>1 DEF PhoenixLiquidate, PhoenixChanges
<1> QED
  BY <1>3, <1>6, <1>7, <1>8, <1>9, <1>10, <1>11, <1>12, <1>13, <1>14

\* Liquidity enters a position only with MayEnter of its owner; trading in the
\* pool turns one side into the other.
LEMMA MeteoraAddsNoRisk ==
  ASSUME TypeOK, MeteoraDlmm, NEW id \in VaultIds, ~MayEnter(id)
  PROVE  NoMoreRisk(id)
<1>1. /\ traders[id].lots \in Nat /\ traders[id].resting \in Nat
      /\ positions \in [Positions -> Position]
      /\ \A p \in Positions : positions[p].liquidity["x"] \in Nat
                              /\ positions[p].liquidity["y"] \in Nat
  BY StrategyAssumption DEF TypeOK, TraderAccount, Position, Holding, Sides
<1>2. ASSUME UNCHANGED traders, NEW q \in Positions,
             \A p \in Positions \ {q} : positions'[p] = positions[p],
             positions[q].owner = id => Liquidity(positions'[q]) <= Liquidity(positions[q])
      PROVE  NoMoreRisk(id)
  BY <1>1, <1>2 DEF NoMoreRisk, Exposure, Liquidity
<1>3. ASSUME NEW v \in VaultIds, NEW p \in Positions, NEW width \in 1 .. MAX_INITIAL_WIDTH,
             MeteoraDlmmInitializePosition(v, p, width)
      PROVE  NoMoreRisk(id)
  <2>1. positions'[p].liquidity = Nothing /\ \A q \in Positions \ {p} : positions'[q] = positions[q]
    BY <1>1, <1>3 DEF MeteoraDlmmInitializePosition, NoPosition
  <2>2. Liquidity(positions'[p]) <= Liquidity(positions[p])
    BY <1>1, <2>1 DEF Liquidity, Nothing, Sides
  <2> QED
    BY <1>2, <1>3, <2>1, <2>2 DEF MeteoraDlmmInitializePosition
<1>4. ASSUME NEW v \in VaultIds, NEW p \in Positions, NEW bins \in 1 .. MAX_RESIZE_LENGTH,
             MeteoraDlmmExtendPosition(v, p, bins)
      PROVE  NoMoreRisk(id)
  <2>1. /\ positions'[p].liquidity = positions[p].liquidity
        /\ \A q \in Positions \ {p} : positions'[q] = positions[q]
    BY <1>1, <1>4 DEF MeteoraDlmmExtendPosition, Position
  <2>2. Liquidity(positions'[p]) <= Liquidity(positions[p])
    BY <1>1, <2>1 DEF Liquidity
  <2> QED
    BY <1>2, <1>4, <2>1, <2>2 DEF MeteoraDlmmExtendPosition
<1>5. ASSUME NEW v \in VaultIds, NEW p \in Positions, NEW side \in Sides, NEW amount \in Amounts,
             MeteoraDlmmAddLiquidity(v, p, side, amount)
      PROVE  NoMoreRisk(id)
  <2>1. positions[p].owner # id
    BY <1>5 DEF MeteoraDlmmAddLiquidity, HoldsPosition
  <2>2. \A q \in Positions \ {p} : positions'[q] = positions[q]
    BY <1>1, <1>5 DEF MeteoraDlmmAddLiquidity
  <2> QED
    BY <1>2, <1>5, <2>1, <2>2 DEF MeteoraDlmmAddLiquidity
<1>6. ASSUME NEW v \in VaultIds, NEW p \in Positions, NEW side \in Sides, NEW amount \in Amounts,
             MeteoraDlmmRemoveLiquidity(v, p, side, amount)
      PROVE  NoMoreRisk(id)
  <2>1. /\ positions'[p].liquidity = [positions[p].liquidity EXCEPT ![side] = @ - amount]
        /\ \A q \in Positions \ {p} : positions'[q] = positions[q]
    BY <1>1, <1>6 DEF MeteoraDlmmRemoveLiquidity, Position
  <2>2. amount \in Nat /\ positions[p].liquidity[side] >= amount
        /\ positions[p].liquidity \in [Sides -> Holding]
    BY <1>1, <1>6, StrategyAssumption DEF MeteoraDlmmRemoveLiquidity, Position
  <2>3. Liquidity(positions'[p]) <= Liquidity(positions[p])
    BY <1>1, <2>1, <2>2 DEF Liquidity, Sides
  <2> QED
    BY <1>2, <1>6, <2>1, <2>3 DEF MeteoraDlmmRemoveLiquidity
<1>7. ASSUME NEW v \in VaultIds, NEW p \in Positions, NEW side \in Sides, NEW amount \in Amounts,
             MeteoraDlmmClaimFee(v, p, side, amount)
      PROVE  NoMoreRisk(id)
  <2>1. /\ positions'[p].liquidity = positions[p].liquidity
        /\ \A q \in Positions \ {p} : positions'[q] = positions[q]
    BY <1>1, <1>7 DEF MeteoraDlmmClaimFee, Position
  <2>2. Liquidity(positions'[p]) <= Liquidity(positions[p])
    BY <1>1, <2>1 DEF Liquidity
  <2> QED
    BY <1>2, <1>7, <2>1, <2>2 DEF MeteoraDlmmClaimFee
<1>8. ASSUME NEW v \in VaultIds, NEW p \in Positions, VaultCloseDlmmStrategy(v, p)
      PROVE  NoMoreRisk(id)
  <2>1. positions'[p].liquidity = Nothing /\ \A q \in Positions \ {p} : positions'[q] = positions[q]
    BY <1>1, <1>8 DEF VaultCloseDlmmStrategy, NoPosition
  <2>2. Liquidity(positions'[p]) <= Liquidity(positions[p])
    BY <1>1, <2>1 DEF Liquidity, Nothing, Sides
  <2> QED
    BY <1>2, <1>8, <2>1, <2>2 DEF VaultCloseDlmmStrategy
<1>9. ASSUME NEW p \in Positions, NEW side \in Sides, DlmmTrade(p, side)
      PROVE  NoMoreRisk(id)
  <2>1. /\ positions'[p].liquidity = Traded(positions[p].liquidity, side)
        /\ \A q \in Positions \ {p} : positions'[q] = positions[q]
    BY <1>1, <1>9 DEF DlmmTrade, Position
  <2>2. OtherSide(side) \in Sides /\ OtherSide(side) # side
    BY DEF OtherSide, Sides
  <2>3. positions[p].liquidity \in [Sides -> Holding]
    BY <1>1 DEF Position
  <2>4. Liquidity(positions'[p]) = Liquidity(positions[p])
    BY <1>1, <2>1, <2>2, <2>3 DEF Liquidity, Traded, Sides
  <2> QED
    BY <1>1, <1>2, <1>9, <2>1, <2>4 DEF DlmmTrade, Liquidity
<1> QED
  BY <1>3, <1>4, <1>5, <1>6, <1>7, <1>8, <1>9 DEF MeteoraDlmm

\* A step of any other part leaves positions and trader accounts.
LEMMA NoRiskElsewhere ==
  ASSUME TypeOK, Administration \/ Books \/ Jupiter, NEW id \in VaultIds
  PROVE  NoMoreRisk(id)
<1>1. UNCHANGED <<positions, traders>>
  <2>1. CASE Administration
    BY <2>1 DEF Administration, ProtocolStatusChange, ConfigAddManager, ConfigRemoveManager,
       VaultInitialize, VaultStatusChange, VaultClose, venues
  <2>2. CASE Books
    BY <2>2 DEF Books, DepositResolved, WithdrawalResolved, NavPosted, SplToEscrow, SplTransfer,
       venues
  <2>3. CASE Jupiter
    <3>1. ASSUME NEW v, NEW mint, NEW source, NEW destination, NEW spent, NEW received,
                 NEW program,
                 \/ JupiterInitializeStrategy(v, mint)
                 \/ JupiterSwap(v, mint, source, destination, spent, received)
                 \/ VaultCloseJupiterStrategy(v, mint, program)
          PROVE  UNCHANGED <<positions, traders>>
      BY <3>1 DEF JupiterInitializeStrategy, JupiterSwap, VaultCloseJupiterStrategy, venues
    <3> QED
      BY <2>3, <3>1 DEF Jupiter
  <2> QED
    BY <2>1, <2>2, <2>3
<1>2. /\ traders[id].lots \in Nat /\ traders[id].resting \in Nat
      /\ \A p \in Positions : positions[p].liquidity["x"] \in Nat
                              /\ positions[p].liquidity["y"] \in Nat
  BY StrategyAssumption DEF TypeOK, TraderAccount, Position, Holding, Sides
<1> QED
  BY <1>1, <1>2 DEF NoMoreRisk, Exposure, Liquidity

\* While the protocol or the vault is paused or reduce-only, no order of the
\* manager and no fill adds to what the vault has at risk at Phoenix, and no
\* liquidity enters its positions.
THEOREM NoNewRisk == Spec => NoNewRiskUnlessNormal
<1>1. TypeOK /\ Next =>
        \A id \in VaultIds : ~(ProtocolOperational /\ vaults[id].status = "Normal") =>
          NoMoreRisk(id)
  BY PhoenixAddsNoRisk, MeteoraAddsNoRisk, NoRiskElsewhere DEF Next, MayEnter
<1>2. TypeOK /\ [Next]_vars =>
        [\A id \in VaultIds : ~(ProtocolOperational /\ vaults[id].status = "Normal") =>
           /\ Exposure(traders'[id]) <= Exposure(traders[id])
           /\ \A p \in Positions : positions[p].owner = id =>
                Liquidity(positions'[p]) <= Liquidity(positions[p])]_vars
  BY <1>1 DEF NoMoreRisk
<1> QED
  BY <1>2, StrategyTypes, PTL DEF Spec, NoNewRiskUnlessNormal

-----------------------------------------------------------------------------
(* The treasury's share. *)

\* An address that is not a position holds nothing, so that a new position
\* starts empty and a claim is the only step that lowers fees.
AbsentPositionsAreEmpty ==
  \A p \in Positions : ~positions[p].exists =>
    positions[p].liquidity = Nothing /\ positions[p].fees = Nothing

\* The other steps on positions: no fees decrease, and absent ones stay empty.
PositionsKeepFees ==
  \A p \in Positions :
    /\ \A side \in Sides : positions'[p].fees[side] >= positions[p].fees[side]
    /\ ~positions'[p].exists => positions'[p].liquidity = Nothing /\ positions'[p].fees = Nothing

\* What TypeOK says of a position.
LEMMA PositionTypes ==
  ASSUME TypeOK, NEW p \in Positions
  PROVE  /\ positions \in [Positions -> Position] /\ positions[p] \in Position
         /\ \A side \in Sides : /\ positions[p].fees[side] \in Nat
                                /\ positions[p].liquidity[side] \in Nat
         /\ positions[p].fees \in [Sides -> Nat]
BY StrategyAssumption DEF TypeOK, Position, Holding

\* A step that leaves positions alone keeps their fees.
LEMMA UnchangedKeepsFees ==
  ASSUME TypeOK, AbsentPositionsAreEmpty, UNCHANGED positions
  PROVE  PositionsKeepFees
BY PositionTypes DEF PositionsKeepFees, AbsentPositionsAreEmpty

\* So does one that changes a single position and keeps its fees.
LEMMA OnePositionKeepsFees ==
  ASSUME TypeOK, AbsentPositionsAreEmpty, NEW p \in Positions,
         \A q \in Positions \ {p} : positions'[q] = positions[q],
         \A side \in Sides : positions'[p].fees[side] >= positions[p].fees[side],
         ~positions'[p].exists => positions'[p].liquidity = Nothing /\ positions'[p].fees = Nothing
  PROVE  PositionsKeepFees
<1> SUFFICES ASSUME NEW q \in Positions
             PROVE  /\ \A side \in Sides : positions'[q].fees[side] >= positions[q].fees[side]
                    /\ ~positions'[q].exists =>
                         positions'[q].liquidity = Nothing /\ positions'[q].fees = Nothing
  BY DEF PositionsKeepFees
<1>1. CASE q = p
  BY <1>1
<1>2. CASE q # p
  BY <1>2, PositionTypes DEF AbsentPositionsAreEmpty
<1> QED
  BY <1>1, <1>2

\* The treasury's share is at most TREASURY_CLAIM_FEE_BPS of a claim.
LEMMA TreasuryFeeIsAtMostItsShare ==
  ASSUME NEW claimed \in Nat
  PROVE  /\ TreasuryFee(claimed) \in Nat
         /\ TreasuryFee(claimed) * MAX_BPS <= claimed * TREASURY_CLAIM_FEE_BPS
<1>1. MAX_BPS \in Nat \ {0} /\ TREASURY_CLAIM_FEE_BPS \in Nat
  BY StrategyAssumption
<1>2. claimed * TREASURY_CLAIM_FEE_BPS \in Nat
  BY <1>1
<1>3. \A a \in Nat : a \div MAX_BPS \in Nat /\ (a \div MAX_BPS) * MAX_BPS <= a
  BY <1>1
<1> QED
  BY <1>2, <1>3 DEF TreasuryFee

\* A claim lowers the fees of one side of one position by what arrived, and
\* splits that between the vault and the treasury.  Nothing else moves.
LEMMA ClaimSplitsFees ==
  ASSUME TypeOK, NEW id \in VaultIds, NEW p \in Positions, NEW side \in Sides,
         NEW amount \in Amounts, MeteoraDlmmClaimFee(id, p, side, amount)
  PROVE  /\ FeesAreSplit(p, side)
         /\ OnlyFeesMove
         /\ \A q \in Positions, s \in Sides : ~(q = p /\ s = side) =>
              positions'[q].fees[s] = positions[q].fees[s]
         /\ positions'[p].exists
         /\ \A q \in Positions \ {p} : positions'[q] = positions[q]
         /\ \A m \in Tokens : treasury'[m] # treasury[m] => m = Pools[p][side]
<1> DEFINE mint == Pools[p][side]
           fee == TreasuryFee(amount)
<1>1. /\ positions[p].owner = id /\ positions[p].exists
      /\ tokens' = [tokens EXCEPT ![id][mint] = @ + amount - fee]
      /\ treasury' = [treasury EXCEPT ![mint] = @ + fee]
      /\ positions' = [positions EXCEPT ![p].fees[side] = @ - amount]
  BY DEF MeteoraDlmmClaimFee, HoldsPosition
<1>2. /\ positions'[p].fees = [positions[p].fees EXCEPT ![side] = @ - amount]
      /\ positions'[p].exists = positions[p].exists
      /\ positions'[p].liquidity = positions[p].liquidity
      /\ \A q \in Positions \ {p} : positions'[q] = positions[q]
  BY <1>1, PositionTypes DEF Position
<1>3. /\ positions'[p].fees[side] = positions[p].fees[side] - amount
      /\ \A s \in Sides \ {side} : positions'[p].fees[s] = positions[p].fees[s]
  BY <1>2, PositionTypes
<1>4. mint \in Tokens /\ amount \in Nat /\ amount > 0
  BY PoolAssumption, StrategyAssumption
<1>5. /\ fee \in Nat /\ fee * MAX_BPS <= amount * TREASURY_CLAIM_FEE_BPS
      /\ fee <= amount
  <2>1. /\ MAX_BPS \in Nat \ {0} /\ TREASURY_CLAIM_FEE_BPS \in Nat
        /\ TREASURY_CLAIM_FEE_BPS <= MAX_BPS
    BY StrategyAssumption
  <2>2. /\ amount * TREASURY_CLAIM_FEE_BPS \in Nat
        /\ amount * TREASURY_CLAIM_FEE_BPS <= amount * MAX_BPS
    BY <1>4, <2>1, ShareIsLess
  <2>3. fee \in 0 .. amount
    BY <1>4, <2>1, <2>2, QuotientIsLess DEF TreasuryFee
  <2> QED
    BY <1>4, <2>3, TreasuryFeeIsAtMostItsShare
<1>6. tokens[id][mint] \in Nat /\ treasury[mint] \in Nat
  BY <1>4, StrategyAssumption DEF TypeOK, Holding
<1> HIDE DEF mint, fee
<1>7. /\ tokens'[id][mint] = tokens[id][mint] + amount - fee
      /\ treasury'[mint] = treasury[mint] + fee
      /\ \A v \in VaultIds, m \in Tokens : ~(v = id /\ m = mint) => tokens'[v][m] = tokens[v][m]
      /\ \A m \in Tokens \ {mint} : treasury'[m] = treasury[m]
  BY <1>1, <1>4 DEF TypeOK
<1>8. /\ treasury'[mint] - treasury[mint] = fee
      /\ tokens'[id][mint] - tokens[id][mint] = amount - fee
      /\ tokens'[id][mint] >= tokens[id][mint]
      /\ positions[p].fees[side] - positions'[p].fees[side] = amount
  BY <1>3, <1>4, <1>5, <1>6, <1>7, PositionTypes
<1>9. FeesAreSplit(p, side)
  BY <1>1, <1>4, <1>5, <1>8 DEF FeesAreSplit, mint
<1>10. OnlyFeesMove
  <2>1. \A v \in VaultIds, m \in Tokens : tokens[v][m] \in Nat
    BY StrategyAssumption DEF TypeOK, Holding
  <2>2. \A v \in VaultIds, m \in Tokens : tokens'[v][m] >= tokens[v][m]
    BY <1>7, <1>8, <2>1
  <2> QED
    BY <1>2, <2>2 DEF OnlyFeesMove
<1>11. \A m \in Tokens : treasury'[m] # treasury[m] => m = Pools[p][side]
  BY <1>7 DEF mint
<1> QED
  BY <1>1, <1>2, <1>3, <1>9, <1>10, <1>11

\* No other step of a DLMM position lowers its fees or pays the treasury.
LEMMA OtherMeteoraStepsKeepFees ==
  ASSUME TypeOK, AbsentPositionsAreEmpty, NEW id \in VaultIds, NEW p \in Positions, NEW n \in Nat,
         NEW side \in Sides,
         \/ MeteoraDlmmInitializePosition(id, p, n)
         \/ MeteoraDlmmExtendPosition(id, p, n)
         \/ MeteoraDlmmAddLiquidity(id, p, side, n)
         \/ MeteoraDlmmRemoveLiquidity(id, p, side, n)
         \/ VaultCloseDlmmStrategy(id, p)
         \/ DlmmTrade(p, side)
  PROVE  PositionsKeepFees /\ UNCHANGED treasury
<1>0. UNCHANGED treasury
  BY DEF MeteoraDlmmInitializePosition, MeteoraDlmmExtendPosition, MeteoraDlmmAddLiquidity,
     MeteoraDlmmRemoveLiquidity, VaultCloseDlmmStrategy, DlmmTrade
<1>1. CASE MeteoraDlmmInitializePosition(id, p, n)
  <2>1. /\ positions[p].fees = Nothing /\ positions'[p].fees = Nothing /\ positions'[p].exists
        /\ \A q \in Positions \ {p} : positions'[q] = positions[q]
    BY <1>1, PositionTypes DEF MeteoraDlmmInitializePosition, AbsentPositionsAreEmpty, NoPosition
  <2> QED
    BY <1>0, <2>1, OnePositionKeepsFees DEF Nothing
<1>2. CASE \/ MeteoraDlmmExtendPosition(id, p, n)
           \/ MeteoraDlmmAddLiquidity(id, p, side, n)
           \/ MeteoraDlmmRemoveLiquidity(id, p, side, n)
  <2>1. /\ positions'[p].fees = positions[p].fees /\ positions'[p].exists
        /\ \A q \in Positions \ {p} : positions'[q] = positions[q]
    BY <1>2, PositionTypes DEF MeteoraDlmmExtendPosition, MeteoraDlmmAddLiquidity,
       MeteoraDlmmRemoveLiquidity, HoldsPosition, Position
  <2> QED
    BY <1>0, <2>1, OnePositionKeepsFees, PositionTypes
<1>3. CASE VaultCloseDlmmStrategy(id, p)
  <2>1. /\ positions[p].fees = Nothing
        /\ positions'[p].fees = Nothing /\ positions'[p].liquidity = Nothing
        /\ \A q \in Positions \ {p} : positions'[q] = positions[q]
    BY <1>3, PositionTypes DEF VaultCloseDlmmStrategy, NoPosition
  <2> QED
    BY <1>0, <2>1, OnePositionKeepsFees DEF Nothing
<1>4. CASE DlmmTrade(p, side)
  <2>1. PICK fee \in {0, 1} :
          positions' = [positions EXCEPT ![p] =
            [positions[p] EXCEPT !.liquidity = Traded(positions[p].liquidity, side),
                                 !.fees = Earned(positions[p].fees, side, fee)]]
    BY <1>4 DEF DlmmTrade
  <2>2. positions[p].exists
    BY <1>4, PositionTypes DEF DlmmTrade, AbsentPositionsAreEmpty, Nothing
  <2>3. /\ positions'[p].fees = Earned(positions[p].fees, side, fee)
        /\ positions'[p].exists
        /\ \A q \in Positions \ {p} : positions'[q] = positions[q]
    BY <2>1, <2>2, PositionTypes DEF Position
  <2>4. \A s \in Sides : positions'[p].fees[s] >= positions[p].fees[s]
    BY <2>3, PositionTypes DEF Earned
  <2> QED
    BY <1>0, <2>3, <2>4, OnePositionKeepsFees
<1> QED
  BY <1>0, <1>1, <1>2, <1>3, <1>4

\* Every step either keeps fees and the treasury or claims one side of one position.
LEMMA StepsOnFees ==
  ASSUME TypeOK, AbsentPositionsAreEmpty, [Next]_vars
  PROVE  \/ PositionsKeepFees /\ UNCHANGED treasury
         \/ \E id \in VaultIds, p \in Positions, side \in Sides, amount \in Amounts :
              MeteoraDlmmClaimFee(id, p, side, amount)
<1>1. CASE UNCHANGED <<positions, treasury>>
  BY <1>1, UnchangedKeepsFees
<1>2. CASE Administration \/ Books
  BY <1>1, <1>2 DEF Administration, ProtocolStatusChange, ConfigAddManager, ConfigRemoveManager,
     VaultInitialize, VaultStatusChange, VaultClose, Books, DepositResolved, WithdrawalResolved,
     NavPosted, SplToEscrow, SplTransfer, venues
<1>3. CASE Jupiter
  <2>1. ASSUME NEW v, NEW mint, NEW source, NEW destination, NEW spent, NEW received, NEW program,
               \/ JupiterInitializeStrategy(v, mint)
               \/ JupiterSwap(v, mint, source, destination, spent, received)
               \/ VaultCloseJupiterStrategy(v, mint, program)
        PROVE  UNCHANGED <<positions, treasury>>
    BY <2>1 DEF JupiterInitializeStrategy, JupiterSwap, VaultCloseJupiterStrategy, venues
  <2> QED
    BY <1>1, <1>3, <2>1 DEF Jupiter
<1>4. CASE MeteoraDlmm
  <2>1. /\ Amounts \subseteq Nat
        /\ 1 .. MAX_INITIAL_WIDTH \subseteq Nat /\ 1 .. MAX_RESIZE_LENGTH \subseteq Nat
        /\ VaultIds # {} /\ Sides # {} /\ \E n \in Nat : TRUE
    BY StrategyAssumption DEF Sides
  <2> QED
    BY <1>4, <2>1, OtherMeteoraStepsKeepFees DEF MeteoraDlmm
<1>5. CASE Phoenix
  <2>1. ASSUME NEW v, NEW flag, NEW cancel_existing, NEW n, NEW m,
               \/ PhoenixInitializeStrategy(v)
               \/ PhoenixDepositFunds(v, n, m)
               \/ PhoenixWithdrawFunds(v, n, m)
               \/ PhoenixEmberWithdraw(v)
               \/ PhoenixPlaceMarketOrder(v, flag, cancel_existing, n, m)
               \/ PhoenixPlaceLimitOrder(v, cancel_existing, n, m)
               \/ PhoenixCancelOrders(v, n)
               \/ VaultClosePhoenixStrategy(v)
        PROVE  UNCHANGED <<positions, treasury>>
    BY <2>1 DEF PhoenixInitializeStrategy, PhoenixDepositFunds, PhoenixWithdrawFunds,
       PhoenixEmberWithdraw, PhoenixPlaceMarketOrder, PhoenixPlaceLimitOrder,
       PhoenixCancelOrders, VaultClosePhoenixStrategy, venues
  <2>2. ASSUME NEW v, \/ PhoenixOnboard(v) \/ PhoenixPayQueued(v) \/ PhoenixFill(v)
                      \/ PhoenixMark(v) \/ PhoenixLiquidate(v)
        PROVE  UNCHANGED <<positions, treasury>>
    BY <2>2 DEF PhoenixOnboard, PhoenixPayQueued, PhoenixFill, PhoenixMark, PhoenixLiquidate,
       PhoenixChanges
  <2> QED
    BY <1>1, <1>5, <2>1, <2>2 DEF Phoenix
<1>6. CASE UNCHANGED vars
  BY <1>1, <1>6 DEF vars
<1> QED
  BY <1>2, <1>3, <1>4, <1>5, <1>6 DEF Next

\* Every step keeps types.
LEMMA AllStepsKeepTypes == TypeOK /\ [Next]_vars => TypeOK'
BY AdministrationTypes, BooksTypes, JupiterTypes, MeteoraDlmmTypes, PhoenixTypes, StutterTypes
   DEF Next

\* An address without a position stays empty.
LEMMA AbsentPositionsStayEmpty ==
  TypeOK /\ AbsentPositionsAreEmpty /\ [Next]_vars => AbsentPositionsAreEmpty'
<1> SUFFICES ASSUME TypeOK, AbsentPositionsAreEmpty, [Next]_vars
             PROVE  AbsentPositionsAreEmpty'
  OBVIOUS
<1>1. CASE PositionsKeepFees
  BY <1>1 DEF PositionsKeepFees, AbsentPositionsAreEmpty
<1>2. ASSUME NEW id \in VaultIds, NEW p \in Positions, NEW side \in Sides,
             NEW amount \in Amounts, MeteoraDlmmClaimFee(id, p, side, amount)
      PROVE  AbsentPositionsAreEmpty'
  BY <1>2, ClaimSplitsFees DEF AbsentPositionsAreEmpty
<1> QED
  BY <1>1, <1>2, StepsOnFees

\* The treasury is paid at claims of fees only: at most its rate of what a
\* claim takes out of a position, while the vault gets all the rest, keeps its
\* liquidity and loses nothing of its idle balances.
THEOREM TreasuryTakesOnlyFees == Spec => TreasuryTakesFeesOnly
<1>1. Init => AbsentPositionsAreEmpty
  BY DEF Init, NoPosition, AbsentPositionsAreEmpty
<1>2. TypeOK /\ AbsentPositionsAreEmpty /\ [Next]_vars =>
        \A p \in Positions, side \in Sides :
          positions'[p].fees[side] < positions[p].fees[side] => FeesAreSplit(p, side)
  <2> SUFFICES ASSUME TypeOK, AbsentPositionsAreEmpty, [Next]_vars,
                      NEW p \in Positions, NEW side \in Sides,
                      positions'[p].fees[side] < positions[p].fees[side], TypeOK'
               PROVE  FeesAreSplit(p, side)
    BY AllStepsKeepTypes
  <2>1. positions'[p].fees[side] \in Nat /\ positions[p].fees[side] \in Nat
    BY StrategyAssumption DEF TypeOK, Position, Holding
  <2>2. ~PositionsKeepFees
    BY <2>1 DEF PositionsKeepFees
  <2>3. PICK id \in VaultIds, q \in Positions, s \in Sides, amount \in Amounts :
          MeteoraDlmmClaimFee(id, q, s, amount)
    BY <2>2, StepsOnFees
  <2>4. q = p /\ s = side
    BY <2>1, <2>3, ClaimSplitsFees
  <2> QED
    BY <2>3, <2>4, ClaimSplitsFees
<1>3. TypeOK /\ AbsentPositionsAreEmpty /\ [Next]_vars =>
        \A mint \in Tokens : treasury'[mint] # treasury[mint] =>
          /\ \E p \in Positions, side \in Sides : Pools[p][side] = mint /\ FeesAreSplit(p, side)
          /\ OnlyFeesMove
  <2> SUFFICES ASSUME TypeOK, AbsentPositionsAreEmpty, [Next]_vars,
                      NEW mint \in Tokens, treasury'[mint] # treasury[mint]
               PROVE  /\ \E p \in Positions, side \in Sides :
                           Pools[p][side] = mint /\ FeesAreSplit(p, side)
                      /\ OnlyFeesMove
    OBVIOUS
  <2>1. PICK id \in VaultIds, p \in Positions, side \in Sides, amount \in Amounts :
          MeteoraDlmmClaimFee(id, p, side, amount)
    BY StepsOnFees
  <2>2. Pools[p][side] = mint /\ FeesAreSplit(p, side) /\ OnlyFeesMove
    BY <2>1, ClaimSplitsFees
  <2> QED
    BY <2>2
<1>4. TypeOK /\ AbsentPositionsAreEmpty /\ [Next]_vars =>
        [/\ \A p \in Positions, side \in Sides :
              positions'[p].fees[side] < positions[p].fees[side] => FeesAreSplit(p, side)
         /\ \A mint \in Tokens : treasury'[mint] # treasury[mint] =>
              /\ \E p \in Positions, side \in Sides :
                   Pools[p][side] = mint /\ FeesAreSplit(p, side)
              /\ OnlyFeesMove]_vars
  BY <1>2, <1>3
<1> QED
  BY <1>1, <1>4, AbsentPositionsStayEmpty, StrategyTypes, PTL DEF Spec, TreasuryTakesFeesOnly

-----------------------------------------------------------------------------
(* Collateral. *)

\* The wrapped USDC of Phoenix is neither a Jupiter target nor in a DLMM pool;
\* a swap or a pool could otherwise take it at any price.
CanonicalIsCollateralOnly ==
  /\ CanonicalMint \notin Mints
  /\ \A p \in Positions, side \in Sides : Pools[p][side] # CanonicalMint

\* A step leaves collateral and wrapped USDC of the vault, or adds to the latter.
KeepsCollateral(id) ==
  /\ traders'[id].collateral = traders[id].collateral
  /\ tokens'[id][CanonicalMint] >= tokens[id][CanonicalMint]

MovesAtPar(id) == traders[id].lots = 0 => KeepsCollateral(id) \/ Usdc(id)' = Usdc(id)

\* What TypeOK says of the balances of a vault.
LEMMA BalanceTypes ==
  ASSUME TypeOK, NEW id \in VaultIds
  PROVE  /\ tokens \in [VaultIds -> [Tokens -> Nat]]
         /\ traders \in [VaultIds -> TraderAccount] /\ traders[id] \in TraderAccount
         /\ traders[id].collateral \in Nat /\ traders[id].lots \in Nat
         /\ traders[id].queued \in Nat /\ traders[id].resting \in Nat
         /\ tokens[id][DepositMint] \in Nat /\ tokens[id][CanonicalMint] \in Nat
         /\ DepositMint \in Tokens /\ CanonicalMint \in Tokens /\ CanonicalMint # DepositMint
BY StrategyAssumption DEF TypeOK, TraderAccount, Holding, Tokens

\* Moves of other tokens.
LEMMA OtherTokensKeepCollateral ==
  ASSUME TypeOK, NEW id \in VaultIds, UNCHANGED traders,
         tokens'[id][CanonicalMint] >= tokens[id][CanonicalMint]
  PROVE  MovesAtPar(id)
BY DEF MovesAtPar, KeepsCollateral

\* Outside Phoenix, tokens of other mints move.
LEMMA OutsidePhoenixAtPar ==
  ASSUME TypeOK, CanonicalIsCollateralOnly, NEW id \in VaultIds,
         Administration \/ Books \/ Jupiter \/ MeteoraDlmm
  PROVE  MovesAtPar(id)
<1>1. CASE UNCHANGED <<tokens, traders>>
  BY <1>1, BalanceTypes, OtherTokensKeepCollateral
<1>2. ASSUME NEW v, NEW mint, NEW balance, mint # CanonicalMint,
             tokens' = [tokens EXCEPT ![v][mint] = balance],
             UNCHANGED traders
      PROVE  MovesAtPar(id)
  <2>1. tokens'[id][CanonicalMint] = tokens[id][CanonicalMint]
    BY <1>2, BalanceTypes
  <2> QED
    BY <1>2, <2>1, BalanceTypes, OtherTokensKeepCollateral
<1>3. CASE Administration
  BY <1>1, <1>3 DEF Administration, ProtocolStatusChange, ConfigAddManager, ConfigRemoveManager,
     VaultInitialize, VaultStatusChange, VaultClose, venues
<1>4. CASE Books
  <2>1. ASSUME NEW v \in VaultIds, NEW amount \in Amounts,
               DepositResolved(v, amount) \/ WithdrawalResolved(v, amount)
        PROVE  MovesAtPar(id)
    <3>1. /\ UNCHANGED traders
          /\ \/ tokens' = [tokens EXCEPT ![v][DepositMint] = tokens[v][DepositMint] + amount]
             \/ tokens' = [tokens EXCEPT ![v][DepositMint] = tokens[v][DepositMint] - amount]
      BY <2>1 DEF DepositResolved, WithdrawalResolved, venues
    <3> QED
      BY <1>2, <3>1, BalanceTypes
  <2>2. ASSUME NEW v \in VaultIds, NavPosted(v) \/ SplToEscrow(v)
        PROVE  MovesAtPar(id)
    BY <1>1, <2>2 DEF NavPosted, SplToEscrow, venues
  <2>3. ASSUME NEW v \in VaultIds, NEW mint \in Gifts, SplTransfer(v, mint)
        PROVE  MovesAtPar(id)
    <3>1. UNCHANGED traders /\ tokens' = [tokens EXCEPT ![v][mint] = @ + 1]
      BY <2>3 DEF SplTransfer, venues
    <3>2. tokens'[id][CanonicalMint] \in {tokens[id][CanonicalMint], tokens[id][CanonicalMint] + 1}
      BY <3>1, BalanceTypes
    <3>3. tokens'[id][CanonicalMint] >= tokens[id][CanonicalMint]
      BY <3>2, BalanceTypes
    <3> QED
      BY <3>1, <3>3, OtherTokensKeepCollateral
  <2> QED
    BY <1>4, <2>1, <2>2, <2>3 DEF Books
<1>5. CASE Jupiter
  <2>1. ASSUME NEW v \in VaultIds, NEW mint \in Mints, NEW program,
               JupiterInitializeStrategy(v, mint) \/ VaultCloseJupiterStrategy(v, mint, program)
        PROVE  MovesAtPar(id)
    BY <1>1, <2>1 DEF JupiterInitializeStrategy, VaultCloseJupiterStrategy, venues
  <2>2. ASSUME NEW v \in VaultIds, NEW mint \in Mints,
               NEW source \in {mint, DepositMint}, NEW destination \in {mint, DepositMint},
               NEW spent \in Amounts, NEW received \in Amounts,
               JupiterSwap(v, mint, source, destination, spent, received)
        PROVE  MovesAtPar(id)
    <3>1. /\ UNCHANGED traders
          /\ source # destination
          /\ tokens' = [tokens EXCEPT ![v][source] = @ - spent, ![v][destination] = @ + received]
      BY <2>2 DEF JupiterSwap, venues
    <3>2. tokens' = [tokens EXCEPT ![v][source] = tokens[v][source] - spent,
                                   ![v][destination] = tokens[v][destination] + received]
      BY <3>1, BalanceTypes, <2>2 DEF Tokens
    <3>3. source # CanonicalMint /\ destination # CanonicalMint
      BY <2>2, BalanceTypes DEF CanonicalIsCollateralOnly
    <3>4. tokens'[id][CanonicalMint] = tokens[id][CanonicalMint]
      BY <3>2, <3>3, BalanceTypes
    <3> QED
      BY <3>1, <3>4, BalanceTypes, OtherTokensKeepCollateral
  <2> QED
    BY <1>5, <2>1, <2>2 DEF Jupiter
<1>6. CASE MeteoraDlmm
  <2>1. ASSUME NEW v \in VaultIds, NEW p \in Positions, NEW n,
               \/ MeteoraDlmmInitializePosition(v, p, n)
               \/ MeteoraDlmmExtendPosition(v, p, n)
               \/ VaultCloseDlmmStrategy(v, p)
        PROVE  MovesAtPar(id)
    BY <1>1, <2>1 DEF MeteoraDlmmInitializePosition, MeteoraDlmmExtendPosition,
       VaultCloseDlmmStrategy
  <2>2. ASSUME NEW p \in Positions, NEW side \in Sides, DlmmTrade(p, side)
        PROVE  MovesAtPar(id)
    BY <1>1, <2>2 DEF DlmmTrade
  <2>3. ASSUME NEW v \in VaultIds, NEW p \in Positions, NEW side \in Sides, NEW amount \in Amounts,
               \/ MeteoraDlmmAddLiquidity(v, p, side, amount)
               \/ MeteoraDlmmRemoveLiquidity(v, p, side, amount)
               \/ MeteoraDlmmClaimFee(v, p, side, amount)
        PROVE  MovesAtPar(id)
    <3>1. UNCHANGED traders
          /\ \E balance : tokens' = [tokens EXCEPT ![v][Pools[p][side]] = balance]
      BY <2>3 DEF MeteoraDlmmAddLiquidity, MeteoraDlmmRemoveLiquidity, MeteoraDlmmClaimFee
    <3> QED
      BY <1>2, <2>3, <3>1 DEF CanonicalIsCollateralOnly
  <2> QED
    BY <1>6, <2>1, <2>2, <2>3 DEF MeteoraDlmm
<1> QED
  BY <1>3, <1>4, <1>5, <1>6

\* At Phoenix, USDC is wrapped, deposited, withdrawn, paid and unwrapped one to
\* one, or the vault has a position whose value moves.
LEMMA PhoenixAtPar ==
  ASSUME TypeOK, Phoenix, NEW id \in VaultIds
  PROVE  MovesAtPar(id)
<1>1. CASE UNCHANGED tokens /\ traders'[id].collateral = traders[id].collateral
  BY <1>1, BalanceTypes DEF MovesAtPar, KeepsCollateral
<1>2. ASSUME NEW v \in VaultIds, v # id,
             \A u \in VaultIds \ {v} : traders'[u] = traders[u] /\ tokens'[u] = tokens[u]
      PROVE  MovesAtPar(id)
  BY <1>2, BalanceTypes DEF MovesAtPar, KeepsCollateral
<1>3. ASSUME NEW v \in VaultIds, PhoenixInitializeStrategy(v) \/ PhoenixOnboard(v)
      PROVE  MovesAtPar(id)
  <2>1. /\ UNCHANGED tokens
        /\ UNCHANGED traders \/ \E stage : traders' = [traders EXCEPT ![v].stage = stage]
    BY <1>3 DEF PhoenixInitializeStrategy, PhoenixOnboard
  <2>2. traders'[id].collateral = traders[id].collateral
    BY <2>1, BalanceTypes DEF TraderAccount
  <2> QED
    BY <1>1, <2>1, <2>2
<1>4. ASSUME NEW v \in VaultIds, NEW flag, NEW cancel_existing, NEW n, NEW m,
             \/ PhoenixPlaceMarketOrder(v, flag, cancel_existing, n, m)
             \/ PhoenixPlaceLimitOrder(v, cancel_existing, n, m)
             \/ PhoenixCancelOrders(v, n)
      PROVE  MovesAtPar(id)
  <2>1. UNCHANGED tokens
    BY <1>4 DEF PhoenixPlaceMarketOrder, PhoenixPlaceLimitOrder, PhoenixCancelOrders
  <2>2. \E lots, resting : \/ traders' = [traders EXCEPT ![v] = [@ EXCEPT !.lots = lots,
                                                                     !.resting = resting]]
                           \/ traders' = [traders EXCEPT ![v].resting = resting]
    BY <1>4 DEF PhoenixPlaceMarketOrder, PhoenixPlaceLimitOrder, PhoenixCancelOrders
  <2>3. traders'[id].collateral = traders[id].collateral
    BY <2>2, BalanceTypes DEF TraderAccount
  <2> QED
    BY <1>1, <2>1, <2>3
<1>5. ASSUME NEW v \in VaultIds, VaultClosePhoenixStrategy(v)
      PROVE  MovesAtPar(id)
  BY <1>1, <1>5 DEF VaultClosePhoenixStrategy, venues
<1>6. ASSUME NEW v \in VaultIds, PhoenixLiquidate(v) \/ PhoenixFill(v)
      PROVE  MovesAtPar(id)
  <2>1. /\ UNCHANGED tokens
        /\ \E lots, resting :
             traders' = [traders EXCEPT ![v].lots = lots, ![v].resting = resting]
    BY <1>6 DEF PhoenixLiquidate, PhoenixFill
  <2>2. traders'[id].collateral = traders[id].collateral
    BY <2>1, BalanceTypes DEF TraderAccount
  <2> QED
    BY <1>1, <2>1, <2>2
<1>7. ASSUME NEW v \in VaultIds, PhoenixMark(v)
      PROVE  MovesAtPar(id)
  <2>1. CASE v = id
    <3>1. traders[id].lots > 0
      BY <1>7, <2>1 DEF PhoenixMark
    <3> QED
      BY <3>1, BalanceTypes DEF MovesAtPar
  <2>2. CASE v # id
    <3>1. UNCHANGED tokens /\ traders'[id].collateral = traders[id].collateral
      BY <1>7, <2>2, BalanceTypes DEF PhoenixMark, PhoenixChanges
    <3> QED
      BY <1>1, <3>1
  <2> QED
    BY <2>1, <2>2
<1>8. ASSUME NEW v \in VaultIds, NEW amount \in Amounts, NEW minted \in Amounts \cup {0},
             PhoenixDepositFunds(v, amount, minted)
      PROVE  MovesAtPar(id)
  <2>1. /\ tokens[v][CanonicalMint] + minted - amount = tokens[v][CanonicalMint]
        /\ tokens' = [tokens EXCEPT ![v][DepositMint] = @ - amount,
                                    ![v][CanonicalMint] = @ + minted - amount]
        /\ traders' = [traders EXCEPT ![v].collateral = @ + amount]
    BY <1>8 DEF PhoenixDepositFunds, AmountsMatch
  <2>2. amount \in Nat /\ minted \in Nat
    BY StrategyAssumption
  <2>3. CASE v = id
    <3>1. /\ tokens'[id][DepositMint] = tokens[id][DepositMint] - amount
          /\ tokens'[id][CanonicalMint] = tokens[id][CanonicalMint] + minted - amount
      BY <2>1, <2>3, BalanceTypes
    <3>2. traders'[id].collateral = traders[id].collateral + amount
      BY <2>1, <2>3, BalanceTypes DEF TraderAccount
    <3>3. tokens'[id][CanonicalMint] = tokens[id][CanonicalMint]
      BY <2>1, <2>3, <3>1
    <3>4. /\ tokens[id][DepositMint] \in Nat /\ tokens[id][CanonicalMint] \in Nat
          /\ traders[id].collateral \in Nat
      BY BalanceTypes
    <3>5. tokens'[id][DepositMint] = tokens[id][DepositMint] - amount
      BY <3>1
    <3>6. Usdc(id)' = Usdc(id)
      BY <2>2, <3>2, <3>3, <3>4, <3>5 DEF Usdc
    <3> QED
      BY <3>6 DEF MovesAtPar
  <2>4. CASE v # id
    BY <1>2, <2>1, <2>4, BalanceTypes
  <2> QED
    BY <2>3, <2>4
<1>9. ASSUME NEW v \in VaultIds, NEW amount \in Amounts, NEW received \in Amounts \cup {0},
             PhoenixWithdrawFunds(v, amount, received)
      PROVE  MovesAtPar(id)
  <2>1. /\ received \in {amount, 0}
        /\ tokens' = [tokens EXCEPT ![v][DepositMint] = @ + received]
        /\ traders' = [traders EXCEPT
                         ![v].collateral = IF received > 0 THEN @ - amount ELSE @,
                         ![v].queued = IF received = 0 THEN @ + amount ELSE @]
    BY <1>9 DEF PhoenixWithdrawFunds, IsPaidOrQueued
  <2>2. amount \in Nat \ {0}
    BY StrategyAssumption
  <2>3. CASE v = id
    <3>1. /\ tokens'[id][DepositMint] = tokens[id][DepositMint] + received
          /\ tokens'[id][CanonicalMint] = tokens[id][CanonicalMint]
      BY <2>1, <2>3, BalanceTypes
    <3>2. traders'[id].collateral =
            IF received > 0 THEN traders[id].collateral - amount ELSE traders[id].collateral
      BY <2>1, <2>3, BalanceTypes DEF TraderAccount
    <3> QED
      BY <2>1, <2>2, <3>1, <3>2, BalanceTypes DEF MovesAtPar, Usdc
  <2>4. CASE v # id
    BY <1>2, <2>1, <2>4, BalanceTypes
  <2> QED
    BY <2>3, <2>4
<1>10. ASSUME NEW v \in VaultIds, PhoenixEmberWithdraw(v)
       PROVE  MovesAtPar(id)
  <2>1. /\ UNCHANGED traders
        /\ tokens' = [tokens EXCEPT ![v][DepositMint] = @ + tokens[v][CanonicalMint],
                                    ![v][CanonicalMint] = 0]
    BY <1>10 DEF PhoenixEmberWithdraw, venues
  <2>2. CASE v = id
    <3>1. /\ tokens'[id][DepositMint] = tokens[id][DepositMint] + tokens[id][CanonicalMint]
          /\ tokens'[id][CanonicalMint] = 0
      BY <2>1, <2>2, BalanceTypes
    <3> QED
      BY <2>1, <3>1, BalanceTypes DEF MovesAtPar, Usdc
  <2>3. CASE v # id
    BY <1>2, <2>1, <2>3, BalanceTypes
  <2> QED
    BY <2>2, <2>3
<1>11. ASSUME NEW v \in VaultIds, PhoenixPayQueued(v)
       PROVE  MovesAtPar(id)
  <2> DEFINE paid == IF traders[v].collateral >= traders[v].queued THEN traders[v].queued ELSE 0
  <2>1. /\ tokens' = [tokens EXCEPT ![v][CanonicalMint] = @ + paid]
        /\ traders' = [traders EXCEPT ![v].collateral = @ - paid, ![v].queued = 0]
    BY <1>11 DEF PhoenixPayQueued
  <2>2. paid \in Nat
    BY BalanceTypes
  <2> HIDE DEF paid
  <2>3. CASE v = id
    <3>1. /\ tokens'[id][DepositMint] = tokens[id][DepositMint]
          /\ tokens'[id][CanonicalMint] = tokens[id][CanonicalMint] + paid
      BY <2>1, <2>3, BalanceTypes
    <3>2. traders'[id].collateral = traders[id].collateral - paid
      BY <2>1, <2>3, BalanceTypes DEF TraderAccount
    <3> QED
      BY <2>2, <3>1, <3>2, BalanceTypes DEF MovesAtPar, Usdc
  <2>4. CASE v # id
    BY <1>2, <2>1, <2>4, BalanceTypes
  <2> QED
    BY <2>3, <2>4
<1> QED
  BY <1>3, <1>4, <1>5, <1>6, <1>7, <1>8, <1>9, <1>10, <1>11 DEF Phoenix

\* Where wrapped USDC is collateral only, no sequence of deposits, partial
\* mints, queued withdrawals and unwraps loses or makes a unit of the USDC of a
\* vault that has no position.
THEOREM CollateralStaysAtPar ==
  ASSUME CanonicalIsCollateralOnly
  PROVE  Spec => CollateralMovesAtPar
<1>1. TypeOK /\ [Next]_vars =>
        [\A id \in VaultIds :
           traders[id].lots = 0 /\ ( traders'[id].collateral # traders[id].collateral
                                  \/ tokens'[id][CanonicalMint] < tokens[id][CanonicalMint])
             => Usdc(id)' = Usdc(id)]_vars
  <2> SUFFICES ASSUME TypeOK, Next, NEW id \in VaultIds, traders[id].lots = 0,
                      \/ traders'[id].collateral # traders[id].collateral
                      \/ tokens'[id][CanonicalMint] < tokens[id][CanonicalMint]
               PROVE  Usdc(id)' = Usdc(id)
    OBVIOUS
  <2>1. MovesAtPar(id)
    BY OutsidePhoenixAtPar, PhoenixAtPar, CanonicalIsCollateralOnly DEF Next
  <2>2. TypeOK'
    BY AllStepsKeepTypes
  <2>3. tokens'[id][CanonicalMint] \in Nat /\ tokens[id][CanonicalMint] \in Nat
    BY <2>2, StrategyAssumption DEF TypeOK, Holding, Tokens
  <2> QED
    BY <2>1, <2>3 DEF MovesAtPar, KeepsCollateral
<1> QED
  BY <1>1, StrategyTypes, PTL DEF Spec, CollateralMovesAtPar

=============================================================================
