------------------------- MODULE VaultStrategiesProofs -------------------------
(***************************************************************************)
(* Proofs about VaultStrategies, for every number of vaults, mints and     *)
(* positions and every bound.                                              *)
(***************************************************************************)
EXTENDS VaultStrategiesProps, FiniteSetTheorems, TLAPS

-----------------------------------------------------------------------------
(* Types. *)

\* Absent accounts have the types of their fields.
LEMMA AbsentAccounts ==
  /\ NoVault \in Vault /\ NoPosition \in Position /\ NoTrader \in TraderAccount
  /\ NoStrategy \in [exists : BOOLEAN, id : U32]
<1>1. NoVault \in Vault
  <2>1. (CHOOSE a \in Authorities : TRUE) \in Authorities
    BY StrategyAssumption
  <2> QED
    BY <2>1, StrategyAssumption DEF NoVault, Vault, Statuses, U32
<1>2. NoPosition \in Position
  <2>1. (CHOOSE id \in VaultIds : TRUE) \in VaultIds
    BY StrategyAssumption
  <2>2. Nothing \in [Sides -> Holding]
    BY StrategyAssumption DEF Nothing, Holding
  <2> QED
    BY <2>1, <2>2, StrategyAssumption DEF NoPosition, Position
<1>3. NoTrader \in TraderAccount
  BY StrategyAssumption DEF NoTrader, TraderAccount, Holding, Stages
<1>4. NoStrategy \in [exists : BOOLEAN, id : U32]
  BY StrategyAssumption DEF NoStrategy, U32
<1> QED
  BY <1>1, <1>2, <1>3, <1>4

\* A vault starts without accounts, records and tokens.
LEMMA InitialTypes == Init => TypeOK
<1> SUFFICES ASSUME Init PROVE TypeOK
  OBVIOUS
<1>1. config \in [status : Statuses, next_vault_id : Nat] /\ managers \subseteq Authorities
  BY DEF Init, Statuses
<1>2. vaults \in [VaultIds -> Vault] /\ positions \in [Positions -> Position]
      /\ traders \in [VaultIds -> TraderAccount]
  BY AbsentAccounts DEF Init
<1>3. strategies \in [VaultIds -> [Targets -> [exists : BOOLEAN, id : U32]]]
  BY AbsentAccounts DEF Init
<1>4. tokens \in [VaultIds -> [Tokens -> Holding]] /\ treasury \in [Tokens -> Holding]
  BY StrategyAssumption DEF Init, Holding
<1>5. in_use \subseteq VaultIds /\ stray \subseteq VaultIds
  BY DEF Init
<1> QED
  BY <1>1, <1>2, <1>3, <1>4, <1>5 DEF TypeOK

\* Steps of the admin, the guardian and the manager on whitelist and vaults.
LEMMA AdministrationTypes == TypeOK /\ Administration => TypeOK'
<1> SUFFICES ASSUME TypeOK, Administration PROVE TypeOK'
  OBVIOUS
<1> USE StrategyAssumption DEF TypeOK
<1>1. ASSUME NEW status \in NewStatuses, ProtocolStatusChange(status) PROVE TypeOK'
  BY <1>1 DEF ProtocolStatusChange, Statuses, books, venues
<1>2. ASSUME NEW a \in Authorities, ConfigAddManager(a) \/ ConfigRemoveManager(a) PROVE TypeOK'
  BY <1>2 DEF ConfigAddManager, ConfigRemoveManager, books, venues
<1>3. ASSUME NEW a \in Authorities, VaultInitialize(a) PROVE TypeOK'
  <2>1. [NoVault EXCEPT !.exists = TRUE, !.authority = a] \in Vault
    BY AbsentAccounts DEF Vault
  <2>2. vaults' \in [VaultIds -> Vault]
    BY <1>3, <2>1 DEF VaultInitialize
  <2>3. config' \in [status : Statuses, next_vault_id : Nat]
    <3>1. config.next_vault_id + 1 \in Nat /\ config.status \in Statuses
      OBVIOUS
    <3>2. config' = [config EXCEPT !.next_vault_id = config.next_vault_id + 1]
      BY <1>3 DEF VaultInitialize, VaultIdIncremented
    <3> QED
      BY <3>1, <3>2
  <2> QED
    BY <1>3, <2>2, <2>3 DEF VaultInitialize, books, venues
<1>4. ASSUME NEW id \in VaultIds, NEW status \in NewStatuses, VaultStatusChange(id, status)
      PROVE TypeOK'
  <2>1. [vaults[id] EXCEPT !.status = status] \in Vault
    <3>1. vaults[id] \in Vault /\ status \in Statuses
      BY DEF Statuses
    <3> QED
      BY <3>1 DEF Vault
  <2>2. vaults' \in [VaultIds -> Vault]
    BY <1>4, <2>1 DEF VaultStatusChange
  <2> QED
    BY <1>4, <2>2 DEF VaultStatusChange, books, venues
<1>5. ASSUME NEW id \in VaultIds, VaultClose(id) PROVE TypeOK'
  <2>1. vaults' \in [VaultIds -> Vault]
    BY <1>5, AbsentAccounts DEF VaultClose
  <2> QED
    BY <1>5, <2>1 DEF VaultClose, books, venues
<1> QED
  BY <1>1, <1>2, <1>3, <1>4, <1>5 DEF Administration

\* Steps of requests, NAVs and strangers.
LEMMA BooksTypes == TypeOK /\ Books => TypeOK'
<1> SUFFICES ASSUME TypeOK, Books PROVE TypeOK'
  OBVIOUS
<1> USE StrategyAssumption DEF TypeOK, Holding, Tokens
<1>1. ASSUME NEW id \in VaultIds, NEW amount \in Amounts,
             DepositResolved(id, amount) \/ WithdrawalResolved(id, amount)
      PROVE TypeOK'
  <2>1. /\ tokens[id][DepositMint] \in Nat /\ amount \in Nat /\ DepositMint \in Tokens
        /\ in_use' \subseteq VaultIds
    <3>1. tokens[id][DepositMint] \in Nat /\ amount \in Nat /\ DepositMint \in Tokens
      OBVIOUS
    <3>2. in_use' \subseteq VaultIds
      BY <1>1 DEF DepositResolved, WithdrawalResolved
    <3> QED
      BY <3>1, <3>2
  <2>2. CASE DepositResolved(id, amount)
    BY <2>1, <2>2 DEF DepositResolved, venues
  <2>3. CASE WithdrawalResolved(id, amount)
    BY <2>1, <2>3 DEF WithdrawalResolved, venues
  <2> QED
    BY <1>1, <2>2, <2>3
<1>2. ASSUME NEW id \in VaultIds, NavPosted(id) PROVE TypeOK'
  <2>1. in_use' \subseteq VaultIds
    BY <1>2 DEF NavPosted
  <2> QED
    BY <1>2, <2>1 DEF NavPosted, venues
<1>3. ASSUME NEW id \in VaultIds, SplToEscrow(id) PROVE TypeOK'
  <2>1. stray' \subseteq VaultIds
    BY <1>3 DEF SplToEscrow
  <2> QED
    BY <1>3, <2>1 DEF SplToEscrow, venues
<1>4. ASSUME NEW id \in VaultIds, NEW mint \in Gifts, SplTransfer(id, mint) PROVE TypeOK'
  BY <1>4 DEF SplTransfer, books, venues
<1> QED
  BY <1>1, <1>2, <1>3, <1>4 DEF Books

\* Records that are opened or closed.
LEMMA RecordTypes ==
  ASSUME TypeOK, NEW id \in VaultIds, NEW target \in Targets,
         OpenStrategy(id, target) \/ CloseStrategy(id, target)
  PROVE  /\ vaults' \in [VaultIds -> Vault]
         /\ strategies' \in [VaultIds -> [Targets -> [exists : BOOLEAN, id : U32]]]
<1>1. vaults[id] \in Vault /\ strategies[id] \in [Targets -> [exists : BOOLEAN, id : U32]]
  BY DEF TypeOK
<1>2. CASE OpenStrategy(id, target)
  <2>1. [vaults[id] EXCEPT !.next_strategy_id = @ + 1, !.open_strategy_count = @ + 1] \in Vault
    BY <1>1, <1>2 DEF OpenStrategy, Vault
  <2>2. [exists |-> TRUE, id |-> vaults[id].next_strategy_id] \in [exists : BOOLEAN, id : U32]
    BY <1>1 DEF Vault
  <2>3. vaults' = [vaults EXCEPT ![id] =
          [vaults[id] EXCEPT !.next_strategy_id = @ + 1, !.open_strategy_count = @ + 1]]
    BY <1>2, <1>1 DEF OpenStrategy, StrategyAdded, TypeOK, Vault
  <2> QED
    BY <1>2, <2>1, <2>2, <2>3 DEF OpenStrategy, TypeOK
<1>3. CASE CloseStrategy(id, target)
  <2>1. [vaults[id] EXCEPT !.open_strategy_count = @ - 1] \in Vault
    BY <1>1, <1>3, StrategyAssumption DEF CloseStrategy, Vault, U32
  <2> QED
    BY <1>3, <2>1, AbsentAccounts DEF CloseStrategy, StrategyDropped, TypeOK
<1> QED
  BY <1>2, <1>3

\* Steps of the Jupiter instructions.
LEMMA JupiterTypes == TypeOK /\ Jupiter => TypeOK'
<1> SUFFICES ASSUME TypeOK, NEW id \in VaultIds, NEW mint \in Mints,
      \/ JupiterInitializeStrategy(id, mint)
      \/ \E source, destination \in {mint, DepositMint}, spent, received \in Amounts :
           JupiterSwap(id, mint, source, destination, spent, received)
      \/ \E token_program \in TokenPrograms :
           VaultCloseJupiterStrategy(id, mint, token_program)
    PROVE TypeOK'
  BY DEF Jupiter
<1> USE StrategyAssumption DEF TypeOK
<1>1. mint \in Targets /\ mint \in Tokens /\ DepositMint \in Tokens
  BY DEF Targets, Tokens
<1>2. CASE JupiterInitializeStrategy(id, mint)
  BY <1>1, <1>2, RecordTypes DEF JupiterInitializeStrategy, OpenStrategy, books, venues
<1>3. ASSUME NEW source \in {mint, DepositMint}, NEW destination \in {mint, DepositMint},
             NEW spent \in Amounts, NEW received \in Amounts,
             JupiterSwap(id, mint, source, destination, spent, received)
      PROVE TypeOK'
  <2>1. tokens[id][source] - spent \in Holding /\ tokens[id][destination] + received \in Holding
    BY <1>1, <1>3 DEF JupiterSwap, Holding
  <2>2. tokens' \in [VaultIds -> [Tokens -> Holding]]
    <3>1. source # destination /\ source \in Tokens /\ destination \in Tokens
      BY <1>1, <1>3 DEF JupiterSwap
    <3> QED
      BY <1>3, <2>1, <3>1 DEF JupiterSwap
  <2> QED
    BY <1>3, <2>2 DEF JupiterSwap, books, venues
<1>4. ASSUME NEW token_program \in TokenPrograms,
             VaultCloseJupiterStrategy(id, mint, token_program)
      PROVE TypeOK'
  BY <1>1, <1>4, RecordTypes DEF VaultCloseJupiterStrategy, books, venues
<1> QED
  BY <1>2, <1>3, <1>4


\* A share of at most one is at most the whole.
LEMMA ShareIsLess ==
  ASSUME NEW a \in Nat, NEW b \in Nat, NEW c \in Nat, b <= c
  PROVE  a * b \in Nat /\ a * b <= a * c
<1>1. c - b \in Nat /\ a * (c - b) \in Nat
  OBVIOUS
<1>2. a * c = a * b + a * (c - b)
  OBVIOUS
<1> QED
  BY <1>1, <1>2

\* Dividing by the unit of a rate gives at most the whole.
LEMMA QuotientIsLess ==
  ASSUME NEW n \in Nat, NEW a \in Nat, NEW d \in Nat \ {0}, n <= a * d
  PROVE  n \div d \in 0 .. a
<1>1. n \div d \in Nat /\ n = d * (n \div d) + (n % d) /\ n % d \in 0 .. d - 1
  OBVIOUS
<1>2. ASSUME n \div d > a PROVE FALSE
  <2>1. d * (n \div d) >= d * (a + 1)
    BY <1>1, <1>2, ShareIsLess
  <2>2. d * (a + 1) = a * d + d
    OBVIOUS
  <2> QED
    BY <1>1, <2>1, <2>2
<1> QED
  BY <1>1, <1>2

\* Steps of the DLMM instructions and of trading in the pool.
LEMMA MeteoraDlmmTypes == TypeOK /\ MeteoraDlmm => TypeOK'
<1> SUFFICES ASSUME TypeOK, MeteoraDlmm PROVE TypeOK'
  OBVIOUS
<1> USE StrategyAssumption DEF TypeOK
<1>1. ASSUME NEW id \in VaultIds, NEW p \in Positions, NEW width \in 1 .. MAX_INITIAL_WIDTH,
             MeteoraDlmmInitializePosition(id, p, width)
      PROVE TypeOK'
  <2>1. [NoPosition EXCEPT !.exists = TRUE, !.owner = id, !.width = width] \in Position
    <3>1. width \in 0 .. MAX_POSITION_WIDTH
      OBVIOUS
    <3> QED
      BY <3>1, AbsentAccounts DEF Position
  <2>2. positions' \in [Positions -> Position]
    BY <1>1, <2>1 DEF MeteoraDlmmInitializePosition
  <2> QED
    BY <1>1, <2>2, RecordTypes DEF MeteoraDlmmInitializePosition, Targets, books
<1>2. ASSUME NEW id \in VaultIds, NEW p \in Positions, NEW bins \in 1 .. MAX_RESIZE_LENGTH,
             MeteoraDlmmExtendPosition(id, p, bins)
      PROVE TypeOK'
  <2>1. [positions[p] EXCEPT !.width = @ + bins] \in Position
    <3>1. positions[p] \in Position
      OBVIOUS
    <3>2. positions[p].width + bins \in 0 .. MAX_POSITION_WIDTH
      BY <1>2, <3>1 DEF MeteoraDlmmExtendPosition, ExtensionFits, Position
    <3> QED
      BY <3>1, <3>2 DEF Position
  <2>2. positions' \in [Positions -> Position]
    BY <1>2, <2>1 DEF MeteoraDlmmExtendPosition
  <2> QED
    BY <1>2, <2>2 DEF MeteoraDlmmExtendPosition, books
<1>3. ASSUME NEW id \in VaultIds, NEW p \in Positions, NEW side \in Sides, NEW amount \in Amounts,
             \/ MeteoraDlmmAddLiquidity(id, p, side, amount)
             \/ MeteoraDlmmRemoveLiquidity(id, p, side, amount)
      PROVE TypeOK'
  <2> DEFINE mint == Pools[p][side]
  <2>1. positions[p] \in Position /\ mint \in Tokens /\ amount \in Nat
    BY PoolAssumption
  <2>2. positions[p].liquidity[side] \in Nat /\ tokens[id][mint] \in Nat
    BY <2>1 DEF Position, Holding
  <2>3. CASE MeteoraDlmmAddLiquidity(id, p, side, amount)
    <3>1. /\ tokens[id][mint] - amount \in Holding
          /\ positions[p].liquidity[side] + amount \in Holding
      BY <2>1, <2>2, <2>3 DEF MeteoraDlmmAddLiquidity, Holding
    <3>2. [positions[p] EXCEPT !.liquidity[side] = @ + amount] \in Position
      BY <2>1, <3>1 DEF Position
    <3>3. positions' = [positions EXCEPT ![p] = [positions[p] EXCEPT !.liquidity[side] = @ + amount]]
      BY <2>3 DEF MeteoraDlmmAddLiquidity
    <3>4. tokens' \in [VaultIds -> [Tokens -> Holding]]
      BY <2>1, <2>3, <3>1 DEF MeteoraDlmmAddLiquidity
    <3> QED
      BY <2>3, <3>2, <3>3, <3>4 DEF MeteoraDlmmAddLiquidity, books
  <2>4. CASE MeteoraDlmmRemoveLiquidity(id, p, side, amount)
    <3>1. /\ tokens[id][mint] + amount \in Holding
          /\ positions[p].liquidity[side] - amount \in Holding
      <4>1. positions[p].liquidity[side] <= MaxHolding
        BY <2>1 DEF Position, Holding
      <4> QED
        BY <2>1, <2>2, <2>4, <4>1 DEF MeteoraDlmmRemoveLiquidity, Holding
    <3>2. [positions[p] EXCEPT !.liquidity[side] = @ - amount] \in Position
      BY <2>1, <3>1 DEF Position
    <3>3. positions' = [positions EXCEPT ![p] = [positions[p] EXCEPT !.liquidity[side] = @ - amount]]
      BY <2>4 DEF MeteoraDlmmRemoveLiquidity
    <3>4. tokens' \in [VaultIds -> [Tokens -> Holding]]
      BY <2>1, <2>4, <3>1 DEF MeteoraDlmmRemoveLiquidity
    <3> QED
      BY <2>4, <3>2, <3>3, <3>4 DEF MeteoraDlmmRemoveLiquidity, books
  <2> QED
    BY <1>3, <2>3, <2>4

<1>4. ASSUME NEW id \in VaultIds, NEW p \in Positions, NEW side \in Sides, NEW claimed \in Amounts,
             MeteoraDlmmClaimFee(id, p, side, claimed)
      PROVE TypeOK'
  <2> DEFINE mint == Pools[p][side]
             fee  == TreasuryFee(claimed)
  <2>1. positions[p] \in Position /\ mint \in Tokens /\ claimed \in Nat
    BY PoolAssumption
  <2>2. positions[p].fees[side] \in Holding /\ tokens[id][mint] \in Holding /\ treasury[mint] \in Holding
    BY <2>1 DEF Position
  <2>3. fee \in 0 .. claimed
    <3>1. claimed * TREASURY_CLAIM_FEE_BPS \in Nat
          /\ claimed * TREASURY_CLAIM_FEE_BPS <= claimed * MAX_BPS
      BY <2>1, ShareIsLess
    <3> QED
      BY <2>1, <3>1, QuotientIsLess DEF TreasuryFee
  <2> HIDE DEF fee
  <2>4. /\ tokens[id][mint] + claimed - fee \in Holding
        /\ treasury[mint] + fee \in Holding
        /\ positions[p].fees[side] - claimed \in Holding
    BY <1>4, <2>1, <2>2, <2>3 DEF MeteoraDlmmClaimFee, Holding
  <2>5. /\ tokens' = [tokens EXCEPT ![id][mint] = @ + claimed - fee]
        /\ treasury' = [treasury EXCEPT ![mint] = @ + fee]
        /\ positions' = [positions EXCEPT ![p] = [positions[p] EXCEPT !.fees[side] = @ - claimed]]
        /\ UNCHANGED <<config, managers, vaults, books, strategies, traders>>
    BY <1>4 DEF MeteoraDlmmClaimFee, fee
  <2>6. [positions[p] EXCEPT !.fees[side] = @ - claimed] \in Position
    BY <2>1, <2>4 DEF Position
  <2>7. tokens' \in [VaultIds -> [Tokens -> Holding]] /\ treasury' \in [Tokens -> Holding]
    BY <2>1, <2>4, <2>5
  <2> QED
    BY <2>5, <2>6, <2>7 DEF books
<1>5. ASSUME NEW id \in VaultIds, NEW p \in Positions, VaultCloseDlmmStrategy(id, p)
      PROVE TypeOK'
  <2>1. positions' \in [Positions -> Position]
    BY <1>5, AbsentAccounts DEF VaultCloseDlmmStrategy
  <2> QED
    BY <1>5, <2>1, RecordTypes DEF VaultCloseDlmmStrategy, Targets, books
<1>6. ASSUME NEW p \in Positions, NEW side \in Sides, DlmmTrade(p, side) PROVE TypeOK'
  <2> DEFINE held == positions[p]
             other == OtherSide(side)
  <2>1. other \in Sides /\ other # side /\ held \in Position
    BY DEF Sides, OtherSide
  <2>2. PICK fee \in {0, 1} :
          /\ held.fees[other] + fee <= MaxHolding
          /\ positions' = [positions EXCEPT ![p] =
               [held EXCEPT !.liquidity = Traded(held.liquidity, side),
                            !.fees = Earned(held.fees, side, fee)]]
    BY <1>6 DEF DlmmTrade
  <2>3. held.liquidity \in [Sides -> Holding] /\ held.fees \in [Sides -> Holding]
    BY <2>1 DEF Position
  <2>4. /\ held.liquidity[side] - 1 \in Holding /\ held.liquidity[other] + 1 \in Holding
        /\ held.fees[other] + fee \in Holding
    <3>1. held.liquidity[side] > 0 /\ held.liquidity[other] < MaxHolding
      BY <1>6 DEF DlmmTrade
    <3>2. /\ held.liquidity[side] \in Holding /\ held.liquidity[other] \in Holding
          /\ held.fees[other] \in Holding
      BY <2>1, <2>3
    <3> QED
      BY <2>2, <3>1, <3>2 DEF Holding
  <2>5. /\ Traded(held.liquidity, side) \in [Sides -> Holding]
        /\ Earned(held.fees, side, fee) \in [Sides -> Holding]
    BY <2>1, <2>3, <2>4 DEF Traded, Earned
  <2>6. positions' \in [Positions -> Position]
    <3>1. [held EXCEPT !.liquidity = Traded(held.liquidity, side),
                       !.fees = Earned(held.fees, side, fee)] \in Position
      BY <2>1, <2>5 DEF Position
    <3> QED
      BY <2>2, <3>1
  <2> QED
    BY <1>6, <2>6 DEF DlmmTrade, books
<1> QED
  BY <1>1, <1>2, <1>3, <1>4, <1>5, <1>6 DEF MeteoraDlmm

\* Steps of the Phoenix instructions.
LEMMA PhoenixInstructionTypes ==
  ASSUME TypeOK, NEW id \in VaultIds, NEW amount \in Nat, NEW minted \in Nat, NEW received \in Nat,
         NEW reduce_only \in BOOLEAN, NEW cancel_existing \in BOOLEAN,
         NEW lots \in Lots, NEW posted \in Lots, NEW min \in Lots,
         \/ PhoenixInitializeStrategy(id)
         \/ PhoenixDepositFunds(id, amount, minted)
         \/ PhoenixWithdrawFunds(id, amount, received)
         \/ PhoenixEmberWithdraw(id)
         \/ PhoenixPlaceMarketOrder(id, reduce_only, cancel_existing, lots, min)
         \/ PhoenixPlaceLimitOrder(id, cancel_existing, lots, posted)
         \/ PhoenixCancelOrders(id, posted)
         \/ VaultClosePhoenixStrategy(id)
  PROVE  TypeOK'
<1> USE StrategyAssumption DEF TypeOK
<1>1. traders[id] \in TraderAccount /\ tokens[id] \in [Tokens -> Holding]
      /\ DepositMint \in Tokens /\ CanonicalMint \in Tokens /\ Trader \in Targets
  BY DEF Tokens, Targets
<1>2. tokens[id][DepositMint] \in Holding /\ tokens[id][CanonicalMint] \in Holding
  BY <1>1
<1>3. CASE PhoenixInitializeStrategy(id)
  <2>1. [traders[id] EXCEPT !.stage = "registered"] \in TraderAccount
    BY <1>1 DEF TraderAccount, Stages
  <2>2. traders' \in [VaultIds -> TraderAccount]
    BY <1>3, <2>1 DEF PhoenixInitializeStrategy
  <2> QED
    BY <1>1, <1>3, <2>2, RecordTypes DEF PhoenixInitializeStrategy, books
<1>4. CASE PhoenixDepositFunds(id, amount, minted)
  <2>1. /\ tokens[id][DepositMint] - amount \in Holding
        /\ tokens[id][CanonicalMint] + minted - amount \in Holding
        /\ traders[id].collateral + amount \in Holding
    BY <1>1, <1>2, <1>4 DEF PhoenixDepositFunds, AmountsMatch, Holding, TraderAccount
  <2>2. tokens' \in [VaultIds -> [Tokens -> Holding]]
    BY <1>1, <1>4, <2>1 DEF PhoenixDepositFunds
  <2>3. [traders[id] EXCEPT !.collateral = @ + amount] \in TraderAccount
    BY <1>1, <2>1 DEF TraderAccount
  <2> QED
    BY <1>4, <2>2, <2>3 DEF PhoenixDepositFunds, books
<1>5. CASE PhoenixWithdrawFunds(id, amount, received)
  <2> DEFINE t == traders[id]
             paid == [t EXCEPT !.collateral = IF received > 0 THEN @ - amount ELSE @,
                               !.queued = IF received = 0 THEN @ + amount ELSE @]
  <2>1. /\ tokens[id][DepositMint] + received \in Holding
        /\ t.collateral - amount \in Holding /\ t.queued + amount \in Holding
    BY <1>1, <1>2, <1>5 DEF PhoenixWithdrawFunds, Holding, TraderAccount
  <2>2. tokens' \in [VaultIds -> [Tokens -> Holding]]
    BY <1>1, <1>5, <2>1 DEF PhoenixWithdrawFunds
  <2>3. paid \in TraderAccount
    BY <1>1, <2>1 DEF TraderAccount
  <2>4. traders' = [traders EXCEPT ![id] = paid]
    BY <1>5 DEF PhoenixWithdrawFunds
  <2> QED
    BY <1>5, <2>2, <2>3, <2>4 DEF PhoenixWithdrawFunds, books
<1>6. CASE PhoenixEmberWithdraw(id)
  <2>1. tokens[id][DepositMint] + tokens[id][CanonicalMint] \in Holding
    BY <1>2, <1>6 DEF PhoenixEmberWithdraw, Holding
  <2>2. tokens' \in [VaultIds -> [Tokens -> Holding]]
    BY <1>1, <1>6, <2>1 DEF PhoenixEmberWithdraw, Holding
  <2> QED
    BY <1>6, <2>2 DEF PhoenixEmberWithdraw, books, venues
<1>7. CASE PhoenixPlaceMarketOrder(id, reduce_only, cancel_existing, lots, min)
  <2>1. PICK kept \in KeptResting(traders[id], cancel_existing) :
          traders' = [traders EXCEPT ![id] = [traders[id] EXCEPT !.lots = lots, !.resting = kept]]
    BY <1>7 DEF PhoenixPlaceMarketOrder
  <2>2. kept \in Holding
    BY <1>1 DEF KeptResting, TraderAccount, Holding
  <2>3. [traders[id] EXCEPT !.lots = lots, !.resting = kept] \in TraderAccount
    BY <1>1, <2>2 DEF TraderAccount, Lots, Holding
  <2> QED
    BY <1>7, <2>1, <2>3 DEF PhoenixPlaceMarketOrder, books
<1>8. CASE PhoenixPlaceLimitOrder(id, cancel_existing, lots, posted)
  <2>1. PICK kept \in KeptResting(traders[id], cancel_existing) :
          LET placed == [traders[id] EXCEPT !.lots = lots, !.resting = kept + posted]
          IN  /\ placed.lots + placed.resting <= traders[id].collateral
              /\ traders' = [traders EXCEPT ![id] = placed]
    BY <1>8 DEF PhoenixPlaceLimitOrder
  <2>2. kept \in Holding
    BY <1>1 DEF KeptResting, TraderAccount, Holding
  <2>3. lots + (kept + posted) <= traders[id].collateral
    BY <1>1, <2>1 DEF TraderAccount
  <2>4. kept + posted \in Holding
    BY <1>1, <2>2, <2>3 DEF TraderAccount, Lots, Holding
  <2>5. [traders[id] EXCEPT !.lots = lots, !.resting = kept + posted] \in TraderAccount
    BY <1>1, <2>4 DEF TraderAccount, Lots, Holding
  <2> QED
    BY <1>8, <2>1, <2>5 DEF PhoenixPlaceLimitOrder, books
<1>9. CASE PhoenixCancelOrders(id, posted)
  <2>1. [traders[id] EXCEPT !.resting = posted] \in TraderAccount
    BY <1>1 DEF TraderAccount, Lots, Holding
  <2> QED
    BY <1>9, <2>1 DEF PhoenixCancelOrders, books
<1>10. CASE VaultClosePhoenixStrategy(id)
  BY <1>1, <1>10, RecordTypes DEF VaultClosePhoenixStrategy, books, venues
<1> QED
  BY <1>3, <1>4, <1>5, <1>6, <1>7, <1>8, <1>9, <1>10

\* What Phoenix does on its own.
LEMMA PhoenixEventTypes ==
  ASSUME TypeOK, NEW id \in VaultIds,
         \/ PhoenixOnboard(id)
         \/ PhoenixPayQueued(id)
         \/ PhoenixFill(id)
         \/ PhoenixMark(id)
         \/ PhoenixLiquidate(id)
  PROVE  TypeOK'
<1> USE StrategyAssumption DEF TypeOK, PhoenixChanges, books
<1>1. /\ traders[id] \in TraderAccount /\ tokens[id] \in [Tokens -> Holding]
      /\ CanonicalMint \in Tokens
  BY DEF Tokens
<1>2. CASE PhoenixOnboard(id)
  <2>1. PICK stage \in {"registered", "ready"} : traders' = [traders EXCEPT ![id].stage = stage]
    BY <1>2 DEF PhoenixOnboard
  <2>2. [traders[id] EXCEPT !.stage = stage] \in TraderAccount
    BY <1>1 DEF TraderAccount, Stages
  <2> QED
    BY <1>2, <2>1, <2>2 DEF PhoenixOnboard
<1>3. CASE PhoenixPayQueued(id)
  <2> DEFINE t == traders[id]
             paid == IF t.collateral >= t.queued THEN t.queued ELSE 0
  <2>1. t.collateral - paid \in Holding /\ tokens[id][CanonicalMint] + paid \in Holding
    BY <1>1, <1>3 DEF PhoenixPayQueued, TraderAccount, Holding
  <2> HIDE DEF paid
  <2>2. /\ tokens' = [tokens EXCEPT ![id][CanonicalMint] = @ + paid]
        /\ traders' = [traders EXCEPT ![id] = [t EXCEPT !.collateral = @ - paid, !.queued = 0]]
    BY <1>3 DEF PhoenixPayQueued, paid
  <2>3. [t EXCEPT !.collateral = @ - paid, !.queued = 0] \in TraderAccount
    <3>1. t \in TraderAccount /\ t.collateral - paid \in Holding /\ 0 \in Holding
      BY <1>1, <2>1 DEF Holding
    <3> QED
      BY ONLY <3>1 DEF TraderAccount
  <2>4. tokens' \in [VaultIds -> [Tokens -> Holding]]
    BY <1>1, <2>1, <2>2
  <2> QED
    <3>1. traders' \in [VaultIds -> TraderAccount]
      BY <2>2, <2>3
    <3> QED
      BY <1>3, <2>4, <3>1 DEF PhoenixPayQueued
<1>4. CASE PhoenixFill(id)
  <2>1. PICK lots \in {traders[id].lots + 1, traders[id].lots - 1} \cap (0 .. traders[id].collateral) :
          traders' = [traders EXCEPT ![id].lots = lots, ![id].resting = @ - 1]
    BY <1>4 DEF PhoenixFill
  <2>2. lots \in Holding /\ traders[id].resting - 1 \in Holding
    <3>1. traders[id].resting > 0
      BY <1>4 DEF PhoenixFill
    <3>2. traders[id].collateral \in Holding /\ traders[id].resting \in Holding
      BY <1>1 DEF TraderAccount
    <3>3. lots \in 0 .. traders[id].collateral
      OBVIOUS
    <3> QED
      BY <3>1, <3>2, <3>3 DEF Holding
  <2>3. [traders[id] EXCEPT !.lots = lots, !.resting = @ - 1] \in TraderAccount
    BY <1>1, <2>2 DEF TraderAccount
  <2>4. traders' = [traders EXCEPT ![id] = [traders[id] EXCEPT !.lots = lots, !.resting = @ - 1]]
    BY <2>1
  <2> QED
    BY <1>4, <2>3, <2>4 DEF PhoenixFill
<1>5. CASE PhoenixMark(id)
  <2>1. PICK collateral \in 0 .. MaxHolding :
          traders' = [traders EXCEPT ![id].collateral = collateral]
    BY <1>5 DEF PhoenixMark
  <2>2. [traders[id] EXCEPT !.collateral = collateral] \in TraderAccount
    BY <1>1 DEF TraderAccount, Holding
  <2> QED
    BY <1>5, <2>1, <2>2 DEF PhoenixMark
<1>6. CASE PhoenixLiquidate(id)
  <2>1. [traders[id] EXCEPT !.lots = 0, !.resting = 0] \in TraderAccount
    <3>1. traders[id] \in TraderAccount /\ 0 \in Holding
      BY <1>1 DEF Holding
    <3> QED
      BY ONLY <3>1 DEF TraderAccount
  <2>2. traders' = [traders EXCEPT ![id] = [traders[id] EXCEPT !.lots = 0, !.resting = 0]]
    BY <1>6 DEF PhoenixLiquidate
  <2> QED
    BY <1>6, <2>1, <2>2 DEF PhoenixLiquidate
<1> QED
  BY <1>2, <1>3, <1>4, <1>5, <1>6

\* Steps at Phoenix.
LEMMA PhoenixTypes == TypeOK /\ Phoenix => TypeOK'
<1> SUFFICES ASSUME TypeOK, NEW id \in VaultIds,
      \/ PhoenixInitializeStrategy(id)
      \/ \E amount \in Amounts, minted, received \in Amounts \cup {0} :
           PhoenixDepositFunds(id, amount, minted) \/ PhoenixWithdrawFunds(id, amount, received)
      \/ PhoenixEmberWithdraw(id)
      \/ \E reduce_only, cancel_existing \in BOOLEAN, lots, min \in Lots :
           PhoenixPlaceMarketOrder(id, reduce_only, cancel_existing, lots, min)
      \/ \E cancel_existing \in BOOLEAN, lots, posted \in Lots :
           PhoenixPlaceLimitOrder(id, cancel_existing, lots, posted)
      \/ \E resting \in Lots : PhoenixCancelOrders(id, resting)
      \/ VaultClosePhoenixStrategy(id)
      \/ PhoenixOnboard(id) \/ PhoenixPayQueued(id) \/ PhoenixFill(id)
      \/ PhoenixMark(id) \/ PhoenixLiquidate(id)
    PROVE TypeOK'
  BY DEF Phoenix
<1>1. 0 \in Lots /\ 0 \in Nat /\ TRUE \in BOOLEAN /\ Amounts \subseteq Nat
  BY StrategyAssumption DEF Lots
<1>2. CASE PhoenixInitializeStrategy(id) \/ PhoenixEmberWithdraw(id) \/ VaultClosePhoenixStrategy(id)
  BY <1>1, <1>2, PhoenixInstructionTypes
<1>3. CASE \E amount \in Amounts, minted, received \in Amounts \cup {0} :
             PhoenixDepositFunds(id, amount, minted) \/ PhoenixWithdrawFunds(id, amount, received)
  BY <1>1, <1>3, PhoenixInstructionTypes
<1>4. CASE \E reduce_only, cancel_existing \in BOOLEAN, lots, min \in Lots :
             PhoenixPlaceMarketOrder(id, reduce_only, cancel_existing, lots, min)
  BY <1>1, <1>4, PhoenixInstructionTypes
<1>5. CASE \E cancel_existing \in BOOLEAN, lots, posted \in Lots :
           PhoenixPlaceLimitOrder(id, cancel_existing, lots, posted)
  BY <1>1, <1>5, PhoenixInstructionTypes
<1>6. CASE \E resting \in Lots : PhoenixCancelOrders(id, resting)
  BY <1>1, <1>6, PhoenixInstructionTypes
<1>7. CASE \/ PhoenixOnboard(id) \/ PhoenixPayQueued(id) \/ PhoenixFill(id)
           \/ PhoenixMark(id) \/ PhoenixLiquidate(id)
  BY <1>7, PhoenixEventTypes
<1> QED
  BY <1>2, <1>3, <1>4, <1>5, <1>6, <1>7

\* A step that changes nothing.
LEMMA StutterTypes == TypeOK /\ UNCHANGED vars => TypeOK'
  BY DEF TypeOK, vars

\* No counter of a vault wraps, and no balance, position or collateral leaves
\* its range, over any sequence of instructions.
THEOREM StrategyTypes == Spec => []TypeOK
<1>1. TypeOK /\ [Next]_vars => TypeOK'
  BY AdministrationTypes, BooksTypes, JupiterTypes, MeteoraDlmmTypes, PhoenixTypes, StutterTypes
  DEF Next
<1> QED
  BY InitialTypes, <1>1, PTL DEF Spec

-----------------------------------------------------------------------------
(* Records and counters. *)

\* A step opens a record, closes one, or leaves them all alone and at most
\* creates a vault, closes one or changes a status.
RecordStep ==
  \/ \E id \in VaultIds, t \in Targets : OpenStrategy(id, t)
  \/ \E id \in VaultIds, t \in Targets : CloseStrategy(id, t)
  \/ /\ UNCHANGED strategies
     /\ \/ \E a \in Authorities : VaultInitialize(a)
        \/ \E id \in VaultIds : VaultClose(id)
        \/ \E id \in VaultIds, status \in Statuses : VaultStatusChange(id, status)
        \/ UNCHANGED vaults

\* Every step of the program and of the venues is a record step.
LEMMA StepsOnRecords == [Next]_vars => RecordStep
<1> SUFFICES ASSUME [Next]_vars PROVE RecordStep
  OBVIOUS
<1>1. CASE Administration
  BY <1>1, StrategyAssumption
  DEF Administration, ProtocolStatusChange, ConfigAddManager, ConfigRemoveManager, RecordStep,
      VaultInitialize, VaultStatusChange, VaultClose, Statuses
<1>2. CASE Books
  BY <1>2 DEF Books, DepositResolved, WithdrawalResolved, NavPosted, SplToEscrow, SplTransfer,
              RecordStep
<1>3. CASE Jupiter
  <2>1. PICK id \in VaultIds, mint \in Mints :
          \/ JupiterInitializeStrategy(id, mint)
          \/ \E source, destination \in {mint, DepositMint}, spent, received \in Amounts :
               JupiterSwap(id, mint, source, destination, spent, received)
          \/ \E token_program \in TokenPrograms :
               VaultCloseJupiterStrategy(id, mint, token_program)
    BY <1>3 DEF Jupiter
  <2>2. mint \in Targets
    BY DEF Targets
  <2>3. \/ OpenStrategy(id, mint) \/ CloseStrategy(id, mint) \/ UNCHANGED <<vaults, strategies>>
    BY <2>1 DEF JupiterInitializeStrategy, JupiterSwap, VaultCloseJupiterStrategy
  <2> QED
    BY <2>2, <2>3 DEF RecordStep
<1>4. CASE MeteoraDlmm
  <2>1. ASSUME NEW p \in Positions, NEW side \in Sides, DlmmTrade(p, side) PROVE RecordStep
    BY <2>1 DEF DlmmTrade, RecordStep
  <2>2. ASSUME NEW id \in VaultIds, NEW p \in Positions,
               \/ \E width \in 1 .. MAX_INITIAL_WIDTH : MeteoraDlmmInitializePosition(id, p, width)
               \/ \E bins \in 1 .. MAX_RESIZE_LENGTH : MeteoraDlmmExtendPosition(id, p, bins)
               \/ \E side \in Sides, amount \in Amounts :
                    \/ MeteoraDlmmAddLiquidity(id, p, side, amount)
                    \/ MeteoraDlmmRemoveLiquidity(id, p, side, amount)
                    \/ MeteoraDlmmClaimFee(id, p, side, amount)
               \/ VaultCloseDlmmStrategy(id, p)
        PROVE  RecordStep
    <3>1. p \in Targets
      BY DEF Targets
    <3>2. \/ OpenStrategy(id, p) \/ CloseStrategy(id, p) \/ UNCHANGED <<vaults, strategies>>
      BY <2>2 DEF MeteoraDlmmInitializePosition, MeteoraDlmmExtendPosition,
                  MeteoraDlmmAddLiquidity, MeteoraDlmmRemoveLiquidity, MeteoraDlmmClaimFee,
                  VaultCloseDlmmStrategy
    <3> QED
      BY <3>1, <3>2 DEF RecordStep
  <2> QED
    BY <1>4, <2>1, <2>2 DEF MeteoraDlmm
<1>5. CASE Phoenix
  <2>1. PICK id \in VaultIds :
          \/ PhoenixInitializeStrategy(id)
          \/ \E amount \in Amounts, minted, received \in Amounts \cup {0} :
               \/ PhoenixDepositFunds(id, amount, minted)
               \/ PhoenixWithdrawFunds(id, amount, received)
          \/ PhoenixEmberWithdraw(id)
          \/ \E reduce_only, cancel_existing \in BOOLEAN, lots, min \in Lots :
               PhoenixPlaceMarketOrder(id, reduce_only, cancel_existing, lots, min)
          \/ \E cancel_existing \in BOOLEAN, lots, posted \in Lots :
           PhoenixPlaceLimitOrder(id, cancel_existing, lots, posted)
          \/ \E resting \in Lots : PhoenixCancelOrders(id, resting)
          \/ VaultClosePhoenixStrategy(id)
          \/ PhoenixOnboard(id) \/ PhoenixPayQueued(id) \/ PhoenixFill(id)
          \/ PhoenixMark(id) \/ PhoenixLiquidate(id)
    BY <1>5 DEF Phoenix
  <2>2. Trader \in Targets
    BY DEF Targets
  <2>3. CASE PhoenixInitializeStrategy(id) \/ VaultClosePhoenixStrategy(id)
    BY <2>2, <2>3 DEF PhoenixInitializeStrategy, VaultClosePhoenixStrategy, RecordStep
  <2>4. ASSUME NEW amount \in Amounts, NEW minted \in Amounts \cup {0},
               NEW received \in Amounts \cup {0},
               PhoenixDepositFunds(id, amount, minted) \/ PhoenixWithdrawFunds(id, amount, received)
        PROVE  RecordStep
    BY <2>4 DEF PhoenixDepositFunds, PhoenixWithdrawFunds, RecordStep
  <2>5. CASE PhoenixEmberWithdraw(id)
    BY <2>5 DEF PhoenixEmberWithdraw, RecordStep
  <2>6. ASSUME NEW reduce_only \in BOOLEAN, NEW cancel_existing \in BOOLEAN,
               NEW lots \in Lots, NEW posted \in Lots,
               \/ PhoenixPlaceMarketOrder(id, reduce_only, cancel_existing, lots, posted)
               \/ PhoenixPlaceLimitOrder(id, cancel_existing, lots, posted)
               \/ PhoenixCancelOrders(id, posted)
        PROVE  RecordStep
    BY <2>6 DEF PhoenixPlaceMarketOrder, PhoenixPlaceLimitOrder, PhoenixCancelOrders, RecordStep
  <2>7. CASE \/ PhoenixOnboard(id) \/ PhoenixPayQueued(id) \/ PhoenixFill(id)
             \/ PhoenixMark(id) \/ PhoenixLiquidate(id)
    BY <2>7 DEF PhoenixOnboard, PhoenixPayQueued, PhoenixFill, PhoenixMark, PhoenixLiquidate,
                PhoenixChanges, RecordStep
  <2>8. TRUE \in BOOLEAN
    OBVIOUS
  <2> QED
    BY <2>1, <2>3, <2>4, <2>5, <2>6, <2>7, <2>8
<1>6. CASE UNCHANGED vars
  BY <1>6 DEF vars, RecordStep
<1> QED
  BY <1>1, <1>2, <1>3, <1>4, <1>5, <1>6 DEF Next

\* The records of a vault are counted, and a vault that does not exist has none.
RecordsCounted ==
  \A id \in VaultIds :
    /\ IsFiniteSet(Open(id))
    /\ vaults[id].open_strategy_count = Cardinality(Open(id))
    /\ ~vaults[id].exists => Open(id) = {}

\* A record that is opened is one more, under a target that had none.
LEMMA OpenedIsCounted ==
  ASSUME TypeOK, RecordsCounted, NEW id \in VaultIds, NEW t \in Targets, OpenStrategy(id, t)
  PROVE  RecordsCounted'
<1> SUFFICES ASSUME NEW v \in VaultIds
             PROVE  /\ IsFiniteSet(Open(v)')
                    /\ vaults'[v].open_strategy_count = Cardinality(Open(v)')
                    /\ ~vaults'[v].exists => Open(v)' = {}
  BY DEF RecordsCounted
<1>1. vaults[v] \in Vault /\ vaults[id] \in Vault
  BY DEF TypeOK
<1>2. CASE v = id
  <2>1. Open(id)' = Open(id) \cup {t} /\ t \notin Open(id)
    BY DEF OpenStrategy, Open, TypeOK
  <2>2. IsFiniteSet(Open(id)) /\ vaults[id].open_strategy_count = Cardinality(Open(id))
    BY DEF RecordsCounted
  <2>3. IsFiniteSet(Open(id)') /\ Cardinality(Open(id)') = Cardinality(Open(id)) + 1
    BY <2>1, <2>2, FS_AddElement
  <2>4. /\ vaults'[id].open_strategy_count = vaults[id].open_strategy_count + 1
        /\ vaults'[id].exists
    BY <1>1 DEF OpenStrategy, StrategyAdded, MayEnter, TypeOK, Vault
  <2> QED
    BY <1>2, <2>2, <2>3, <2>4
<1>3. CASE v # id
  <2>1. Open(v)' = Open(v) /\ vaults'[v] = vaults[v]
    BY <1>3 DEF OpenStrategy, StrategyAdded, Open, TypeOK
  <2> QED
    BY <2>1 DEF RecordsCounted
<1> QED
  BY <1>2, <1>3

\* A record that is closed is one less.
LEMMA ClosedIsCounted ==
  ASSUME TypeOK, RecordsCounted, NEW id \in VaultIds, NEW t \in Targets, CloseStrategy(id, t)
  PROVE  RecordsCounted'
<1> SUFFICES ASSUME NEW v \in VaultIds
             PROVE  /\ IsFiniteSet(Open(v)')
                    /\ vaults'[v].open_strategy_count = Cardinality(Open(v)')
                    /\ ~vaults'[v].exists => Open(v)' = {}
  BY DEF RecordsCounted
<1>1. vaults[v] \in Vault /\ vaults[id] \in Vault
  BY DEF TypeOK
<1>2. CASE v = id
  <2>1. Open(id)' = Open(id) \ {t} /\ t \in Open(id)
    BY DEF CloseStrategy, NoStrategy, Open, TypeOK
  <2>2. IsFiniteSet(Open(id)) /\ vaults[id].open_strategy_count = Cardinality(Open(id))
    BY DEF RecordsCounted
  <2>3. IsFiniteSet(Open(id)') /\ Cardinality(Open(id)') = Cardinality(Open(id)) - 1
    BY <2>1, <2>2, FS_RemoveElement
  <2>4. /\ vaults'[id].open_strategy_count = vaults[id].open_strategy_count - 1
        /\ vaults'[id].exists
    BY <1>1 DEF CloseStrategy, StrategyDropped, MayExit, TypeOK, Vault
  <2> QED
    BY <1>2, <2>2, <2>3, <2>4
<1>3. CASE v # id
  <2>1. Open(v)' = Open(v) /\ vaults'[v] = vaults[v]
    BY <1>3 DEF CloseStrategy, StrategyDropped, Open, TypeOK
  <2> QED
    BY <2>1 DEF RecordsCounted
<1> QED
  BY <1>2, <1>3

\* Counting survives every record step.
LEMMA RecordsStayCounted == TypeOK /\ RecordsCounted /\ RecordStep => RecordsCounted'
<1> SUFFICES ASSUME TypeOK, RecordsCounted, RecordStep PROVE RecordsCounted'
  OBVIOUS
<1>1. ASSUME UNCHANGED strategies, NEW a \in Authorities, VaultInitialize(a)
      PROVE  RecordsCounted'
  <2> DEFINE id == config.next_vault_id
  <2>1. id \in VaultIds /\ ~vaults[id].exists
        /\ vaults' = [vaults EXCEPT ![id] = [NoVault EXCEPT !.exists = TRUE, !.authority = a]]
    BY <1>1 DEF VaultInitialize
  <2>2. Open(id) = {} /\ vaults'[id].open_strategy_count = 0 /\ vaults'[id].exists
    BY <2>1 DEF RecordsCounted, NoVault, TypeOK
  <2>3. \A v \in VaultIds : Open(v)' = Open(v)
    BY <1>1 DEF Open
  <2>4. \A v \in VaultIds \ {id} : vaults'[v] = vaults[v]
    BY <2>1 DEF TypeOK
  <2> QED
    BY <2>2, <2>3, <2>4, FS_EmptySet DEF RecordsCounted
<1>2. ASSUME UNCHANGED strategies, NEW id \in VaultIds, VaultClose(id)
      PROVE  RecordsCounted'
  <2>1. Open(id) = {}
    BY <1>2, FS_EmptySet DEF VaultClose, IsWoundUp, RecordsCounted
  <2>2. vaults'[id].open_strategy_count = 0
    BY <1>2 DEF VaultClose, NoVault, TypeOK
  <2>3. \A v \in VaultIds : Open(v)' = Open(v)
    BY <1>2 DEF Open
  <2>4. \A v \in VaultIds \ {id} : vaults'[v] = vaults[v]
    BY <1>2 DEF VaultClose, TypeOK
  <2> QED
    BY <2>1, <2>2, <2>3, <2>4, FS_EmptySet DEF RecordsCounted
<1>3. ASSUME UNCHANGED strategies, NEW id \in VaultIds, NEW status \in Statuses,
             VaultStatusChange(id, status)
      PROVE  RecordsCounted'
  <2>1. \A v \in VaultIds : /\ vaults'[v].open_strategy_count = vaults[v].open_strategy_count
                            /\ vaults'[v].exists = vaults[v].exists
    BY <1>3 DEF VaultStatusChange, TypeOK, Vault
  <2>2. \A v \in VaultIds : Open(v)' = Open(v)
    BY <1>3 DEF Open
  <2> QED
    BY <2>1, <2>2 DEF RecordsCounted
<1>4. ASSUME UNCHANGED strategies, UNCHANGED vaults PROVE RecordsCounted'
  BY <1>4 DEF RecordsCounted, Open
<1> QED
  BY <1>1, <1>2, <1>3, <1>4, OpenedIsCounted, ClosedIsCounted DEF RecordStep

\* A vault starts without records.
LEMMA InitialRecords == Init => RecordsCounted
<1> SUFFICES ASSUME Init, NEW id \in VaultIds
             PROVE  Open(id) = {} /\ vaults[id].open_strategy_count = 0
  BY FS_EmptySet DEF RecordsCounted
<1> QED
  BY DEF Init, Open, NoVault, NoStrategy

\* The counter that vault_close checks is the number of records of the vault.
THEOREM StrategyCountStaysExact == Spec => []StrategyCountIsExact
<1>1. RecordsCounted => StrategyCountIsExact
  BY DEF RecordsCounted, StrategyCountIsExact
<1>2. TypeOK /\ RecordsCounted /\ [Next]_vars => RecordsCounted'
  BY RecordsStayCounted, StepsOnRecords
<1> QED
  BY <1>1, <1>2, InitialRecords, StrategyTypes, PTL DEF Spec

\* Only creating a vault changes the next id.
LEMMA StepsOnNextId ==
  ASSUME TypeOK, [Next]_vars
  PROVE  \/ config'.next_vault_id = config.next_vault_id
         \/ \E a \in Authorities : VaultInitialize(a)
<1>1. CASE UNCHANGED config
  BY <1>1
<1>2. CASE Administration
  <2>1. ASSUME NEW status \in NewStatuses, ProtocolStatusChange(status)
        PROVE  config'.next_vault_id = config.next_vault_id
    BY <2>1 DEF ProtocolStatusChange, TypeOK
  <2> QED
    BY <1>1, <1>2, <2>1 DEF Administration, ConfigAddManager, ConfigRemoveManager,
       VaultStatusChange, VaultClose
<1>3. CASE Books
  BY <1>1, <1>3 DEF Books, DepositResolved, WithdrawalResolved, NavPosted, SplToEscrow, SplTransfer
<1>4. CASE Jupiter
  <2>1. ASSUME NEW v, NEW mint, NEW source, NEW destination, NEW spent, NEW received, NEW program,
               \/ JupiterInitializeStrategy(v, mint)
               \/ JupiterSwap(v, mint, source, destination, spent, received)
               \/ VaultCloseJupiterStrategy(v, mint, program)
        PROVE  UNCHANGED config
    BY <2>1 DEF JupiterInitializeStrategy, JupiterSwap, VaultCloseJupiterStrategy
  <2> QED
    BY <1>1, <1>4, <2>1 DEF Jupiter
<1>5. CASE MeteoraDlmm
  <2>1. ASSUME NEW v, NEW p, NEW side, NEW n,
               \/ MeteoraDlmmInitializePosition(v, p, n)
               \/ MeteoraDlmmExtendPosition(v, p, n)
               \/ MeteoraDlmmAddLiquidity(v, p, side, n)
               \/ MeteoraDlmmRemoveLiquidity(v, p, side, n)
               \/ MeteoraDlmmClaimFee(v, p, side, n)
               \/ VaultCloseDlmmStrategy(v, p)
               \/ DlmmTrade(p, side)
        PROVE  UNCHANGED config
    BY <2>1 DEF MeteoraDlmmInitializePosition, MeteoraDlmmExtendPosition, MeteoraDlmmAddLiquidity,
       MeteoraDlmmRemoveLiquidity, MeteoraDlmmClaimFee, VaultCloseDlmmStrategy, DlmmTrade
  <2> QED
    BY <1>1, <1>5, <2>1 DEF MeteoraDlmm
<1>6. CASE Phoenix
  <2>1. ASSUME NEW v, NEW flag, NEW cancel_existing, NEW n, NEW m,
               \/ PhoenixInitializeStrategy(v)
               \/ PhoenixDepositFunds(v, n, m)
               \/ PhoenixWithdrawFunds(v, n, m)
               \/ PhoenixEmberWithdraw(v)
               \/ PhoenixPlaceMarketOrder(v, flag, cancel_existing, n, m)
               \/ PhoenixPlaceLimitOrder(v, cancel_existing, n, m)
               \/ PhoenixCancelOrders(v, n)
               \/ VaultClosePhoenixStrategy(v)
        PROVE  UNCHANGED config
    BY <2>1 DEF PhoenixInitializeStrategy, PhoenixDepositFunds, PhoenixWithdrawFunds,
       PhoenixEmberWithdraw, PhoenixPlaceMarketOrder, PhoenixPlaceLimitOrder,
       PhoenixCancelOrders, VaultClosePhoenixStrategy
  <2>2. ASSUME NEW v, \/ PhoenixOnboard(v) \/ PhoenixPayQueued(v) \/ PhoenixFill(v)
                      \/ PhoenixMark(v) \/ PhoenixLiquidate(v)
        PROVE  UNCHANGED config
    BY <2>2 DEF PhoenixOnboard, PhoenixPayQueued, PhoenixFill, PhoenixMark, PhoenixLiquidate,
       PhoenixChanges
  <2> QED
    BY <1>1, <1>6, <2>1, <2>2 DEF Phoenix
<1>7. CASE UNCHANGED vars
  BY <1>1, <1>7 DEF vars
<1> QED
  BY <1>2, <1>3, <1>4, <1>5, <1>6, <1>7 DEF Next

\* The id was given out, now or earlier.
GivenOut(id) == id < config.next_vault_id

\* Vaults have ids that were given out.
VaultsAreGivenOut == \A id \in VaultIds : vaults[id].exists => GivenOut(id)

\* A vault that starts to exist is created under the next id, which grows.
LEMMA CreationTakesNextId ==
  ASSUME TypeOK, [Next]_vars, NEW id \in VaultIds, ~vaults[id].exists, vaults'[id].exists
  PROVE  id = config.next_vault_id /\ config'.next_vault_id = config.next_vault_id + 1
<1>1. RecordStep
  BY StepsOnRecords
<1>2. PICK a \in Authorities : VaultInitialize(a)
  BY <1>1 DEF RecordStep, OpenStrategy, StrategyAdded, MayEnter, CloseStrategy,
              StrategyDropped, MayExit, VaultClose, NoVault, VaultStatusChange, TypeOK
<1>3. id = config.next_vault_id
  BY <1>2 DEF VaultInitialize, TypeOK
<1> QED
  BY <1>2, <1>3 DEF VaultInitialize, VaultIdIncremented, TypeOK

\* An id that was given out stays so: the next id never falls.
LEMMA GivenOutForEver ==
  ASSUME TypeOK, [Next]_vars, NEW id \in VaultIds, GivenOut(id)
  PROVE  GivenOut(id)'
<1>1. id \in Nat /\ config.next_vault_id \in Nat /\ id < config.next_vault_id
  BY StrategyAssumption DEF TypeOK, GivenOut
<1>2. ASSUME NEW a \in Authorities, VaultInitialize(a)
      PROVE  config'.next_vault_id = config.next_vault_id + 1
  BY <1>2 DEF VaultInitialize, VaultIdIncremented, TypeOK
<1>3. \/ config'.next_vault_id = config.next_vault_id
      \/ config'.next_vault_id = config.next_vault_id + 1
  BY <1>2, StepsOnNextId
<1> QED
  BY <1>1, <1>3 DEF GivenOut

\* Vaults keep having ids that were given out.
LEMMA VaultsStayGivenOut ==
  TypeOK /\ VaultsAreGivenOut /\ [Next]_vars => VaultsAreGivenOut'
<1> SUFFICES ASSUME TypeOK, VaultsAreGivenOut, [Next]_vars, NEW id \in VaultIds, vaults'[id].exists
             PROVE  GivenOut(id)'
  BY DEF VaultsAreGivenOut
<1>1. CASE vaults[id].exists
  BY <1>1, GivenOutForEver DEF VaultsAreGivenOut
<1>2. CASE ~vaults[id].exists
  <2>1. id = config.next_vault_id /\ config'.next_vault_id = config.next_vault_id + 1
    BY <1>2, CreationTakesNextId
  <2> QED
    BY <2>1, StrategyAssumption DEF GivenOut
<1> QED
  BY <1>1, <1>2

\* A vault that is closed stays closed: ids are given out in order and once,
\* so no later vault takes the address of an earlier one.
THEOREM ClosedVaultsStayClosed == Spec => VaultIdsAreNotReused
<1>1. ASSUME NEW id \in VaultIds
      PROVE  Spec => [](vaults[id].exists => [](~vaults[id].exists => []~vaults[id].exists))
  <2>1. Init => VaultsAreGivenOut
    BY DEF Init, NoVault, VaultsAreGivenOut
  <2>2. TypeOK /\ GivenOut(id) /\ [Next]_vars => GivenOut(id)'
    BY GivenOutForEver
  <2>3. TypeOK /\ GivenOut(id) /\ ~vaults[id].exists /\ [Next]_vars => (~vaults[id].exists)'
    <3> SUFFICES ASSUME TypeOK, GivenOut(id), ~vaults[id].exists, [Next]_vars, vaults'[id].exists
                 PROVE  FALSE
      OBVIOUS
    <3> QED
      BY CreationTakesNextId, StrategyAssumption DEF GivenOut
  <2>4. VaultsAreGivenOut /\ vaults[id].exists => GivenOut(id)
    BY DEF VaultsAreGivenOut
  <2> QED
    BY <2>1, <2>2, <2>3, <2>4, VaultsStayGivenOut, StrategyTypes, PTL DEF Spec
<1> QED
  BY <1>1 DEF VaultIdsAreNotReused

-----------------------------------------------------------------------------
(* Records and venues. *)

\* Positions and collateral have a record; a vault that does not exist has no
\* deposit tokens.
VenuesTracked ==
  /\ \A p \in Positions : positions[p].exists => strategies[positions[p].owner][p].exists
  /\ \A id \in VaultIds : ~OwesNothing(traders[id]) => strategies[id][Trader].exists
  /\ \A id \in VaultIds : ~vaults[id].exists => tokens[id][DepositMint] = 0

\* Opening a record keeps the others and the vaults that exist.
LEMMA OpeningKeeps ==
  ASSUME TypeOK, NEW id \in VaultIds, NEW t \in Targets, OpenStrategy(id, t)
  PROVE  /\ strategies'[id][t].exists
         /\ \A v \in VaultIds, u \in Targets :
              strategies[v][u].exists => strategies'[v][u].exists
         /\ \A v \in VaultIds : vaults'[v].exists = vaults[v].exists
  BY DEF OpenStrategy, StrategyAdded, TypeOK, Vault

\* Closing a record keeps the others and the vaults that exist.
LEMMA ClosingKeeps ==
  ASSUME TypeOK, NEW id \in VaultIds, NEW t \in Targets, CloseStrategy(id, t)
  PROVE  /\ \A v \in VaultIds, u \in Targets :
              strategies[v][u].exists /\ ~(v = id /\ u = t) => strategies'[v][u].exists
         /\ \A v \in VaultIds : vaults'[v].exists = vaults[v].exists
  BY DEF CloseStrategy, StrategyDropped, TypeOK, Vault

\* Deposit tokens of a closed vault are gone, and no vault is created over any.
LEMMA AdministrationTracks ==
  TypeOK /\ VenuesTracked /\ Administration => VenuesTracked'
<1> SUFFICES ASSUME TypeOK, VenuesTracked, Administration PROVE VenuesTracked'
  OBVIOUS
<1>1. UNCHANGED <<positions, traders, strategies, tokens>>
  BY DEF Administration, ProtocolStatusChange, ConfigAddManager, ConfigRemoveManager,
         VaultInitialize, VaultStatusChange, VaultClose, venues
<1>2. \A v \in VaultIds : ~vaults'[v].exists => tokens[v][DepositMint] = 0
  <2> SUFFICES ASSUME NEW v \in VaultIds, ~vaults'[v].exists PROVE tokens[v][DepositMint] = 0
    OBVIOUS
  <2>1. CASE ~vaults[v].exists
    BY <2>1 DEF VenuesTracked
  <2>2. CASE vaults[v].exists
    <3>1. VaultClose(v)
      BY <2>2 DEF Administration, ProtocolStatusChange, ConfigAddManager, ConfigRemoveManager,
             VaultInitialize, VaultStatusChange, VaultClose, TypeOK, Vault, NoVault
    <3> QED
      BY <3>1 DEF VaultClose, IsWoundUp
  <2> QED
    BY <2>1, <2>2
<1> QED
  BY <1>1, <1>2 DEF VenuesTracked, OwesNothing

\* Tokens enter and leave vaults that exist.
LEMMA BooksTrack == TypeOK /\ VenuesTracked /\ Books => VenuesTracked'
<1> SUFFICES ASSUME TypeOK, VenuesTracked, Books PROVE VenuesTracked'
  OBVIOUS
<1>1. UNCHANGED <<positions, traders, strategies, vaults>>
  BY DEF Books, DepositResolved, WithdrawalResolved, NavPosted, SplToEscrow, SplTransfer, venues
<1>2. \A v \in VaultIds : ~vaults[v].exists => tokens'[v] = tokens[v]
  BY DEF Books, DepositResolved, WithdrawalResolved, NavPosted, SplToEscrow, SplTransfer, TypeOK
<1> QED
  BY <1>1, <1>2 DEF VenuesTracked, OwesNothing

\* Jupiter records are under other targets than positions and traders.
LEMMA JupiterTracks == TypeOK /\ VenuesTracked /\ Jupiter => VenuesTracked'
<1> SUFFICES ASSUME TypeOK, VenuesTracked, NEW id \in VaultIds, NEW mint \in Mints,
      \/ JupiterInitializeStrategy(id, mint)
      \/ \E source, destination \in {mint, DepositMint}, spent, received \in Amounts :
           JupiterSwap(id, mint, source, destination, spent, received)
      \/ \E token_program \in TokenPrograms :
           VaultCloseJupiterStrategy(id, mint, token_program)
    PROVE VenuesTracked'
  BY DEF Jupiter
<1>1. mint \in Targets /\ Trader \in Targets /\ Positions \subseteq Targets
      /\ mint # Trader /\ mint \notin Positions
  BY StrategyAssumption DEF Targets
<1>2. \A p \in Positions : positions[p].owner \in VaultIds
  BY DEF TypeOK, Position
<1>3. CASE JupiterInitializeStrategy(id, mint)
  BY <1>1, <1>2, <1>3, OpeningKeeps
  DEF JupiterInitializeStrategy, VenuesTracked, OwesNothing, venues
<1>4. ASSUME NEW source \in {mint, DepositMint}, NEW destination \in {mint, DepositMint},
             NEW spent \in Amounts, NEW received \in Amounts,
             JupiterSwap(id, mint, source, destination, spent, received)
      PROVE VenuesTracked'
  <2>1. vaults[id].exists /\ UNCHANGED <<positions, traders, strategies, vaults>>
    BY <1>4 DEF JupiterSwap, MayEnter, venues
  <2>2. \A v \in VaultIds \ {id} : tokens'[v] = tokens[v]
    BY <1>4 DEF JupiterSwap, TypeOK
  <2> QED
    BY <2>1, <2>2 DEF VenuesTracked, OwesNothing
<1>5. ASSUME NEW token_program \in TokenPrograms,
             VaultCloseJupiterStrategy(id, mint, token_program)
      PROVE VenuesTracked'
  BY <1>1, <1>2, <1>5, ClosingKeeps
  DEF VaultCloseJupiterStrategy, VenuesTracked, OwesNothing, venues
<1> QED
  BY <1>3, <1>4, <1>5

\* A position is created with its record and closed with it.
LEMMA MeteoraDlmmTracks == TypeOK /\ VenuesTracked /\ MeteoraDlmm => VenuesTracked'
<1> SUFFICES ASSUME TypeOK, VenuesTracked, MeteoraDlmm PROVE VenuesTracked'
  OBVIOUS
<1>1. Trader \in Targets /\ Positions \subseteq Targets /\ Trader \notin Positions
  BY StrategyAssumption DEF Targets
<1>2. \A p \in Positions : positions[p].owner \in VaultIds /\ positions[p] \in Position
  BY DEF TypeOK, Position
<1>3. ASSUME NEW id \in VaultIds, NEW p \in Positions, NEW width \in 1 .. MAX_INITIAL_WIDTH,
             MeteoraDlmmInitializePosition(id, p, width)
      PROVE VenuesTracked'
  <2>1. positions'[p].owner = id
    BY <1>3 DEF MeteoraDlmmInitializePosition, TypeOK, NoPosition
  <2>2. \A q \in Positions \ {p} : positions'[q] = positions[q]
    BY <1>3 DEF MeteoraDlmmInitializePosition, TypeOK
  <2>3. OpenStrategy(id, p) /\ UNCHANGED <<tokens, traders>>
    BY <1>3 DEF MeteoraDlmmInitializePosition
  <2> QED
    BY <1>1, <1>2, <2>1, <2>2, <2>3, OpeningKeeps DEF VenuesTracked, OwesNothing
<1>4. ASSUME NEW id \in VaultIds, NEW p \in Positions, NEW side \in Sides, NEW amount \in Nat,
             \/ MeteoraDlmmExtendPosition(id, p, amount)
             \/ MeteoraDlmmAddLiquidity(id, p, side, amount)
             \/ MeteoraDlmmRemoveLiquidity(id, p, side, amount)
             \/ MeteoraDlmmClaimFee(id, p, side, amount)
      PROVE VenuesTracked'
  <2>1. vaults[id].exists /\ UNCHANGED <<vaults, strategies, traders>>
    BY <1>4 DEF MeteoraDlmmExtendPosition, MeteoraDlmmAddLiquidity, MeteoraDlmmRemoveLiquidity,
                MeteoraDlmmClaimFee, MayEnter, MayUnwind
  <2>2. \A v \in VaultIds \ {id} : tokens'[v] = tokens[v]
    BY <1>4 DEF MeteoraDlmmExtendPosition, MeteoraDlmmAddLiquidity, MeteoraDlmmRemoveLiquidity,
                MeteoraDlmmClaimFee, TypeOK
  <2>3. \A q \in Positions : /\ positions'[q].exists = positions[q].exists
                             /\ positions'[q].owner = positions[q].owner
    <3>1. CASE MeteoraDlmmExtendPosition(id, p, amount)
      BY <1>2, <3>1 DEF MeteoraDlmmExtendPosition, TypeOK, Position
    <3>2. CASE MeteoraDlmmAddLiquidity(id, p, side, amount)
      BY <1>2, <3>2 DEF MeteoraDlmmAddLiquidity, TypeOK, Position
    <3>3. CASE MeteoraDlmmRemoveLiquidity(id, p, side, amount)
      BY <1>2, <3>3 DEF MeteoraDlmmRemoveLiquidity, TypeOK, Position
    <3>4. CASE MeteoraDlmmClaimFee(id, p, side, amount)
      BY <1>2, <3>4 DEF MeteoraDlmmClaimFee, TypeOK, Position
    <3> QED
      BY <1>4, <3>1, <3>2, <3>3, <3>4
  <2> QED
    BY <2>1, <2>2, <2>3 DEF VenuesTracked, OwesNothing
<1>5. ASSUME NEW id \in VaultIds, NEW p \in Positions, VaultCloseDlmmStrategy(id, p)
      PROVE VenuesTracked'
  <2>1. ~positions'[p].exists /\ \A q \in Positions \ {p} : positions'[q] = positions[q]
    BY <1>5 DEF VaultCloseDlmmStrategy, TypeOK, NoPosition
  <2>2. CloseStrategy(id, p) /\ UNCHANGED <<tokens, traders>>
    BY <1>5 DEF VaultCloseDlmmStrategy
  <2> QED
    BY <1>1, <1>2, <2>1, <2>2, ClosingKeeps DEF VenuesTracked, OwesNothing
<1>6. ASSUME NEW p \in Positions, NEW side \in Sides, DlmmTrade(p, side) PROVE VenuesTracked'
  <2>1. UNCHANGED <<vaults, strategies, traders, tokens>>
    BY <1>6 DEF DlmmTrade
  <2>2. \A q \in Positions : /\ positions'[q].exists = positions[q].exists
                             /\ positions'[q].owner = positions[q].owner
    <3>1. PICK fee \in {0, 1} :
            positions' = [positions EXCEPT ![p] =
              [positions[p] EXCEPT !.liquidity = Traded(positions[p].liquidity, side),
                                   !.fees = Earned(positions[p].fees, side, fee)]]
      BY <1>6 DEF DlmmTrade
    <3> QED
      BY <1>2, <3>1 DEF TypeOK, Position
  <2> QED
    BY <2>1, <2>2 DEF VenuesTracked, OwesNothing
<1> QED
  BY <1>3, <1>4, <1>5, <1>6, StrategyAssumption DEF MeteoraDlmm, Sides

\* The trader account of a vault without a record holds nothing and stays so;
\* the tokens of a vault that does not exist do not move.
LEMMA TradersTrack ==
  ASSUME TypeOK, VenuesTracked, NEW id \in VaultIds,
         UNCHANGED <<vaults, strategies, positions>>,
         \A v \in VaultIds \ {id} : traders'[v] = traders[v] /\ tokens'[v] = tokens[v],
         strategies[id][Trader].exists \/ OwesNothing(traders'[id]) \/ ~OwesNothing(traders[id]),
         vaults[id].exists \/ tokens'[id][DepositMint] = tokens[id][DepositMint]
  PROVE  VenuesTracked'
<1>1. \A v \in VaultIds : ~OwesNothing(traders'[v]) => strategies[v][Trader].exists
  BY DEF VenuesTracked
<1>2. \A v \in VaultIds : ~vaults[v].exists => tokens'[v][DepositMint] = 0
  BY DEF VenuesTracked
<1> QED
  BY <1>1, <1>2 DEF VenuesTracked, OwesNothing

\* Steps of the Phoenix instructions.
LEMMA PhoenixInstructionsTrack ==
  ASSUME TypeOK, VenuesTracked, NEW id \in VaultIds,
         NEW amount \in Nat, NEW minted \in Nat, NEW received \in Nat,
         NEW reduce_only \in BOOLEAN, NEW cancel_existing \in BOOLEAN,
         NEW lots \in Lots, NEW posted \in Lots, NEW min \in Lots,
         \/ PhoenixInitializeStrategy(id)
         \/ PhoenixDepositFunds(id, amount, minted)
         \/ PhoenixWithdrawFunds(id, amount, received)
         \/ PhoenixEmberWithdraw(id)
         \/ PhoenixPlaceMarketOrder(id, reduce_only, cancel_existing, lots, min)
         \/ PhoenixPlaceLimitOrder(id, cancel_existing, lots, posted)
         \/ PhoenixCancelOrders(id, posted)
         \/ VaultClosePhoenixStrategy(id)
  PROVE  VenuesTracked'
<1>1. Trader \in Targets /\ Positions \subseteq Targets /\ Trader \notin Positions
  BY StrategyAssumption DEF Targets
<1>2. /\ \A p \in Positions : positions[p].owner \in VaultIds
      /\ traders[id] \in TraderAccount
  BY DEF TypeOK, Position
<1>3. CASE PhoenixInitializeStrategy(id)
  <2>1. OpenStrategy(id, Trader) /\ UNCHANGED <<tokens, positions>>
    BY <1>3 DEF PhoenixInitializeStrategy
  <2>2. \A v \in VaultIds : OwesNothing(traders'[v]) = OwesNothing(traders[v])
    BY <1>3 DEF PhoenixInitializeStrategy, OwesNothing, TypeOK, TraderAccount
  <2>3. \A v \in VaultIds : ~OwesNothing(traders[v]) => strategies'[v][Trader].exists
    BY <1>1, <2>1, OpeningKeeps DEF VenuesTracked
  <2>4. \A p \in Positions : positions[p].exists => strategies'[positions[p].owner][p].exists
    BY <1>1, <1>2, <2>1, OpeningKeeps DEF VenuesTracked
  <2>5. \A v \in VaultIds : ~vaults'[v].exists => tokens[v][DepositMint] = 0
    BY <1>1, <2>1, OpeningKeeps DEF VenuesTracked
  <2> QED
    BY <2>1, <2>2, <2>3, <2>4, <2>5 DEF VenuesTracked, OwesNothing
<1>4. CASE PhoenixDepositFunds(id, amount, minted) \/ PhoenixWithdrawFunds(id, amount, received)
  <2>1. /\ strategies[id][Trader].exists /\ vaults[id].exists
        /\ UNCHANGED <<vaults, strategies, positions>>
    BY <1>4 DEF PhoenixDepositFunds, PhoenixWithdrawFunds, MayEnter, MayExit
  <2>2. \A v \in VaultIds \ {id} : traders'[v] = traders[v] /\ tokens'[v] = tokens[v]
    BY <1>4 DEF PhoenixDepositFunds, PhoenixWithdrawFunds, TypeOK
  <2> QED
    BY <2>1, <2>2, TradersTrack
<1>5. CASE PhoenixEmberWithdraw(id)
  <2>1. /\ strategies[id][Trader].exists /\ vaults[id].exists
        /\ UNCHANGED <<vaults, strategies, positions>>
    BY <1>5 DEF PhoenixEmberWithdraw, MayExit, venues
  <2>2. \A v \in VaultIds \ {id} : traders'[v] = traders[v] /\ tokens'[v] = tokens[v]
    BY <1>5 DEF PhoenixEmberWithdraw, TypeOK, venues
  <2> QED
    BY <2>1, <2>2, TradersTrack
<1>6. CASE \/ PhoenixPlaceMarketOrder(id, reduce_only, cancel_existing, lots, min)
           \/ PhoenixPlaceLimitOrder(id, cancel_existing, lots, posted)
           \/ PhoenixCancelOrders(id, posted)
  <2>1. /\ strategies[id][Trader].exists
        /\ UNCHANGED <<vaults, strategies, positions, tokens>>
    BY <1>6 DEF PhoenixPlaceMarketOrder, PhoenixPlaceLimitOrder, PhoenixCancelOrders
  <2>2. \A v \in VaultIds \ {id} : traders'[v] = traders[v]
    BY <1>6 DEF PhoenixPlaceMarketOrder, PhoenixPlaceLimitOrder, PhoenixCancelOrders, TypeOK
  <2> QED
    BY <2>1, <2>2, TradersTrack
<1>7. CASE VaultClosePhoenixStrategy(id)
  <2>1. /\ CloseStrategy(id, Trader) /\ OwesNothing(traders[id])
        /\ UNCHANGED <<tokens, positions, traders>>
    BY <1>7 DEF VaultClosePhoenixStrategy, IsClosable, IsEmpty, OwesNothing, venues
  <2>2. \A v \in VaultIds : ~OwesNothing(traders[v]) => strategies'[v][Trader].exists
    BY <1>1, <2>1, ClosingKeeps DEF VenuesTracked
  <2>3. \A p \in Positions : positions[p].exists => strategies'[positions[p].owner][p].exists
    BY <1>1, <1>2, <2>1, ClosingKeeps DEF VenuesTracked
  <2>4. \A v \in VaultIds : ~vaults'[v].exists => tokens[v][DepositMint] = 0
    BY <1>1, <2>1, ClosingKeeps DEF VenuesTracked
  <2> QED
    BY <2>1, <2>2, <2>3, <2>4 DEF VenuesTracked, OwesNothing
<1> QED
  BY <1>3, <1>4, <1>5, <1>6, <1>7

\* What Phoenix does on its own starts from something it owes.
LEMMA PhoenixEventsTrack ==
  ASSUME TypeOK, VenuesTracked, NEW id \in VaultIds,
         \/ PhoenixOnboard(id)
         \/ PhoenixPayQueued(id)
         \/ PhoenixFill(id)
         \/ PhoenixMark(id)
         \/ PhoenixLiquidate(id)
  PROVE  VenuesTracked'
<1>1. traders[id] \in TraderAccount /\ CanonicalMint # DepositMint
  BY StrategyAssumption DEF TypeOK
<1>2. UNCHANGED <<vaults, strategies, positions>>
  BY DEF PhoenixOnboard, PhoenixPayQueued, PhoenixFill, PhoenixMark, PhoenixLiquidate,
         PhoenixChanges
<1>3. \A v \in VaultIds \ {id} : traders'[v] = traders[v] /\ tokens'[v] = tokens[v]
  BY DEF PhoenixOnboard, PhoenixPayQueued, PhoenixFill, PhoenixMark, PhoenixLiquidate, TypeOK
<1>4. tokens'[id][DepositMint] = tokens[id][DepositMint]
  <2>1. CASE PhoenixPayQueued(id)
    <3>1. PICK paid : tokens' = [tokens EXCEPT ![id][CanonicalMint] = @ + paid]
      BY <2>1 DEF PhoenixPayQueued
    <3>2. DepositMint \in Tokens
      BY DEF Tokens
    <3> QED
      BY <1>1, <3>1, <3>2 DEF TypeOK
  <2>2. CASE ~PhoenixPayQueued(id)
    BY <2>2 DEF PhoenixOnboard, PhoenixFill, PhoenixMark, PhoenixLiquidate
  <2> QED
    BY <2>1, <2>2
<1>5. OwesNothing(traders'[id]) \/ ~OwesNothing(traders[id])
  <2>1. CASE PhoenixOnboard(id)
    BY <1>1, <2>1 DEF PhoenixOnboard, OwesNothing, TypeOK, TraderAccount
  <2>2. CASE PhoenixPayQueued(id)
    BY <2>2 DEF PhoenixPayQueued, OwesNothing
  <2>3. CASE PhoenixFill(id)
    <3> DEFINE t == traders[id]
    <3>1. PICK lots \in {t.lots + 1, t.lots - 1} \cap (0 .. t.collateral) : TRUE
      BY <2>3 DEF PhoenixFill
    <3>2. t.lots \in Nat /\ t.collateral \in Nat
      BY <1>1, StrategyAssumption DEF TraderAccount, Holding
    <3>3. t.lots # 0 \/ t.collateral # 0
      BY <3>1, <3>2
    <3> QED
      BY <3>3 DEF OwesNothing
  <2>4. CASE PhoenixMark(id)
    BY <2>4 DEF PhoenixMark, OwesNothing
  <2>5. CASE PhoenixLiquidate(id)
    <3>1. traders[id].lots \in Nat /\ traders[id].collateral \in Nat
      BY <1>1, StrategyAssumption DEF TraderAccount, Holding
    <3> QED
      BY <2>5, <3>1 DEF PhoenixLiquidate, Liquidatable, OwesNothing
  <2> QED
    BY <2>1, <2>2, <2>3, <2>4, <2>5
<1> QED
  BY <1>2, <1>3, <1>4, <1>5, TradersTrack

\* Steps at Phoenix.
LEMMA PhoenixTracks == TypeOK /\ VenuesTracked /\ Phoenix => VenuesTracked'
<1> SUFFICES ASSUME TypeOK, VenuesTracked, NEW id \in VaultIds,
      \/ PhoenixInitializeStrategy(id)
      \/ \E amount \in Amounts, minted, received \in Amounts \cup {0} :
           PhoenixDepositFunds(id, amount, minted) \/ PhoenixWithdrawFunds(id, amount, received)
      \/ PhoenixEmberWithdraw(id)
      \/ \E reduce_only, cancel_existing \in BOOLEAN, lots, min \in Lots :
           PhoenixPlaceMarketOrder(id, reduce_only, cancel_existing, lots, min)
      \/ \E cancel_existing \in BOOLEAN, lots, posted \in Lots :
           PhoenixPlaceLimitOrder(id, cancel_existing, lots, posted)
      \/ \E resting \in Lots : PhoenixCancelOrders(id, resting)
      \/ VaultClosePhoenixStrategy(id)
      \/ PhoenixOnboard(id) \/ PhoenixPayQueued(id) \/ PhoenixFill(id)
      \/ PhoenixMark(id) \/ PhoenixLiquidate(id)
    PROVE VenuesTracked'
  BY DEF Phoenix
<1>1. 0 \in Lots /\ 0 \in Nat /\ TRUE \in BOOLEAN /\ Amounts \subseteq Nat
  BY StrategyAssumption DEF Lots
<1>2. CASE PhoenixInitializeStrategy(id) \/ PhoenixEmberWithdraw(id) \/ VaultClosePhoenixStrategy(id)
  BY <1>1, <1>2, PhoenixInstructionsTrack
<1>3. CASE \E amount \in Amounts, minted, received \in Amounts \cup {0} :
             PhoenixDepositFunds(id, amount, minted) \/ PhoenixWithdrawFunds(id, amount, received)
  BY <1>1, <1>3, PhoenixInstructionsTrack
<1>4. CASE \E reduce_only, cancel_existing \in BOOLEAN, lots, min \in Lots :
             PhoenixPlaceMarketOrder(id, reduce_only, cancel_existing, lots, min)
  BY <1>1, <1>4, PhoenixInstructionsTrack
<1>5. CASE \E cancel_existing \in BOOLEAN, lots, posted \in Lots :
           PhoenixPlaceLimitOrder(id, cancel_existing, lots, posted)
  BY <1>1, <1>5, PhoenixInstructionsTrack
<1>6. CASE \E resting \in Lots : PhoenixCancelOrders(id, resting)
  BY <1>1, <1>6, PhoenixInstructionsTrack
<1>7. CASE \/ PhoenixOnboard(id) \/ PhoenixPayQueued(id) \/ PhoenixFill(id)
           \/ PhoenixMark(id) \/ PhoenixLiquidate(id)
  BY <1>7, PhoenixEventsTrack
<1> QED
  BY <1>2, <1>3, <1>4, <1>5, <1>6, <1>7

\* A vault starts with nothing at the venues.
LEMMA InitialVenues == Init => VenuesTracked
<1> SUFFICES ASSUME Init PROVE VenuesTracked
  OBVIOUS
<1>1. \A p \in Positions : ~positions[p].exists
  BY DEF Init, NoPosition
<1>2. \A id \in VaultIds : OwesNothing(traders[id])
  BY DEF Init, NoTrader, OwesNothing
<1>3. \A id \in VaultIds : tokens[id][DepositMint] = 0
  BY DEF Init, Tokens
<1> QED
  BY <1>1, <1>2, <1>3 DEF VenuesTracked

\* The records and what they point to, in every reachable state.
LEMMA RecordsAndVenues == Spec => [](TypeOK /\ RecordsCounted /\ VenuesTracked)
<1>1. TypeOK /\ VenuesTracked /\ UNCHANGED vars => VenuesTracked'
  BY DEF VenuesTracked, OwesNothing, vars
<1>2. TypeOK /\ VenuesTracked /\ [Next]_vars => VenuesTracked'
  BY <1>1, AdministrationTracks, BooksTrack, JupiterTracks, MeteoraDlmmTracks, PhoenixTracks
  DEF Next
<1>3. TypeOK /\ RecordsCounted /\ [Next]_vars => RecordsCounted'
  BY RecordsStayCounted, StepsOnRecords
<1> QED
  BY <1>2, <1>3, InitialRecords, InitialVenues, StrategyTypes, PTL DEF Spec

\* A record that exists belongs to a vault that exists.
LEMMA RecordsHaveVaults ==
  ASSUME RecordsCounted, NEW id \in VaultIds, NEW t \in Targets, strategies[id][t].exists
  PROVE  vaults[id].exists
  BY DEF RecordsCounted, Open

\* Liquidity and whatever Phoenix owes always have a record and a vault.
THEOREM VenueAssetsStayTracked == Spec => []VenueAssetsAreTracked
<1>1. TypeOK /\ RecordsCounted /\ VenuesTracked => VenueAssetsAreTracked
  <2> SUFFICES ASSUME TypeOK, RecordsCounted, VenuesTracked PROVE VenueAssetsAreTracked
    OBVIOUS
  <2>1. \A p \in Positions : p \in Targets /\ positions[p].owner \in VaultIds
    BY DEF TypeOK, Position, Targets
  <2>2. Trader \in Targets
    BY DEF Targets
  <2> QED
    BY <2>1, <2>2, RecordsHaveVaults DEF VenuesTracked, VenueAssetsAreTracked
<1> QED
  BY <1>1, RecordsAndVenues, PTL

\* A closed vault has no record and no deposit tokens, and no venue holds
\* anything for it.
THEOREM ClosingLeavesNoDeposits == Spec => []ClosedVaultsHoldNoDeposits
<1>1. TypeOK /\ RecordsCounted /\ VenuesTracked => ClosedVaultsHoldNoDeposits
  <2> SUFFICES ASSUME TypeOK, RecordsCounted, VenuesTracked, NEW id \in VaultIds, ~vaults[id].exists
               PROVE  /\ Open(id) = {}
                      /\ tokens[id][DepositMint] = 0
                      /\ \A p \in Positions : positions[p].exists => positions[p].owner # id
                      /\ OwesNothing(traders[id])
    BY DEF ClosedVaultsHoldNoDeposits
  <2>1. Open(id) = {} /\ tokens[id][DepositMint] = 0
    BY DEF RecordsCounted, VenuesTracked
  <2>2. \A t \in Targets : ~strategies[id][t].exists
    BY <2>1 DEF Open
  <2> QED
    BY <2>1, <2>2 DEF VenuesTracked, Targets
<1> QED
  BY <1>1, RecordsAndVenues, PTL

=============================================================================
