---------------------------- MODULE HedgeVaultProofs ----------------------------
(***************************************************************************)
(* Theorems about one vault, for every value of its constants.             *)
(***************************************************************************)
EXTENDS HedgeVaultProps, VaultMathProofs

-----------------------------------------------------------------------------
(* Type correctness. *)

\* The constants and the ranges built from them are natural numbers.
LEMMA ConstantsAreNat ==
  /\ NAV_PRECISION \in U64 /\ MAX_BPS \in Nat /\ U64 \subseteq Nat /\ Bps \subseteq Nat
  /\ Epoch(GenesisTs) \in Nat /\ 0 \in U64 /\ 0 \in Bps
BY MathAssumption, InputsAssumption, EpochIsMonotone DEF U64, Bps

\* A checked subtraction and a checked addition stay within the width.
LEMMA CheckedSub ==
  ASSUME NEW x \in U64, NEW y \in Nat, x >= y
  PROVE  x - y \in U64
BY MathAssumption DEF U64

\* The fields of a typed state, one by one.
LEMMA FieldsAreTyped ==
  ASSUME TypeOK
  PROVE  /\ \A u \in Users : /\ deposit_requests[u].amount \in U64
                             /\ deposit_requests[u].epoch \in Nat
                             /\ withdrawal_requests[u].amount \in U64
                             /\ withdrawal_requests[u].epoch \in Nat
                             /\ wallets[u] \in Nat /\ share_balances[u] \in Nat
         /\ {vault.total_assets, vault.nav_per_share, vault.high_water_mark,
             vault.pending_deposits, vault.pending_withdrawal_shares,
             vault.unclaimed_manager_fee_shares, vault.unclaimed_platform_fee_shares,
             vault.epoch_outflow, share_supply} \subseteq U64
         /\ vault.nav_epoch \in Nat /\ vault.last_nav_ts \in Nat /\ now \in Nat
         /\ ManagerRates \in Rates /\ PlatformRates \in Rates
         /\ Supply \in Nat
<1>1. \A u \in Users : /\ deposit_requests[u] \in Requests /\ withdrawal_requests[u] \in Requests
                      /\ wallets[u] \in Nat /\ share_balances[u] \in Nat
  BY DEF TypeOK
<1>2. \A u \in Users : /\ deposit_requests[u].amount \in U64 /\ deposit_requests[u].epoch \in Nat
                      /\ withdrawal_requests[u].amount \in U64
                      /\ withdrawal_requests[u].epoch \in Nat
  BY <1>1 DEF Requests
<1>3. /\ {vault.total_assets, vault.nav_per_share, vault.high_water_mark,
          vault.pending_deposits, vault.pending_withdrawal_shares,
          vault.unclaimed_manager_fee_shares, vault.unclaimed_platform_fee_shares,
          vault.epoch_outflow, share_supply} \subseteq U64
      /\ vault.nav_epoch \in Nat /\ vault.last_nav_ts \in Nat /\ now \in Nat
  BY DEF TypeOK, Books
<1>4. Supply \in Nat
  <2>1. /\ share_supply \in U64 /\ vault.unclaimed_manager_fee_shares \in U64
        /\ vault.unclaimed_platform_fee_shares \in U64
    BY DEF TypeOK, Books
  <2>2. U64 \subseteq Nat
    BY ConstantsAreNat
  <2>3. /\ share_supply \in Nat /\ vault.unclaimed_manager_fee_shares \in Nat
        /\ vault.unclaimed_platform_fee_shares \in Nat
    BY <2>1, <2>2
  <2> QED BY <2>3 DEF Supply
<1>5. ManagerRates \in Rates
  BY ConstantsAreNat DEF TypeOK, FeeSchedules, ManagerRates, Rates
<1>6. PlatformRates \in Rates
  BY ConstantsAreNat DEF TypeOK, Configs, PlatformRates, Rates
<1> QED BY <1>1, <1>2, <1>3, <1>4, <1>5, <1>6

\* The same fields as plain natural numbers.
LEMMA NumbersAreNat ==
  ASSUME TypeOK
  PROVE  /\ vault.total_assets \in Nat /\ vault.nav_per_share \in Nat
         /\ vault.high_water_mark \in Nat /\ share_supply \in Nat
         /\ vault.unclaimed_manager_fee_shares \in Nat
         /\ vault.unclaimed_platform_fee_shares \in Nat
         /\ Supply \in Nat /\ NAV_PRECISION \in Nat
         /\ \A u \in Users : /\ deposit_requests[u].amount \in Nat
                             /\ withdrawal_requests[u].amount \in Nat
<1>1. U64 \subseteq Nat
  BY ConstantsAreNat
<1>2. /\ vault.total_assets \in U64 /\ vault.nav_per_share \in U64
      /\ vault.high_water_mark \in U64 /\ share_supply \in U64
      /\ vault.unclaimed_manager_fee_shares \in U64
      /\ vault.unclaimed_platform_fee_shares \in U64
  BY DEF TypeOK, Books
<1> QED BY <1>1, <1>2, FieldsAreTyped, MathAssumption

\* vault_initialize leaves every field typed.
LEMMA TypeInit == Init => TypeOK
<1> SUFFICES ASSUME Init PROVE TypeOK
  OBVIOUS
<1> USE ConstantsAreNat
<1>1. now \in Nat
  BY InputsAssumption DEF Init
<1>2. config \in Configs
  BY ArgumentsAssumption DEF Init, Configs, Statuses
<1>3. PICK args \in GenesisArgs :
        /\ fees = [performance_fee_bps |-> args.performance_fee_bps,
                   management_fee_bps |-> args.management_fee_bps,
                   pending_performance_fee_bps |-> 0,
                   pending_management_fee_bps |-> 0,
                   fee_effective_ts |-> 0]
        /\ params = [deposit_cap |-> args.deposit_cap,
                     min_deposit |-> args.min_deposit,
                     min_withdrawal_shares |-> args.min_withdrawal_shares,
                     status |-> "Normal",
                     deposit_paused |-> FALSE,
                     withdrawal_paused |-> FALSE]
  BY DEF Init
<1>4. args \in [performance_fee_bps : Bps, management_fee_bps : Bps, deposit_cap : U64,
                min_deposit : U64 \ {0}, min_withdrawal_shares : U64 \ {0}]
  BY ArgumentsAssumption
<1>5. fees \in FeeSchedules
  BY <1>3, <1>4 DEF FeeSchedules
<1>6. params \in Settings
  BY <1>3, <1>4 DEF Settings, Statuses
<1>7. vault \in Books
  BY InputsAssumption DEF Init, Books
<1>8. /\ deposit_requests \in [Users -> Requests]
      /\ withdrawal_requests \in [Users -> Requests]
      /\ wallets \in [Users -> Nat]
      /\ share_balances \in [Users -> Nat]
      /\ deposit_escrow \in Nat /\ share_escrow \in Nat /\ idle \in Nat
      /\ share_supply \in U64
  BY InputsAssumption DEF Init, Requests, NoRequest
<1> QED BY <1>1, <1>2, <1>5, <1>6, <1>7, <1>8 DEF TypeOK

\* mint_to keeps the supply within its width and the balances natural.
LEMMA TypeOfMint ==
  ASSUME TypeOK, NEW u \in Users, NEW amount \in U64, CanMint(amount), Mint(u, amount)
  PROVE  share_supply' \in U64 /\ share_balances' \in [Users -> Nat]
BY ConstantsAreNat DEF TypeOK, CanMint, Mint

\* Every instruction on a deposit request keeps the types.
LEMMA TypeOfDepositStep ==
  ASSUME TypeOK, NEW u \in Users,
         \/ \E amount \in DepositAmounts : DepositRequestCreate(u, amount)
         \/ DepositRequestResolve(u)
         \/ DepositRequestCancel(u)
         \/ DepositRequestReject(u)
  PROVE  TypeOK'
<1> USE ConstantsAreNat DEF TypeOK
<1>1. CASE \E amount \in DepositAmounts : DepositRequestCreate(u, amount)
  <2>1. PICK amount \in DepositAmounts : DepositRequestCreate(u, amount)
    BY <1>1
  <2>2. amount \in U64
    BY InputsAssumption
  <2>3. vault' \in Books
    BY <2>1, <2>2 DEF DepositRequestCreate, Books
  <2>4. deposit_requests' \in [Users -> Requests]
    BY <2>1, <2>2, EpochIsMonotone DEF DepositRequestCreate, Accumulated, Requests
  <2>5. wallets' \in [Users -> Nat] /\ deposit_escrow' \in Nat
    BY <2>1, <2>2 DEF DepositRequestCreate
  <2> QED BY <2>1, <2>3, <2>4, <2>5 DEF DepositRequestCreate, settings
<1>2. CASE DepositRequestResolve(u)
  <2> DEFINE amount == deposit_requests[u].amount
             minted == SharesFor(amount, vault.nav_per_share)
  <2>1. amount \in U64 /\ amount \in Nat
    BY FieldsAreTyped
  <2>2. /\ minted \in U64 /\ vault.total_assets + amount \in U64
        /\ deposit_escrow >= amount /\ vault.pending_deposits >= amount
        /\ CanMint(minted)
    BY <1>2 DEF DepositRequestResolve, CanResolveDeposit, CanReleaseDeposit
  <2>3. /\ vault' = DepositBooked(amount)
        /\ deposit_requests' = [deposit_requests EXCEPT ![u] = NoRequest]
        /\ deposit_escrow' = deposit_escrow - amount
        /\ idle' = idle + amount
        /\ Mint(u, minted)
        /\ UNCHANGED <<now, settings, withdrawal_requests, wallets, share_escrow>>
    BY <1>2 DEF DepositRequestResolve
  <2>4. vault.pending_deposits - amount \in U64
    BY <2>1, <2>2, FieldsAreTyped, CheckedSub
  <2> HIDE DEF amount, minted
  <2>5. vault' \in Books
    BY <2>2, <2>3, <2>4 DEF DepositBooked, Books
  <2>6. deposit_requests' \in [Users -> Requests]
    BY <2>3 DEF NoRequest, Requests
  <2>7. deposit_escrow' \in Nat /\ idle' \in Nat
    BY <2>1, <2>2, <2>3
  <2>8. share_supply' \in U64 /\ share_balances' \in [Users -> Nat]
    BY <2>2, <2>3, TypeOfMint
  <2> QED BY <2>3, <2>5, <2>6, <2>7, <2>8 DEF settings
<1>3. CASE RefundDeposit(u)
  <2> DEFINE amount == deposit_requests[u].amount
  <2>1. amount \in U64 /\ amount \in Nat
    BY FieldsAreTyped
  <2>2. /\ vault.pending_deposits >= amount /\ deposit_escrow >= amount
        /\ vault' = [vault EXCEPT !.pending_deposits = @ - amount]
        /\ deposit_requests' = [deposit_requests EXCEPT ![u] = NoRequest]
        /\ deposit_escrow' = deposit_escrow - amount
        /\ wallets' = [wallets EXCEPT ![u] = @ + amount]
        /\ UNCHANGED <<now, settings, withdrawal_requests, share_balances, share_escrow,
                       idle, share_supply>>
    BY <1>3 DEF RefundDeposit, CanReleaseDeposit
  <2>3. vault.pending_deposits - amount \in U64
    BY <2>1, <2>2, FieldsAreTyped, CheckedSub
  <2> HIDE DEF amount
  <2>4. vault' \in Books
    BY <2>2, <2>3 DEF Books
  <2>5. deposit_requests' \in [Users -> Requests]
    BY <2>2 DEF NoRequest, Requests
  <2>6. deposit_escrow' \in Nat /\ wallets' \in [Users -> Nat]
    BY <2>1, <2>2
  <2> QED BY <2>2, <2>4, <2>5, <2>6 DEF settings
<1> QED BY <1>1, <1>2, <1>3 DEF DepositRequestCancel, DepositRequestReject

\* Every instruction on a withdrawal request keeps the types.
LEMMA TypeOfWithdrawalStep ==
  ASSUME TypeOK, NEW u \in Users,
         \/ \E amount \in ShareAmounts : WithdrawalRequestCreate(u, amount)
         \/ WithdrawalRequestResolve(u)
         \/ WithdrawalRequestCancel(u)
         \/ WithdrawalRequestReject(u)
  PROVE  TypeOK'
<1> USE ConstantsAreNat DEF TypeOK
<1>1. CASE \E amount \in ShareAmounts : WithdrawalRequestCreate(u, amount)
  <2>1. PICK amount \in ShareAmounts : WithdrawalRequestCreate(u, amount)
    BY <1>1
  <2>2. amount \in U64
    BY InputsAssumption
  <2>3. vault' \in Books
    BY <2>1, <2>2 DEF WithdrawalRequestCreate, Books
  <2>4. withdrawal_requests' \in [Users -> Requests]
    BY <2>1, <2>2, EpochIsMonotone DEF WithdrawalRequestCreate, Accumulated, Requests
  <2>5. share_balances' \in [Users -> Nat] /\ share_escrow' \in Nat
    BY <2>1, <2>2 DEF WithdrawalRequestCreate
  <2> QED BY <2>1, <2>3, <2>4, <2>5 DEF WithdrawalRequestCreate, settings
<1>2. CASE WithdrawalRequestResolve(u)
  <2> DEFINE redeemed == withdrawal_requests[u].amount
             paid == AssetsFor(redeemed, vault.nav_per_share)
  <2>1. redeemed \in U64 /\ redeemed \in Nat
    BY FieldsAreTyped
  <2>2. /\ paid \in U64 /\ vault.epoch_outflow + paid \in U64
        /\ vault.pending_withdrawal_shares >= redeemed
        /\ vault.total_assets >= paid
        /\ idle >= paid /\ share_escrow >= redeemed /\ share_supply >= redeemed
    BY <1>2 DEF WithdrawalRequestResolve, CanResolveWithdrawal, CanReleaseShares
  <2>3. /\ vault' = WithdrawalBooked(redeemed, paid)
        /\ withdrawal_requests' = [withdrawal_requests EXCEPT ![u] = NoRequest]
        /\ share_escrow' = share_escrow - redeemed
        /\ share_supply' = share_supply - redeemed
        /\ idle' = idle - paid
        /\ wallets' = [wallets EXCEPT ![u] = @ + paid]
        /\ UNCHANGED <<now, settings, deposit_requests, share_balances, deposit_escrow>>
    BY <1>2 DEF WithdrawalRequestResolve
  <2>4. /\ vault.pending_withdrawal_shares - redeemed \in U64
        /\ vault.total_assets - paid \in U64
        /\ share_supply - redeemed \in U64
    BY <2>1, <2>2, FieldsAreTyped, CheckedSub
  <2> HIDE DEF redeemed, paid
  <2>5. vault' \in Books
    BY <2>2, <2>3, <2>4 DEF WithdrawalBooked, Books
  <2>6. withdrawal_requests' \in [Users -> Requests]
    BY <2>3 DEF NoRequest, Requests
  <2>7. share_escrow' \in Nat /\ idle' \in Nat /\ wallets' \in [Users -> Nat]
    BY <2>1, <2>2, <2>3
  <2> QED BY <2>3, <2>4, <2>5, <2>6, <2>7 DEF settings
<1>3. CASE ReturnShares(u)
  <2> DEFINE amount == withdrawal_requests[u].amount
  <2>1. amount \in U64 /\ amount \in Nat
    BY FieldsAreTyped
  <2>2. /\ vault.pending_withdrawal_shares >= amount /\ share_escrow >= amount
        /\ vault' = [vault EXCEPT !.pending_withdrawal_shares = @ - amount]
        /\ withdrawal_requests' = [withdrawal_requests EXCEPT ![u] = NoRequest]
        /\ share_escrow' = share_escrow - amount
        /\ share_balances' = [share_balances EXCEPT ![u] = @ + amount]
        /\ UNCHANGED <<now, settings, deposit_requests, wallets, deposit_escrow,
                       idle, share_supply>>
    BY <1>3 DEF ReturnShares, CanReleaseShares
  <2>3. vault.pending_withdrawal_shares - amount \in U64
    BY <2>1, <2>2, FieldsAreTyped, CheckedSub
  <2> HIDE DEF amount
  <2>4. vault' \in Books
    BY <2>2, <2>3 DEF Books
  <2>5. withdrawal_requests' \in [Users -> Requests]
    BY <2>2 DEF NoRequest, Requests
  <2>6. share_escrow' \in Nat /\ share_balances' \in [Users -> Nat]
    BY <2>1, <2>2
  <2> QED BY <2>2, <2>4, <2>5, <2>6 DEF settings
<1> QED BY <1>1, <1>2, <1>3 DEF WithdrawalRequestCancel, WithdrawalRequestReject

-----------------------------------------------------------------------------
(* NAV updates. *)

\* The two outcomes of a NAV update.
EmptyUpdate(total_assets) ==
  /\ Supply = 0
  /\ vault' = [vault EXCEPT !.nav_per_share = NAV_PRECISION,
                            !.total_assets = total_assets, !.nav_epoch = Epoch(now),
                            !.last_nav_ts = now, !.epoch_outflow = 0]

SettledUpdate(total_assets, owed, settlement) ==
  /\ Supply > 0
  /\ owed = FeesOwed(total_assets)
  /\ settlement = NavSettlement(total_assets, Supply, owed)
  /\ FeesAreSettled(total_assets, owed)
  /\ settlement.nav_per_share \in U64
  /\ vault.unclaimed_manager_fee_shares + settlement.manager_fee_shares \in U64
  /\ vault.unclaimed_platform_fee_shares + settlement.platform_fee_shares \in U64
  /\ vault' = [vault EXCEPT
       !.nav_per_share = settlement.nav_per_share,
       !.high_water_mark = RaisedHighWaterMark(settlement.nav_per_share),
       !.unclaimed_manager_fee_shares = @ + settlement.manager_fee_shares,
       !.unclaimed_platform_fee_shares = @ + settlement.platform_fee_shares,
       !.total_assets = total_assets, !.nav_epoch = Epoch(now),
       !.last_nav_ts = now, !.epoch_outflow = 0]

\* update_nav either resets the NAV of an empty vault or settles the fees.
LEMMA NavUpdateOutcomes ==
  ASSUME TypeOK, EpochsAreOrdered, NEW total_assets \in ReportedTotals,
         NEW max_deviation_bps, UpdateNav(total_assets, max_deviation_bps)
  PROVE  /\ total_assets \in U64 /\ total_assets \in Nat
         /\ NavIsDue
         /\ fees' = ApplyPendingFees
         /\ UNCHANGED <<now, config, params, requests, balances>>
         /\ \/ EmptyUpdate(total_assets)
            \/ \E owed, settlement : SettledUpdate(total_assets, owed, settlement)
<1>1. total_assets \in U64 /\ total_assets \in Nat
  BY InputsAssumption, ConstantsAreNat
<1>2. /\ NavIsDue /\ fees' = ApplyPendingFees
      /\ UNCHANGED <<now, config, params, requests, balances>>
  BY DEF UpdateNav
<1> DEFINE owed == FeesOwed(total_assets)
           settlement == NavSettlement(total_assets, Supply, owed)
           Posted(books) ==
             [books EXCEPT !.total_assets = total_assets, !.nav_epoch = Epoch(now),
                           !.last_nav_ts = now, !.epoch_outflow = 0]
<1>3. CASE Supply = 0 /\ vault' = Posted(EmptyVaultBooks)
  <2>1. EmptyUpdate(total_assets)
    BY <1>3 DEF EmptyVaultBooks, EmptyUpdate
  <2> QED BY <1>1, <1>2, <2>1
<1>4. CASE /\ Supply > 0
           /\ TotalFee(owed) > 0 => TotalFee(owed) < total_assets
           /\ AcceptableNav(total_assets, settlement, max_deviation_bps)
           /\ vault' = Posted(SettledBooks(settlement))
  <2>1. /\ Supply \in Nat \ {0} /\ now - vault.last_nav_ts \in Nat
        /\ vault.high_water_mark \in Nat
    BY <1>4, FieldsAreTyped, ConstantsAreNat DEF EpochsAreOrdered
  <2>2. owed \in [manager : Nat, platform : Nat] /\ TotalFee(owed) \in Nat
    BY <1>1, <2>1, FieldsAreTyped, OwedFeesAreNat DEF FeesOwed
  <2>3. FeesAreSettled(total_assets, owed)
    BY <1>4, <2>2 DEF FeesAreSettled
  <2>4. /\ settlement.nav_per_share \in U64
        /\ vault.unclaimed_manager_fee_shares + settlement.manager_fee_shares \in U64
        /\ vault.unclaimed_platform_fee_shares + settlement.platform_fee_shares \in U64
    BY <1>4 DEF AcceptableNav
  <2>5. vault' = Posted(SettledBooks(settlement))
    BY <1>4
  <2> HIDE DEF settlement
  <2>6. vault' = [vault EXCEPT
           !.nav_per_share = settlement.nav_per_share,
           !.high_water_mark = RaisedHighWaterMark(settlement.nav_per_share),
           !.unclaimed_manager_fee_shares = @ + settlement.manager_fee_shares,
           !.unclaimed_platform_fee_shares = @ + settlement.platform_fee_shares,
           !.total_assets = total_assets, !.nav_epoch = Epoch(now),
           !.last_nav_ts = now, !.epoch_outflow = 0]
    BY <2>5 DEF SettledBooks
  <2> HIDE DEF owed
  <2>7. SettledUpdate(total_assets, owed, settlement)
    BY <1>4, <2>3, <2>4, <2>6 DEF SettledUpdate, owed, settlement
  <2> QED BY <1>1, <1>2, <2>7
<1> QED BY <1>3, <1>4 DEF UpdateNav

\* The books a settled update leaves, field by field.
LEMMA SettledUpdateFields ==
  ASSUME TypeOK, NEW total_assets \in U64, NEW owed, NEW settlement,
         SettledUpdate(total_assets, owed, settlement)
  PROVE  /\ vault' \in Books
         /\ vault'.total_assets = total_assets
         /\ vault'.nav_per_share = settlement.nav_per_share
         /\ vault'.high_water_mark = RaisedHighWaterMark(settlement.nav_per_share)
         /\ vault'.nav_epoch = Epoch(now) /\ vault'.last_nav_ts = now
         /\ vault'.unclaimed_manager_fee_shares
              = vault.unclaimed_manager_fee_shares + settlement.manager_fee_shares
         /\ vault'.unclaimed_platform_fee_shares
              = vault.unclaimed_platform_fee_shares + settlement.platform_fee_shares
<1>1. vault \in Books /\ now \in Nat /\ 0 \in U64
  BY ConstantsAreNat DEF TypeOK
<1>2. Epoch(now) \in Nat
  BY <1>1, EpochIsMonotone
<1>3. RaisedHighWaterMark(settlement.nav_per_share) \in U64
  BY <1>1 DEF SettledUpdate, RaisedHighWaterMark, Books
<1> QED BY <1>1, <1>2, <1>3 DEF SettledUpdate, Books

\* The books an update of an empty vault leaves, field by field.
LEMMA EmptyUpdateFields ==
  ASSUME TypeOK, NEW total_assets \in U64, EmptyUpdate(total_assets)
  PROVE  /\ vault' \in Books
         /\ vault'.total_assets = total_assets
         /\ vault'.nav_per_share = NAV_PRECISION
         /\ vault'.high_water_mark = vault.high_water_mark
         /\ vault'.nav_epoch = Epoch(now) /\ vault'.last_nav_ts = now
         /\ vault'.unclaimed_manager_fee_shares = vault.unclaimed_manager_fee_shares
         /\ vault'.unclaimed_platform_fee_shares = vault.unclaimed_platform_fee_shares
<1>1. vault \in Books /\ now \in Nat /\ 0 \in U64 /\ NAV_PRECISION \in U64
  BY ConstantsAreNat DEF TypeOK
<1>2. Epoch(now) \in Nat
  BY <1>1, EpochIsMonotone
<1> QED BY <1>1, <1>2 DEF EmptyUpdate, Books

\* A NAV update keeps the types.
LEMMA TypeOfNavUpdate ==
  ASSUME TypeOK, EpochsAreOrdered, NEW total_assets \in ReportedTotals,
         NEW max_deviation_bps, UpdateNav(total_assets, max_deviation_bps)
  PROVE  TypeOK'
<1>1. /\ total_assets \in U64 /\ fees' = ApplyPendingFees
      /\ UNCHANGED <<now, config, params, requests, balances>>
      /\ \/ EmptyUpdate(total_assets)
         \/ \E owed, settlement : SettledUpdate(total_assets, owed, settlement)
  BY NavUpdateOutcomes
<1>2. vault' \in Books
  BY <1>1, SettledUpdateFields, EmptyUpdateFields
<1>3. fees' \in FeeSchedules
  BY <1>1, ConstantsAreNat DEF TypeOK, ApplyPendingFees, FeeSchedules
<1> QED BY <1>1, <1>2, <1>3 DEF TypeOK, requests, balances

-----------------------------------------------------------------------------
(* Claims, settings and direct SPL token instructions. *)

\* A claim of fee shares keeps the types.
LEMMA TypeOfClaim ==
  ASSUME TypeOK, VaultClaimManagerFee \/ ConfigClaimPlatformFee
  PROVE  TypeOK'
<1>1. Manager \in Users /\ Treasury \in Users
  BY UsersAssumption
<1>2. CASE VaultClaimManagerFee
  <2>1. vault' \in Books
    BY <1>2, ConstantsAreNat DEF TypeOK, Books, VaultClaimManagerFee, ManagerFeeClaimed
  <2>2. share_supply' \in U64 /\ share_balances' \in [Users -> Nat]
    BY <1>1, <1>2, FieldsAreTyped, TypeOfMint DEF VaultClaimManagerFee
  <2> QED BY <1>2, <2>1, <2>2 DEF VaultClaimManagerFee, TypeOK, settings, requests
<1>3. CASE ConfigClaimPlatformFee
  <2>1. vault' \in Books
    BY <1>3, ConstantsAreNat DEF TypeOK, Books, ConfigClaimPlatformFee
  <2>2. share_supply' \in U64 /\ share_balances' \in [Users -> Nat]
    BY <1>1, <1>3, FieldsAreTyped, TypeOfMint DEF ConfigClaimPlatformFee
  <2> QED BY <1>3, <2>1, <2>2 DEF ConfigClaimPlatformFee, TypeOK, settings, requests
<1> QED BY <1>2, <1>3

\* Requested fees are checked as a pair, then applied or scheduled.
LEMMA TypeOfUpdateFees ==
  ASSUME TypeOK, NEW performance_arg, NEW management_arg,
         UpdateFees(performance_arg, management_arg)
  PROVE  fees' \in FeeSchedules
<1>1. CASE UNCHANGED fees
  BY <1>1 DEF TypeOK
<1>2. CASE \E performance, management \in Bps : fees' = FeesAfter(performance, management)
  <2>1. PICK performance \in Bps, management \in Bps :
          fees' = FeesAfter(performance, management)
    BY <1>2
  <2>2. now + FEE_INCREASE_DELAY \in Nat
    BY MathAssumption DEF TypeOK
  <2> QED BY <2>1, <2>2, ConstantsAreNat DEF TypeOK, FeesAfter, ScheduledFees, FeeSchedules
<1> QED BY <1>1, <1>2 DEF UpdateFees

\* vault_update keeps the types, whatever arguments it omits.
LEMMA TypeOfVaultUpdate ==
  ASSUME TypeOK, NEW args \in VaultUpdates, VaultUpdate(args)
  PROVE  TypeOK'
<1>1. args \in [performance_fee_bps : U16 \cup {None}, management_fee_bps : U16 \cup {None},
                deposit_cap : U64 \cup {None}, min_deposit : U64 \cup {None},
                min_withdrawal_shares : U64 \cup {None}, status : Statuses \cup {None},
                deposit_paused : BOOLEAN \cup {None}, withdrawal_paused : BOOLEAN \cup {None}]
  BY ArgumentsAssumption
<1>2. fees' \in FeeSchedules
  BY TypeOfUpdateFees DEF VaultUpdate
<1>3. params \in Settings /\ args.min_deposit # 0 /\ args.min_withdrawal_shares # 0
  BY DEF TypeOK, VaultUpdate
<1>4. /\ Given(args.deposit_cap, params.deposit_cap) \in U64
      /\ Given(args.min_deposit, params.min_deposit) \in U64 \ {0}
      /\ Given(args.min_withdrawal_shares, params.min_withdrawal_shares) \in U64 \ {0}
      /\ Given(args.status, params.status) \in Statuses
      /\ Given(args.deposit_paused, params.deposit_paused) \in BOOLEAN
      /\ Given(args.withdrawal_paused, params.withdrawal_paused) \in BOOLEAN
  BY <1>1, <1>3, Zenon DEF Given, Settings
<1>5. params' \in Settings
  BY <1>4 DEF VaultUpdate, Settings
<1> QED BY <1>2, <1>5 DEF VaultUpdate, TypeOK, requests, balances

\* config_update keeps the types: the rates are validated after they are set.
LEMMA TypeOfConfigUpdate ==
  ASSUME TypeOK, NEW args \in ConfigUpdates, ConfigUpdate(args)
  PROVE  TypeOK'
<1>1. Given(args.status, config.status) \in Statuses
  BY ArgumentsAssumption DEF TypeOK, Configs, Given
<1>2. /\ config'.platform_performance_fee_bps \in Bps
      /\ config'.platform_management_fee_bps \in Bps
      /\ config'.max_nav_deviation_bps \in Bps
      /\ config'.max_epoch_outflow_bps \in Bps
  BY DEF ConfigUpdate
<1>3. config' \in Configs
  BY <1>1, <1>2 DEF ConfigUpdate, Configs
<1> QED BY <1>3 DEF ConfigUpdate, TypeOK, requests, balances

\* A pause keeps the types.
LEMMA TypeOfPause ==
  ASSUME TypeOK, VaultPause \/ ConfigPause
  PROVE  TypeOK'
BY DEF TypeOK, VaultPause, ConfigPause, Configs, Settings, Statuses, requests, balances

\* A strategy that takes or returns idle tokens keeps the types.
LEMMA TypeOfIdleMove ==
  ASSUME TypeOK, NEW amount \in IdleMoves, DeployIdle(amount) \/ ReturnIdle(amount)
  PROVE  TypeOK'
<1>1. amount \in Nat
  BY InputsAssumption
<1>2. idle' \in Nat
  BY <1>1 DEF TypeOK, DeployIdle, ReturnIdle
<1> QED BY <1>2 DEF TypeOK, DeployIdle, ReturnIdle, settings, requests

\* A direct instruction of the token program keeps the types.
LEMMA TypeOfSplStep ==
  ASSUME TypeOK, SplStep
  PROVE  TypeOK'
<1>1. PICK u \in Users, amount \in SplAmounts :
        \/ SplTransferToIdle(u, amount)
        \/ SplTransferToDepositEscrow(u, amount)
        \/ SplTransferToShareEscrow(u, amount)
        \/ \E to \in Users : SplTransferShares(u, to, amount)
        \/ SplBurnShares(u, amount)
  BY DEF SplStep
<1>2. amount \in Nat /\ wallets[u] \in Nat /\ share_balances[u] \in Nat
  BY InputsAssumption, FieldsAreTyped
<1>3. CASE SplTransferToIdle(u, amount)
  BY <1>2, <1>3 DEF SplTransferToIdle, TypeOK, settings, requests
<1>4. CASE SplTransferToDepositEscrow(u, amount)
  BY <1>2, <1>4 DEF SplTransferToDepositEscrow, TypeOK, settings, requests
<1>5. CASE SplTransferToShareEscrow(u, amount)
  BY <1>2, <1>5 DEF SplTransferToShareEscrow, TypeOK, settings, requests
<1>6. CASE \E to \in Users : SplTransferShares(u, to, amount)
  BY <1>2, <1>6 DEF SplTransferShares, TypeOK, settings, requests
<1>7. CASE SplBurnShares(u, amount)
  <2>1. share_supply' \in U64
    BY <1>2, <1>7, FieldsAreTyped, CheckedSub DEF SplBurnShares
  <2> QED BY <1>2, <1>7, <2>1 DEF SplBurnShares, TypeOK, settings, requests
<1> QED BY <1>1, <1>3, <1>4, <1>5, <1>6, <1>7

-----------------------------------------------------------------------------
(* Every step is one of a few kinds. *)

\* A step that posts no NAV: the NAV, the mark and their dates stay.
NavKept ==
  /\ vault'.nav_per_share = vault.nav_per_share
  /\ vault'.high_water_mark = vault.high_water_mark
  /\ vault'.nav_epoch = vault.nav_epoch
  /\ vault'.last_nav_ts = vault.last_nav_ts

\* A step that changes nothing the books of the shares or the requests record.
BooksKept ==
  /\ UNCHANGED <<vault, requests>>
  /\ share_supply' \in Nat /\ share_supply' <= share_supply
  /\ now' \in Nat /\ now <= now'

NavPostedAt(total_assets) ==
  NavUpdate(total_assets) \/ NavOverride(total_assets)

\* The kinds of steps: those that leave the books alone are one kind.
LEMMA StepKinds ==
  ASSUME TypeOK, [Next]_vars
  PROVE  \/ \E u \in Users : RequestStep(u)
         \/ \E total_assets \in ReportedTotals : NavPostedAt(total_assets)
         \/ VaultClaimManagerFee \/ ConfigClaimPlatformFee
         \/ BooksKept
<1>1. now \in Nat /\ share_supply \in Nat
  BY ConstantsAreNat DEF TypeOK
<1>2. CASE UNCHANGED vars
  BY <1>1, <1>2 DEF vars, requests, balances, BooksKept
<1>3. CASE Tick
  BY <1>1, <1>3 DEF Tick, requests, balances, BooksKept
<1>4. CASE \E args \in VaultUpdates : VaultUpdate(args)
  BY <1>1, <1>4 DEF VaultUpdate, requests, balances, BooksKept
<1>5. CASE \E amount \in IdleMoves : DeployIdle(amount) \/ ReturnIdle(amount)
  BY <1>1, <1>5 DEF DeployIdle, ReturnIdle, requests, BooksKept
<1>6. CASE \E args \in ConfigUpdates : ConfigUpdate(args)
  BY <1>1, <1>6 DEF ConfigUpdate, requests, balances, BooksKept
<1>7. CASE VaultPause \/ ConfigPause
  BY <1>1, <1>7 DEF VaultPause, ConfigPause, requests, balances, BooksKept
<1>8. CASE SplStep
  <2>1. PICK u \in Users, amount \in SplAmounts :
          \/ SplTransferToIdle(u, amount)
          \/ SplTransferToDepositEscrow(u, amount)
          \/ SplTransferToShareEscrow(u, amount)
          \/ \E to \in Users : SplTransferShares(u, to, amount)
          \/ SplBurnShares(u, amount)
    BY <1>8 DEF SplStep
  <2>2. amount \in Nat
    BY InputsAssumption
  <2>3. UNCHANGED <<now, vault, requests>>
    BY <2>1 DEF SplTransferToIdle, SplTransferToDepositEscrow, SplTransferToShareEscrow,
      SplTransferShares, SplBurnShares
  <2>4. share_supply' \in Nat /\ share_supply' <= share_supply
    BY <1>1, <2>1, <2>2 DEF SplTransferToIdle, SplTransferToDepositEscrow,
      SplTransferToShareEscrow, SplTransferShares, SplBurnShares
  <2> QED BY <1>1, <2>3, <2>4 DEF requests, BooksKept
<1>9. CASE NavStep
  BY <1>9 DEF NavStep, NavPostedAt
<1> QED BY <1>2, <1>3, <1>4, <1>5, <1>6, <1>7, <1>8, <1>9
      DEF Next, ManagerStep, ProtocolStep

\* The steps of the requests and the claims post no NAV.
LEMMA RequestsAndClaimsKeepNav ==
  ASSUME TypeOK,
         \/ \E u \in Users : RequestStep(u)
         \/ VaultClaimManagerFee \/ ConfigClaimPlatformFee
  PROVE  NavKept /\ now' = now
<1>1. vault \in Books
  BY DEF TypeOK
<1>2. CASE VaultClaimManagerFee \/ ConfigClaimPlatformFee
  BY <1>1, <1>2 DEF VaultClaimManagerFee, ManagerFeeClaimed, ConfigClaimPlatformFee, NavKept, Books
<1>3. ASSUME NEW u \in Users, NEW amount, DepositRequestCreate(u, amount)
      PROVE  NavKept /\ now' = now
  BY <1>1, <1>3 DEF DepositRequestCreate, NavKept, Books
<1>4. ASSUME NEW u \in Users, DepositRequestResolve(u)
      PROVE  NavKept /\ now' = now
  BY <1>1, <1>4 DEF DepositRequestResolve, DepositBooked, NavKept, Books
<1>5. ASSUME NEW u \in Users, RefundDeposit(u)
      PROVE  NavKept /\ now' = now
  BY <1>1, <1>5 DEF RefundDeposit, NavKept, Books
<1>6. ASSUME NEW u \in Users, NEW amount, WithdrawalRequestCreate(u, amount)
      PROVE  NavKept /\ now' = now
  BY <1>1, <1>6 DEF WithdrawalRequestCreate, NavKept, Books
<1>7. ASSUME NEW u \in Users, WithdrawalRequestResolve(u)
      PROVE  NavKept /\ now' = now
  BY <1>1, <1>7 DEF WithdrawalRequestResolve, WithdrawalBooked, NavKept, Books
<1>8. ASSUME NEW u \in Users, ReturnShares(u)
      PROVE  NavKept /\ now' = now
  BY <1>1, <1>8 DEF ReturnShares, NavKept, Books
<1> QED BY <1>2, <1>3, <1>4, <1>5, <1>6, <1>7, <1>8 DEF RequestStep, DepositRequestCancel,
      DepositRequestReject, WithdrawalRequestCancel, WithdrawalRequestReject

-----------------------------------------------------------------------------
(* Types and dates, together inductive. *)

\* Every step keeps the types.
LEMMA TypeStep ==
  ASSUME TypeOK, EpochsAreOrdered, [Next]_vars
  PROVE  TypeOK'
<1>1. CASE UNCHANGED vars
  BY <1>1 DEF TypeOK, vars, settings, requests, balances
<1>2. CASE Tick
  BY <1>2 DEF TypeOK, Tick, settings, requests, balances
<1>3. CASE \E u \in Users : RequestStep(u)
  BY <1>3, TypeOfDepositStep, TypeOfWithdrawalStep DEF RequestStep
<1>4. CASE NavStep
  BY <1>4, TypeOfNavUpdate DEF NavStep, NavUpdate, NavOverride
<1>5. CASE ManagerStep
  BY <1>5, TypeOfClaim, TypeOfVaultUpdate, TypeOfIdleMove DEF ManagerStep
<1>6. CASE ProtocolStep
  BY <1>6, TypeOfClaim, TypeOfConfigUpdate, TypeOfPause DEF ProtocolStep
<1>7. CASE SplStep
  BY <1>7, TypeOfSplStep
<1> QED BY <1>1, <1>2, <1>3, <1>4, <1>5, <1>6, <1>7 DEF Next

\* A new vault has no dates in the future.
LEMMA EpochsInit == Init => EpochsAreOrdered
<1> SUFFICES ASSUME Init PROVE EpochsAreOrdered
  OBVIOUS
<1>1. /\ vault.last_nav_ts = now /\ vault.nav_epoch = 0
      /\ now \in Nat /\ now = GenesisTs
      /\ \A u \in Users : deposit_requests[u].epoch = 0 /\ withdrawal_requests[u].epoch = 0
  BY InputsAssumption DEF Init, NoRequest
<1>2. Epoch(now) \in Nat
  BY <1>1, EpochIsMonotone
<1> QED BY <1>1, <1>2 DEF EpochsAreOrdered

\* What a step may do to one request: nothing, close it, or add to it within
\* one epoch.
RequestChange(old, new) ==
  \/ new = old
  \/ new = NoRequest
  \/ \E amount \in U64 : CanAccumulate(old) /\ new = Accumulated(old, amount)

\* An instruction on one user's request changes each request in one of those ways.
LEMMA RequestStepChanges ==
  ASSUME TypeOK, NEW u \in Users, RequestStep(u), NEW v \in Users
  PROVE  /\ RequestChange(deposit_requests[v], deposit_requests'[v])
         /\ RequestChange(withdrawal_requests[v], withdrawal_requests'[v])
<1>1. /\ deposit_requests \in [Users -> Requests]
      /\ withdrawal_requests \in [Users -> Requests]
  BY DEF TypeOK
<1>2. ASSUME NEW amount \in DepositAmounts, DepositRequestCreate(u, amount)
      PROVE  /\ RequestChange(deposit_requests[v], deposit_requests'[v])
             /\ RequestChange(withdrawal_requests[v], withdrawal_requests'[v])
  <2>1. /\ CanAccumulate(deposit_requests[u]) /\ amount \in U64
        /\ deposit_requests' = [deposit_requests EXCEPT ![u] = Accumulated(@, amount)]
        /\ withdrawal_requests' = withdrawal_requests
    BY <1>2, InputsAssumption DEF DepositRequestCreate
  <2>2. CASE v = u
    BY <1>1, <2>1, <2>2 DEF RequestChange
  <2>3. CASE v # u
    BY <1>1, <2>1, <2>3 DEF RequestChange
  <2> QED BY <2>2, <2>3
<1>3. ASSUME NEW amount \in ShareAmounts, WithdrawalRequestCreate(u, amount)
      PROVE  /\ RequestChange(deposit_requests[v], deposit_requests'[v])
             /\ RequestChange(withdrawal_requests[v], withdrawal_requests'[v])
  <2>1. /\ CanAccumulate(withdrawal_requests[u]) /\ amount \in U64
        /\ withdrawal_requests' = [withdrawal_requests EXCEPT ![u] = Accumulated(@, amount)]
        /\ deposit_requests' = deposit_requests
    BY <1>3, InputsAssumption DEF WithdrawalRequestCreate
  <2>2. CASE v = u
    BY <1>1, <2>1, <2>2 DEF RequestChange
  <2>3. CASE v # u
    BY <1>1, <2>1, <2>3 DEF RequestChange
  <2> QED BY <2>2, <2>3
<1>4. CASE DepositRequestResolve(u) \/ RefundDeposit(u)
  BY <1>1, <1>4 DEF DepositRequestResolve, RefundDeposit, RequestChange
<1>5. CASE WithdrawalRequestResolve(u) \/ ReturnShares(u)
  BY <1>1, <1>5 DEF WithdrawalRequestResolve, ReturnShares, RequestChange
<1> QED BY <1>2, <1>3, <1>4, <1>5 DEF RequestStep, DepositRequestCancel,
      DepositRequestReject, WithdrawalRequestCancel, WithdrawalRequestReject

\* Every other instruction leaves the requests alone.
LEMMA OtherStepsKeepRequests ==
  ASSUME TypeOK, EpochsAreOrdered,
         \/ \E total_assets \in ReportedTotals : NavPostedAt(total_assets)
         \/ VaultClaimManagerFee \/ ConfigClaimPlatformFee
         \/ BooksKept
  PROVE  deposit_requests' = deposit_requests /\ withdrawal_requests' = withdrawal_requests
BY NavUpdateOutcomes DEF NavPostedAt, NavUpdate, NavOverride, VaultClaimManagerFee,
  ConfigClaimPlatformFee, BooksKept, requests

\* Every step changes each request in one of those ways.
LEMMA RequestsChange ==
  ASSUME TypeOK, EpochsAreOrdered, [Next]_vars, NEW v \in Users
  PROVE  /\ RequestChange(deposit_requests[v], deposit_requests'[v])
         /\ RequestChange(withdrawal_requests[v], withdrawal_requests'[v])
<1>1. CASE \E u \in Users : RequestStep(u)
  BY <1>1, RequestStepChanges
<1>2. CASE deposit_requests' = deposit_requests /\ withdrawal_requests' = withdrawal_requests
  BY <1>2 DEF RequestChange
<1> QED BY <1>1, <1>2, StepKinds, OtherStepsKeepRequests

\* The dates of the NAV and of the clock after a step.
LEMMA DatesStep ==
  ASSUME TypeOK, EpochsAreOrdered, [Next]_vars
  PROVE  /\ now' \in Nat /\ now <= now'
         /\ vault'.last_nav_ts <= now'
         /\ vault'.nav_epoch <= Epoch(vault'.last_nav_ts)
<1>1. /\ now \in Nat /\ vault.last_nav_ts \in Nat /\ vault.nav_epoch \in Nat
      /\ Epoch(now) \in Nat
  BY FieldsAreTyped, EpochIsMonotone
<1>2. CASE NavKept /\ now' \in Nat /\ now <= now'
  BY <1>1, <1>2 DEF NavKept, EpochsAreOrdered
<1>3. CASE BooksKept
  BY <1>2, <1>3 DEF BooksKept, NavKept
<1>4. CASE \E total_assets \in ReportedTotals : NavPostedAt(total_assets)
  <2>1. PICK total_assets, max_deviation_bps :
          /\ total_assets \in ReportedTotals
          /\ UpdateNav(total_assets, max_deviation_bps)
    BY <1>4 DEF NavPostedAt, NavUpdate, NavOverride
  <2>2. vault'.nav_epoch = Epoch(now) /\ vault'.last_nav_ts = now /\ now' = now
    BY <2>1, NavUpdateOutcomes, SettledUpdateFields, EmptyUpdateFields
  <2> QED BY <1>1, <2>2
<1> QED BY <1>1, <1>2, <1>3, <1>4, StepKinds, RequestsAndClaimsKeepNav

\* Every step keeps the dates in order.
LEMMA EpochsStep ==
  ASSUME TypeOK, EpochsAreOrdered, [Next]_vars
  PROVE  EpochsAreOrdered'
<1>1. /\ now \in Nat /\ now' \in Nat /\ Epoch(now) \in Nat /\ Epoch(now') \in Nat
      /\ Epoch(now) <= Epoch(now')
  BY FieldsAreTyped, DatesStep, EpochIsMonotone
<1>2. ASSUME NEW old, NEW new, old.epoch \in Nat, old.epoch <= Epoch(now),
             RequestChange(old, new)
      PROVE  new.epoch <= Epoch(now')
  BY <1>1, <1>2 DEF RequestChange, Accumulated, NoRequest
<1>3. ASSUME NEW u \in Users
      PROVE  /\ deposit_requests'[u].epoch <= Epoch(now')
             /\ withdrawal_requests'[u].epoch <= Epoch(now')
  <2>1. /\ deposit_requests[u].epoch \in Nat /\ withdrawal_requests[u].epoch \in Nat
    BY FieldsAreTyped
  <2>2. /\ deposit_requests[u].epoch <= Epoch(now)
        /\ withdrawal_requests[u].epoch <= Epoch(now)
    BY DEF EpochsAreOrdered
  <2> QED BY <1>2, <2>1, <2>2, RequestsChange
<1> QED BY <1>3, DatesStep DEF EpochsAreOrdered

\* In every reachable state each field of the accounts is within its width and
\* range: no counter of the program wraps, and no balance goes below zero.
THEOREM TypeCorrectness == Spec => []TypeOK
<1>1. Init => TypeOK /\ EpochsAreOrdered
  BY TypeInit, EpochsInit
<1>2. TypeOK /\ EpochsAreOrdered /\ [Next]_vars => TypeOK' /\ EpochsAreOrdered'
  BY TypeStep, EpochsStep
<1> QED BY <1>1, <1>2, PTL DEF Spec

\* The clock, the last NAV and the requests are always dated in that order, so
\* a NAV that settles a request was posted after the epoch of the request.
THEOREM EpochsStayOrdered == Spec => []EpochsAreOrdered
<1>1. Init => TypeOK /\ EpochsAreOrdered
  BY TypeInit, EpochsInit
<1>2. TypeOK /\ EpochsAreOrdered /\ [Next]_vars => TypeOK' /\ EpochsAreOrdered'
  BY TypeStep, EpochsStep
<1> QED BY <1>1, <1>2, PTL DEF Spec

\* Nobody joins a request whose price is already known.
THEOREM RequestsStayBlind == Spec => RequestsAreBlind
<1>1. ASSUME TypeOK, EpochsAreOrdered, [Next]_vars, NEW old \in Requests, NEW new,
             RequestChange(old, new), new.amount > old.amount
      PROVE  vault.nav_epoch <= new.epoch
  <2>1. /\ old.amount \in Nat /\ old.epoch \in Nat
    BY ConstantsAreNat DEF Requests
  <2>2. PICK amount \in U64 : CanAccumulate(old) /\ new = Accumulated(old, amount)
    BY <1>1, <2>1 DEF RequestChange, NoRequest
  <2>3. new.epoch = Epoch(now)
    BY <2>2 DEF CanAccumulate, Accumulated
  <2>4. /\ vault.last_nav_ts \in Nat /\ now \in Nat /\ vault.last_nav_ts <= now
        /\ vault.nav_epoch \in Nat /\ vault.nav_epoch <= Epoch(vault.last_nav_ts)
    BY <1>1, FieldsAreTyped DEF EpochsAreOrdered
  <2> QED BY <2>3, <2>4, EpochIsMonotone
<1>2. ASSUME TypeOK, EpochsAreOrdered, [Next]_vars, NEW u \in Users
      PROVE  /\ deposit_requests'[u].amount > deposit_requests[u].amount
                  => vault.nav_epoch <= deposit_requests'[u].epoch
             /\ withdrawal_requests'[u].amount > withdrawal_requests[u].amount
                  => vault.nav_epoch <= withdrawal_requests'[u].epoch
  <2>1. deposit_requests[u] \in Requests /\ withdrawal_requests[u] \in Requests
    BY <1>2 DEF TypeOK
  <2> QED BY <1>1, <1>2, <2>1, RequestsChange
<1>3. TypeOK /\ EpochsAreOrdered /\ [Next]_vars => BlindStep
  BY <1>2 DEF BlindStep
<1> QED BY <1>3, TypeCorrectness, EpochsStayOrdered, PTL DEF Spec, RequestsAreBlind

-----------------------------------------------------------------------------
(* The backing of the shares.                                                *)

\* What a step adds to the books is worth at least the shares it adds.
LEMMA SurplusMoves ==
  ASSUME TypeOK, vault' \in Books, share_supply' \in U64,
         vault'.nav_per_share = vault.nav_per_share,
         NEW assets \in Int, NEW shares \in Int,
         vault'.total_assets = vault.total_assets + assets,
         Supply' = Supply + shares,
         shares * vault.nav_per_share <= assets * NAV_PRECISION
  PROVE  Surplus' >= Surplus
<1> DEFINE ta == vault.total_assets
           nav == vault.nav_per_share
           supply == Supply
<1>1. /\ ta \in Int /\ nav \in Int /\ supply \in Int /\ NAV_PRECISION \in Int
  BY NumbersAreNat
<1>2. /\ Surplus = ta * NAV_PRECISION - supply * nav
      /\ Surplus' = (ta + assets) * NAV_PRECISION - (supply + shares) * nav
  BY DEF Surplus
<1>3. shares * nav <= assets * NAV_PRECISION
  OBVIOUS
<1> HIDE DEF ta, nav, supply
<1>4. /\ (ta + assets) * NAV_PRECISION = ta * NAV_PRECISION + assets * NAV_PRECISION
      /\ (supply + shares) * nav = supply * nav + shares * nav
  BY <1>1, SMT
<1>5. /\ ta * NAV_PRECISION \in Int /\ assets * NAV_PRECISION \in Int
      /\ supply * nav \in Int /\ shares * nav \in Int
  BY <1>1
<1> QED BY <1>2, <1>3, <1>4, <1>5

\* A step that leaves the books of the shares alone leaves their backing alone.
LEMMA SurplusKept ==
  ASSUME TypeOK, TypeOK',
         vault'.nav_per_share = vault.nav_per_share,
         vault'.total_assets = vault.total_assets,
         Supply' = Supply
  PROVE  Surplus' >= Surplus
<1>1. Supply \in Int /\ vault.nav_per_share \in Int /\ vault.total_assets \in Int
  BY NumbersAreNat
<1>2. vault' \in Books /\ share_supply' \in U64
  BY DEF TypeOK
<1>3. /\ vault'.total_assets = vault.total_assets + 0 /\ Supply' = Supply + 0
      /\ 0 * vault.nav_per_share <= 0 * NAV_PRECISION
  BY <1>1, MathAssumption
<1> QED BY <1>2, <1>3, SurplusMoves

\* A resolved deposit mints shares worth at most the tokens it books.
LEMMA SurplusOfDepositResolve ==
  ASSUME TypeOK, TypeOK', NEW u \in Users, DepositRequestResolve(u)
  PROVE  Surplus' >= Surplus
<1> DEFINE amount == deposit_requests[u].amount
           minted == SharesFor(amount, vault.nav_per_share)
<1>1. /\ amount \in Nat /\ vault.nav_per_share \in Nat \ {0} /\ NAV_PRECISION \in Nat
      /\ vault.total_assets \in Int
  BY NumbersAreNat DEF DepositRequestResolve, CanResolveDeposit
<1>2. minted \in Nat /\ minted * vault.nav_per_share <= amount * NAV_PRECISION
  BY <1>1, SharesForIsCovered
<1>3. vault' = DepositBooked(amount) /\ share_supply' = share_supply + minted
  BY DEF DepositRequestResolve, Mint
<1> HIDE DEF amount, minted
<1>4. vault \in Books /\ vault' \in Books /\ share_supply \in U64 /\ share_supply' \in U64
  BY DEF TypeOK
<1>5. /\ vault'.total_assets = vault.total_assets + amount
      /\ vault'.nav_per_share = vault.nav_per_share
      /\ vault'.unclaimed_manager_fee_shares = vault.unclaimed_manager_fee_shares
      /\ vault'.unclaimed_platform_fee_shares = vault.unclaimed_platform_fee_shares
  BY <1>3, <1>4 DEF DepositBooked, Books
<1>6. /\ share_supply \in Nat /\ vault.unclaimed_manager_fee_shares \in Nat
      /\ vault.unclaimed_platform_fee_shares \in Nat
  BY NumbersAreNat
<1>7. Supply' = Supply + minted
  BY <1>2, <1>3, <1>5, <1>6 DEF Supply
<1> QED BY <1>1, <1>2, <1>4, <1>5, <1>7, SurplusMoves

\* A resolved withdrawal pays at most what the burned shares are worth.
LEMMA SurplusOfWithdrawalResolve ==
  ASSUME TypeOK, TypeOK', NEW u \in Users, WithdrawalRequestResolve(u)
  PROVE  Surplus' >= Surplus
<1> DEFINE redeemed == withdrawal_requests[u].amount
           paid == AssetsFor(redeemed, vault.nav_per_share)
<1>1. /\ redeemed \in Nat /\ vault.nav_per_share \in Nat /\ NAV_PRECISION \in Nat
      /\ vault.total_assets \in Int
  BY NumbersAreNat
<1>2. paid \in Nat /\ paid * NAV_PRECISION <= redeemed * vault.nav_per_share
  BY <1>1, AssetsForIsCovered
<1>3. vault' = WithdrawalBooked(redeemed, paid) /\ share_supply' = share_supply - redeemed
  BY DEF WithdrawalRequestResolve
<1> HIDE DEF redeemed, paid
<1>4. vault \in Books /\ vault' \in Books /\ share_supply \in U64 /\ share_supply' \in U64
  BY DEF TypeOK
<1>5. /\ vault'.total_assets = vault.total_assets - paid
      /\ vault'.nav_per_share = vault.nav_per_share
      /\ vault'.unclaimed_manager_fee_shares = vault.unclaimed_manager_fee_shares
      /\ vault'.unclaimed_platform_fee_shares = vault.unclaimed_platform_fee_shares
  BY <1>3, <1>4 DEF WithdrawalBooked, Books
<1>6. /\ share_supply \in Nat /\ vault.unclaimed_manager_fee_shares \in Nat
      /\ vault.unclaimed_platform_fee_shares \in Nat
  BY NumbersAreNat
<1>7. /\ Supply' = Supply + (0 - redeemed) /\ 0 - redeemed \in Int
      /\ vault'.total_assets = vault.total_assets + (0 - paid) /\ 0 - paid \in Int
  BY <1>1, <1>2, <1>3, <1>5, <1>6 DEF Supply
<1>8. (0 - redeemed) * vault.nav_per_share <= (0 - paid) * NAV_PRECISION
  BY <1>1, <1>2, SMT
<1> QED BY <1>4, <1>5, <1>7, <1>8, SurplusMoves

\* The difference of ordered natural numbers is one.
LEMMA DifferenceIsNat ==
  ASSUME NEW x \in Nat, NEW y \in Nat, y <= x
  PROVE  \E d \in Nat : x = y + d
<1>1. x - y \in Nat /\ x = y + (x - y)
  OBVIOUS
<1> QED BY <1>1

\* No step between two NAV updates lowers the backing of the shares.
LEMMA SurplusWithoutNav ==
  ASSUME TypeOK, TypeOK',
         \/ \E u \in Users : RequestStep(u)
         \/ VaultClaimManagerFee \/ ConfigClaimPlatformFee
         \/ BooksKept
  PROVE  Surplus' >= Surplus
<1>1. vault \in Books /\ vault' \in Books /\ share_supply \in U64 /\ share_supply' \in U64
  BY DEF TypeOK
<1>2. /\ share_supply \in Nat /\ vault.unclaimed_manager_fee_shares \in Nat
      /\ vault.unclaimed_platform_fee_shares \in Nat
      /\ vault.total_assets \in Nat /\ vault.nav_per_share \in Nat /\ NAV_PRECISION \in Nat
  BY NumbersAreNat
<1>3. ASSUME NEW u \in Users, NEW amount, DepositRequestCreate(u, amount)
      PROVE  Surplus' >= Surplus
  BY <1>1, <1>3, SurplusKept DEF DepositRequestCreate, Books, Supply
<1>4. ASSUME NEW u \in Users, RefundDeposit(u)
      PROVE  Surplus' >= Surplus
  BY <1>1, <1>4, SurplusKept DEF RefundDeposit, Books, Supply
<1>5. ASSUME NEW u \in Users, NEW amount, WithdrawalRequestCreate(u, amount)
      PROVE  Surplus' >= Surplus
  BY <1>1, <1>5, SurplusKept DEF WithdrawalRequestCreate, Books, Supply
<1>6. ASSUME NEW u \in Users, ReturnShares(u)
      PROVE  Surplus' >= Surplus
  BY <1>1, <1>6, SurplusKept DEF ReturnShares, Books, Supply
<1>7. CASE VaultClaimManagerFee
  <2>1. /\ vault' = [vault EXCEPT !.unclaimed_manager_fee_shares = 0]
        /\ share_supply' = share_supply + vault.unclaimed_manager_fee_shares
    BY <1>7 DEF VaultClaimManagerFee, ManagerFeeClaimed, Mint
  <2>2. /\ vault'.total_assets = vault.total_assets
        /\ vault'.nav_per_share = vault.nav_per_share
        /\ vault'.unclaimed_manager_fee_shares = 0
        /\ vault'.unclaimed_platform_fee_shares = vault.unclaimed_platform_fee_shares
    BY <1>1, <2>1 DEF Books
  <2>3. Supply' = Supply
    BY <1>2, <2>1, <2>2 DEF Supply
  <2> QED BY <2>2, <2>3, SurplusKept
<1>8. CASE ConfigClaimPlatformFee
  <2>1. /\ vault' = [vault EXCEPT !.unclaimed_platform_fee_shares = 0]
        /\ share_supply' = share_supply + vault.unclaimed_platform_fee_shares
    BY <1>8 DEF ConfigClaimPlatformFee, Mint
  <2>2. /\ vault'.total_assets = vault.total_assets
        /\ vault'.nav_per_share = vault.nav_per_share
        /\ vault'.unclaimed_manager_fee_shares = vault.unclaimed_manager_fee_shares
        /\ vault'.unclaimed_platform_fee_shares = 0
    BY <1>1, <2>1 DEF Books
  <2>3. Supply' = Supply
    BY <1>2, <2>1, <2>2 DEF Supply
  <2> QED BY <2>2, <2>3, SurplusKept
<1>9. CASE BooksKept
  <2>1. /\ vault' = vault
        /\ share_supply \in Nat /\ share_supply' \in Nat /\ share_supply' <= share_supply
    BY <1>2, <1>9 DEF BooksKept
  <2>2. PICK burnt \in Nat : share_supply = share_supply' + burnt
    BY <2>1, DifferenceIsNat
  <2> DEFINE fee_shares == vault.unclaimed_manager_fee_shares + vault.unclaimed_platform_fee_shares
  <2>3. Supply = share_supply + fee_shares /\ Supply' = share_supply' + fee_shares
    BY <1>2, <2>1 DEF Supply
  <2>4. fee_shares \in Nat
    BY <1>2
  <2> HIDE DEF fee_shares
  <2>5. /\ 0 - burnt \in Int /\ Supply' = Supply + (0 - burnt)
        /\ vault'.total_assets = vault.total_assets + 0
    BY <1>2, <2>1, <2>2, <2>3, <2>4
  <2>6. (0 - burnt) * vault.nav_per_share <= 0 * NAV_PRECISION
    BY <1>2, <2>2, SMT
  <2> QED BY <1>1, <2>1, <2>5, <2>6, SurplusMoves
<1> QED BY <1>3, <1>4, <1>5, <1>6, <1>7, <1>8, <1>9, SurplusOfDepositResolve,
      SurplusOfWithdrawalResolve DEF RequestStep, DepositRequestCancel,
      DepositRequestReject, WithdrawalRequestCancel, WithdrawalRequestReject

\* After a settled update the supply has grown by the accrued shares.
LEMMA SettledSupply ==
  ASSUME TypeOK, NEW total_assets \in U64, NEW owed, NEW settlement,
         SettledUpdate(total_assets, owed, settlement), UNCHANGED balances
  PROVE  /\ total_assets \in Nat /\ Supply \in Nat \ {0}
         /\ settlement.manager_fee_shares \in Nat /\ settlement.platform_fee_shares \in Nat
         /\ AccruedShares(settlement) \in Nat
         /\ Supply' = Supply + AccruedShares(settlement)
<1>1. total_assets \in Nat /\ Supply \in Nat \ {0}
  BY ConstantsAreNat, NumbersAreNat DEF SettledUpdate
<1>2. settlement.manager_fee_shares \in Nat /\ settlement.platform_fee_shares \in Nat
  BY <1>1, NavSettlementIsBacked DEF SettledUpdate
<1>3. /\ vault'.unclaimed_manager_fee_shares
           = vault.unclaimed_manager_fee_shares + settlement.manager_fee_shares
      /\ vault'.unclaimed_platform_fee_shares
           = vault.unclaimed_platform_fee_shares + settlement.platform_fee_shares
      /\ share_supply' = share_supply
  BY SettledUpdateFields DEF balances
<1> QED BY <1>1, <1>2, <1>3, NumbersAreNat DEF Supply, AccruedShares

\* A NAV update leaves every share backed.
LEMMA SurplusAfterNav ==
  ASSUME TypeOK, EpochsAreOrdered, NEW total_assets \in ReportedTotals,
         NavPostedAt(total_assets)
  PROVE  SharesAreBacked'
<1>1. PICK max_deviation_bps : UpdateNav(total_assets, max_deviation_bps)
  BY DEF NavPostedAt, NavUpdate, NavOverride
<1>2. /\ total_assets \in U64 /\ total_assets \in Nat /\ UNCHANGED balances
      /\ \/ EmptyUpdate(total_assets)
         \/ \E owed, settlement : SettledUpdate(total_assets, owed, settlement)
  BY <1>1, NavUpdateOutcomes
<1>3. CASE EmptyUpdate(total_assets)
  <2>1. /\ vault'.total_assets = total_assets /\ vault'.nav_per_share = NAV_PRECISION
        /\ vault'.unclaimed_manager_fee_shares = vault.unclaimed_manager_fee_shares
        /\ vault'.unclaimed_platform_fee_shares = vault.unclaimed_platform_fee_shares
        /\ share_supply' = share_supply
    BY <1>2, <1>3, EmptyUpdateFields DEF balances
  <2>2. Supply' = 0
    BY <1>3, <2>1 DEF EmptyUpdate, Supply
  <2>3. total_assets * NAV_PRECISION \in Nat /\ 0 * NAV_PRECISION = 0
    BY <1>2, NumbersAreNat
  <2> QED BY <2>1, <2>2, <2>3 DEF SharesAreBacked, Surplus
<1>4. ASSUME NEW owed, NEW settlement, SettledUpdate(total_assets, owed, settlement)
      PROVE  SharesAreBacked'
  <2>1. vault'.total_assets = total_assets /\ vault'.nav_per_share = settlement.nav_per_share
    BY <1>2, <1>4, SettledUpdateFields
  <2>2. /\ Supply \in Nat \ {0} /\ AccruedShares(settlement) \in Nat
        /\ Supply' = Supply + AccruedShares(settlement)
    BY <1>2, <1>4, SettledSupply
  <2>3. /\ settlement.nav_per_share \in Nat
        /\ (Supply + AccruedShares(settlement)) * settlement.nav_per_share
             <= total_assets * NAV_PRECISION
    BY <1>2, <1>4, <2>2, NavSettlementIsBacked DEF SettledUpdate
  <2>4. /\ total_assets * NAV_PRECISION \in Int
        /\ (Supply + AccruedShares(settlement)) * settlement.nav_per_share \in Int
    BY <1>2, <2>2, <2>3, NumbersAreNat
  <2> QED BY <2>1, <2>2, <2>3, <2>4 DEF SharesAreBacked, Surplus
<1> QED BY <1>2, <1>3, <1>4

\* A new vault has no shares to back.
LEMMA BackedInit == Init => SharesAreBacked
<1> SUFFICES ASSUME Init PROVE SharesAreBacked
  OBVIOUS
<1>1. /\ vault.total_assets = 0 /\ Supply = 0 /\ vault.nav_per_share = NAV_PRECISION
  BY DEF Init, Supply
<1> QED BY <1>1, MathAssumption DEF SharesAreBacked, Surplus

\* Every step leaves every share backed.
LEMMA BackedStep ==
  ASSUME TypeOK, TypeOK', EpochsAreOrdered, SharesAreBacked, [Next]_vars
  PROVE  SharesAreBacked'
<1>1. CASE \E total_assets \in ReportedTotals : NavPostedAt(total_assets)
  BY <1>1, SurplusAfterNav
<1>2. ASSUME Surplus' >= Surplus PROVE SharesAreBacked'
  <2>1. Surplus \in Int
    BY NumbersAreNat DEF Surplus
  <2>2. Surplus' \in Int
    <3>1. /\ vault'.total_assets \in U64 /\ vault'.nav_per_share \in U64
          /\ vault'.unclaimed_manager_fee_shares \in U64
          /\ vault'.unclaimed_platform_fee_shares \in U64 /\ share_supply' \in U64
      BY DEF TypeOK, Books
    <3>4. U64 \subseteq Int /\ NAV_PRECISION \in Int
      BY ConstantsAreNat, MathAssumption
    <3>2. /\ vault'.total_assets \in Int /\ vault'.nav_per_share \in Int
          /\ vault'.unclaimed_manager_fee_shares \in Int
          /\ vault'.unclaimed_platform_fee_shares \in Int /\ share_supply' \in Int
          /\ NAV_PRECISION \in Int
      BY <3>1, <3>4
    <3>3. Supply' \in Int
      BY <3>2 DEF Supply
    <3> QED BY <3>2, <3>3 DEF Surplus
  <2> QED BY <1>2, <2>1, <2>2 DEF SharesAreBacked
<1> QED BY <1>1, <1>2, StepKinds, SurplusWithoutNav

\* Redeeming every share at the stored NAV never takes more than the recorded
\* assets, so a settlement never fails for want of total_assets.
THEOREM SharesStayBacked == Spec => []SharesAreBacked
<1>1. Init => SharesAreBacked
  BY BackedInit
<1>2. TypeOK /\ TypeOK' /\ EpochsAreOrdered /\ SharesAreBacked /\ [Next]_vars
        => SharesAreBacked'
  BY BackedStep
<1> QED BY <1>1, <1>2, TypeCorrectness, EpochsStayOrdered, PTL DEF Spec

\* Between two NAV updates no instruction lowers the backing of the shares.
THEOREM BackingNeverErodesProved == Spec => BackingNeverErodes
<1>1. ASSUME TypeOK, TypeOK', EpochsAreOrdered, [Next]_vars
      PROVE  BackingStep
  <2>1. CASE \E total_assets \in ReportedTotals : NavPostedAt(total_assets)
    <3>1. PICK total_assets, max_deviation_bps :
            /\ total_assets \in ReportedTotals
            /\ UpdateNav(total_assets, max_deviation_bps)
      BY <2>1 DEF NavPostedAt, NavUpdate, NavOverride
    <3>2. vault'.nav_epoch = Epoch(now) /\ NavIsDue
      BY <1>1, <3>1, NavUpdateOutcomes, SettledUpdateFields, EmptyUpdateFields
    <3>3. Epoch(now) \in Nat /\ vault.nav_epoch \in Nat
      BY <1>1, FieldsAreTyped, EpochIsMonotone
    <3> QED BY <3>2, <3>3 DEF NavIsDue, BackingStep
  <2> QED BY <1>1, <2>1, StepKinds, SurplusWithoutNav DEF BackingStep
<1>2. TypeOK /\ TypeOK' /\ EpochsAreOrdered /\ [Next]_vars => BackingStep
  BY <1>1
<1> QED BY <1>2, TypeCorrectness, EpochsStayOrdered, PTL DEF Spec, BackingNeverErodes

-----------------------------------------------------------------------------
(* What the users own.                                                       *)

NoMore(u) == TokensOf(u)' <= TokensOf(u) /\ SharesOf(u)' <= SharesOf(u)

\* Holdings are natural numbers.
LEMMA HoldingsAreNat ==
  ASSUME TypeOK, NEW u \in Users
  PROVE  TokensOf(u) \in Nat /\ SharesOf(u) \in Nat
<1>1. /\ wallets[u] \in Nat /\ share_balances[u] \in Nat
      /\ deposit_requests[u].amount \in Nat /\ withdrawal_requests[u].amount \in Nat
      /\ vault.unclaimed_manager_fee_shares \in Nat
      /\ vault.unclaimed_platform_fee_shares \in Nat
  BY FieldsAreTyped, NumbersAreNat
<1> QED BY <1>1 DEF TokensOf, SharesOf

\* They still are after a step.
LEMMA HoldingsStayNat ==
  ASSUME TypeOK', NEW u \in Users
  PROVE  TokensOf(u)' \in Nat /\ SharesOf(u)' \in Nat
<1>1. U64 \subseteq Nat
  BY ConstantsAreNat
<1>2. /\ wallets'[u] \in Nat /\ share_balances'[u] \in Nat
      /\ deposit_requests'[u] \in Requests /\ withdrawal_requests'[u] \in Requests
      /\ vault' \in Books
  BY DEF TypeOK
<1>3. /\ deposit_requests'[u].amount \in Nat /\ withdrawal_requests'[u].amount \in Nat
      /\ vault'.unclaimed_manager_fee_shares \in Nat
      /\ vault'.unclaimed_platform_fee_shares \in Nat
  BY <1>1, <1>2 DEF Requests, Books
<1> QED BY <1>2, <1>3 DEF TokensOf, SharesOf

\* Whoever gains neither tokens nor shares is worth no more at the same NAV.
LEMMA NoMoreIsWorthNoMore ==
  ASSUME TypeOK, TypeOK', vault'.nav_per_share = vault.nav_per_share,
         NEW u \in Users, NoMore(u)
  PROVE  Worth(u)' <= Worth(u)
<1> DEFINE nav == vault.nav_per_share
           tokens == TokensOf(u)
           shares == SharesOf(u)
           kept_tokens == TokensOf(u)'
           kept_shares == SharesOf(u)'
<1>1. /\ nav \in Nat /\ NAV_PRECISION \in Nat
      /\ tokens \in Nat /\ shares \in Nat
      /\ kept_tokens \in Nat /\ kept_shares \in Nat
      /\ kept_tokens <= tokens /\ kept_shares <= shares
  <2>1. nav \in Nat /\ NAV_PRECISION \in Nat /\ tokens \in Nat /\ shares \in Nat
    BY NumbersAreNat, HoldingsAreNat
  <2>2. kept_tokens \in Nat /\ kept_shares \in Nat
    BY HoldingsStayNat
  <2> QED BY <2>1, <2>2 DEF NoMore
<1>2. /\ Worth(u) = tokens * NAV_PRECISION + shares * nav
      /\ Worth(u)' = kept_tokens * NAV_PRECISION + kept_shares * nav
  BY DEF Worth
<1> HIDE DEF nav, tokens, shares, kept_tokens, kept_shares
<1>3. kept_tokens * NAV_PRECISION <= tokens * NAV_PRECISION /\ kept_shares * nav <= shares * nav
  BY <1>1, SMT
<1>4. /\ tokens * NAV_PRECISION \in Nat /\ kept_tokens * NAV_PRECISION \in Nat
      /\ shares * nav \in Nat /\ kept_shares * nav \in Nat
  BY <1>1
<1> QED BY <1>2, <1>3, <1>4

\* An exchange of tokens for shares, or back, is worth no more if what is added
\* is worth at most what is given.
LEMMA ExchangeIsWorthNoMore ==
  ASSUME TypeOK, TypeOK', vault'.nav_per_share = vault.nav_per_share,
         NEW u \in Users, NEW tokens \in Int, NEW shares \in Int,
         TokensOf(u)' = TokensOf(u) + tokens, SharesOf(u)' = SharesOf(u) + shares,
         tokens * NAV_PRECISION + shares * vault.nav_per_share <= 0
  PROVE  Worth(u)' <= Worth(u)
<1> DEFINE nav == vault.nav_per_share
           t == TokensOf(u)
           s == SharesOf(u)
<1>1. nav \in Nat /\ NAV_PRECISION \in Nat /\ t \in Nat /\ s \in Nat
  BY NumbersAreNat, HoldingsAreNat
<1>2. /\ Worth(u) = t * NAV_PRECISION + s * nav
      /\ Worth(u)' = (t + tokens) * NAV_PRECISION + (s + shares) * nav
      /\ tokens * NAV_PRECISION + shares * nav <= 0
  BY DEF Worth
<1> HIDE DEF nav, t, s
<1>3. /\ (t + tokens) * NAV_PRECISION = t * NAV_PRECISION + tokens * NAV_PRECISION
      /\ (s + shares) * nav = s * nav + shares * nav
  BY <1>1, SMT
<1>4. /\ t * NAV_PRECISION \in Int /\ tokens * NAV_PRECISION \in Int
      /\ s * nav \in Int /\ shares * nav \in Int
  BY <1>1
<1> QED BY <1>2, <1>3, <1>4

\* Settling in either direction is such an exchange; every other instruction on
\* requests, and a claim, moves what a user owns from one place to another.
LEMMA RequestsAndClaimsGainNothing ==
  ASSUME TypeOK, TypeOK', NEW v \in Users,
         \/ \E u \in Users : RequestStep(u)
         \/ VaultClaimManagerFee \/ ConfigClaimPlatformFee
  PROVE  Worth(v)' <= Worth(v)
<1>1. /\ vault \in Books
      /\ deposit_requests \in [Users -> Requests] /\ withdrawal_requests \in [Users -> Requests]
      /\ wallets \in [Users -> Nat] /\ share_balances \in [Users -> Nat]
  BY DEF TypeOK
<1>2. /\ wallets[v] \in Nat /\ share_balances[v] \in Nat
      /\ deposit_requests[v].amount \in Nat /\ withdrawal_requests[v].amount \in Nat
      /\ vault.unclaimed_manager_fee_shares \in Nat
      /\ vault.unclaimed_platform_fee_shares \in Nat
  BY FieldsAreTyped, NumbersAreNat
<1>3. vault'.nav_per_share = vault.nav_per_share
  BY RequestsAndClaimsKeepNav DEF NavKept
<1>4. NoRequest.amount = 0
  BY DEF NoRequest
<1> DEFINE FeesKept ==
      /\ vault'.unclaimed_manager_fee_shares = vault.unclaimed_manager_fee_shares
      /\ vault'.unclaimed_platform_fee_shares = vault.unclaimed_platform_fee_shares
<1>5. ASSUME NEW u \in Users, NEW amount \in DepositAmounts, DepositRequestCreate(u, amount)
      PROVE  NoMore(v)
  <2>1. amount \in Nat
    BY InputsAssumption, ConstantsAreNat
  <2>2. FeesKept
    BY <1>1, <1>5 DEF DepositRequestCreate, Books
  <2>3. /\ deposit_requests' = [deposit_requests EXCEPT ![u] = Accumulated(@, amount)]
        /\ wallets' = [wallets EXCEPT ![u] = @ - amount]
        /\ UNCHANGED <<withdrawal_requests, share_balances>>
    BY <1>5 DEF DepositRequestCreate
  <2>4. Accumulated(deposit_requests[u], amount).amount = deposit_requests[u].amount + amount
    BY DEF Accumulated
  <2>5. wallets'[v] + deposit_requests'[v].amount = wallets[v] + deposit_requests[v].amount
    BY <1>1, <1>2, <2>1, <2>3, <2>4
  <2> QED BY <1>2, <2>2, <2>3, <2>5 DEF NoMore, TokensOf, SharesOf
<1>6. ASSUME NEW u \in Users, RefundDeposit(u)
      PROVE  NoMore(v)
  <2>1. FeesKept
    BY <1>1, <1>6 DEF RefundDeposit, Books
  <2>2. /\ deposit_requests' = [deposit_requests EXCEPT ![u] = NoRequest]
        /\ wallets' = [wallets EXCEPT ![u] = @ + deposit_requests[u].amount]
        /\ UNCHANGED <<withdrawal_requests, share_balances>>
    BY <1>6 DEF RefundDeposit
  <2>3. wallets'[v] + deposit_requests'[v].amount = wallets[v] + deposit_requests[v].amount
    BY <1>1, <1>2, <1>4, <2>2
  <2> QED BY <1>2, <2>1, <2>2, <2>3 DEF NoMore, TokensOf, SharesOf
<1>7. ASSUME NEW u \in Users, NEW amount \in ShareAmounts, WithdrawalRequestCreate(u, amount)
      PROVE  NoMore(v)
  <2>1. amount \in Nat
    BY InputsAssumption, ConstantsAreNat
  <2>2. FeesKept
    BY <1>1, <1>7 DEF WithdrawalRequestCreate, Books
  <2>3. /\ withdrawal_requests' = [withdrawal_requests EXCEPT ![u] = Accumulated(@, amount)]
        /\ share_balances' = [share_balances EXCEPT ![u] = @ - amount]
        /\ UNCHANGED <<deposit_requests, wallets>>
    BY <1>7 DEF WithdrawalRequestCreate
  <2>4. Accumulated(withdrawal_requests[u], amount).amount
          = withdrawal_requests[u].amount + amount
    BY DEF Accumulated
  <2>5. share_balances'[v] + withdrawal_requests'[v].amount
          = share_balances[v] + withdrawal_requests[v].amount
    BY <1>1, <1>2, <2>1, <2>3, <2>4
  <2> QED BY <1>2, <2>2, <2>3, <2>5 DEF NoMore, TokensOf, SharesOf
<1>8. ASSUME NEW u \in Users, ReturnShares(u)
      PROVE  NoMore(v)
  <2>1. FeesKept
    BY <1>1, <1>8 DEF ReturnShares, Books
  <2>2. /\ withdrawal_requests' = [withdrawal_requests EXCEPT ![u] = NoRequest]
        /\ share_balances' = [share_balances EXCEPT ![u] = @ + withdrawal_requests[u].amount]
        /\ UNCHANGED <<deposit_requests, wallets>>
    BY <1>8 DEF ReturnShares
  <2>3. share_balances'[v] + withdrawal_requests'[v].amount
          = share_balances[v] + withdrawal_requests[v].amount
    BY <1>1, <1>2, <1>4, <2>2
  <2> QED BY <1>2, <2>1, <2>2, <2>3 DEF NoMore, TokensOf, SharesOf
<1>9. ASSUME NEW u \in Users, DepositRequestResolve(u)
      PROVE  Worth(v)' <= Worth(v)
  <2> DEFINE amount == deposit_requests[u].amount
             minted == SharesFor(amount, vault.nav_per_share)
  <2>1. FeesKept
    BY <1>1, <1>9 DEF DepositRequestResolve, DepositBooked, Books
  <2>2. /\ deposit_requests' = [deposit_requests EXCEPT ![u] = NoRequest]
        /\ share_balances' = [share_balances EXCEPT ![u] = @ + minted]
        /\ UNCHANGED <<withdrawal_requests, wallets>>
    BY <1>9 DEF DepositRequestResolve, Mint
  <2>3. amount \in Nat /\ vault.nav_per_share \in Nat \ {0} /\ NAV_PRECISION \in Nat
    BY <1>9, NumbersAreNat DEF DepositRequestResolve, CanResolveDeposit
  <2>4. minted \in Nat /\ minted * vault.nav_per_share <= amount * NAV_PRECISION
    BY <2>3, SharesForIsCovered
  <2> HIDE DEF amount, minted
  <2>5. CASE v = u
    <3>1. deposit_requests'[v].amount = 0 /\ share_balances'[v] = share_balances[v] + minted
      BY <1>1, <1>4, <2>2, <2>5
    <3>2. TokensOf(v)' = TokensOf(v) + (0 - amount) /\ SharesOf(v)' = SharesOf(v) + minted
      BY <1>2, <2>1, <2>2, <2>3, <2>4, <2>5, <3>1 DEF TokensOf, SharesOf, amount
    <3>3. (0 - amount) * NAV_PRECISION + minted * vault.nav_per_share <= 0
      BY <2>3, <2>4, SMT
    <3> QED BY <1>3, <2>3, <2>4, <3>2, <3>3, ExchangeIsWorthNoMore
  <2>6. CASE v # u
    <3>1. deposit_requests'[v] = deposit_requests[v] /\ share_balances'[v] = share_balances[v]
      BY <1>1, <2>2, <2>6
    <3>2. NoMore(v)
      BY <1>2, <2>1, <2>2, <3>1 DEF NoMore, TokensOf, SharesOf
    <3> QED BY <1>3, <3>2, NoMoreIsWorthNoMore
  <2> QED BY <2>5, <2>6
<1>10. ASSUME NEW u \in Users, WithdrawalRequestResolve(u)
       PROVE  Worth(v)' <= Worth(v)
  <2> DEFINE redeemed == withdrawal_requests[u].amount
             paid == AssetsFor(redeemed, vault.nav_per_share)
  <2>1. FeesKept
    BY <1>1, <1>10 DEF WithdrawalRequestResolve, WithdrawalBooked, Books
  <2>2. /\ withdrawal_requests' = [withdrawal_requests EXCEPT ![u] = NoRequest]
        /\ wallets' = [wallets EXCEPT ![u] = @ + paid]
        /\ UNCHANGED <<deposit_requests, share_balances>>
    BY <1>10 DEF WithdrawalRequestResolve
  <2>3. redeemed \in Nat /\ vault.nav_per_share \in Nat /\ NAV_PRECISION \in Nat
    BY NumbersAreNat
  <2>4. paid \in Nat /\ paid * NAV_PRECISION <= redeemed * vault.nav_per_share
    BY <2>3, AssetsForIsCovered
  <2> HIDE DEF redeemed, paid
  <2>5. CASE v = u
    <3>1. withdrawal_requests'[v].amount = 0 /\ wallets'[v] = wallets[v] + paid
      BY <1>1, <1>4, <2>2, <2>5
    <3>2. TokensOf(v)' = TokensOf(v) + paid /\ SharesOf(v)' = SharesOf(v) + (0 - redeemed)
      BY <1>2, <2>1, <2>2, <2>3, <2>4, <2>5, <3>1 DEF TokensOf, SharesOf, redeemed
    <3>3. paid * NAV_PRECISION + (0 - redeemed) * vault.nav_per_share <= 0
      BY <2>3, <2>4, SMT
    <3> QED BY <1>3, <2>3, <2>4, <3>2, <3>3, ExchangeIsWorthNoMore
  <2>6. CASE v # u
    <3>1. withdrawal_requests'[v] = withdrawal_requests[v] /\ wallets'[v] = wallets[v]
      BY <1>1, <2>2, <2>6
    <3>2. NoMore(v)
      BY <1>2, <2>1, <2>2, <3>1 DEF NoMore, TokensOf, SharesOf
    <3> QED BY <1>3, <3>2, NoMoreIsWorthNoMore
  <2> QED BY <2>5, <2>6
<1>11. ASSUME VaultClaimManagerFee PROVE NoMore(v)
  <2>1. /\ vault'.unclaimed_manager_fee_shares = 0
        /\ vault'.unclaimed_platform_fee_shares = vault.unclaimed_platform_fee_shares
    BY <1>1, <1>11 DEF VaultClaimManagerFee, ManagerFeeClaimed, Books
  <2>2. /\ UNCHANGED <<requests, wallets>>
        /\ share_balances' = [share_balances EXCEPT ![Manager] = @ + vault.unclaimed_manager_fee_shares]
    BY <1>11 DEF VaultClaimManagerFee, Mint
  <2>3. share_balances'[v] = share_balances[v]
                               + (IF v = Manager THEN vault.unclaimed_manager_fee_shares ELSE 0)
    BY <1>1, <1>2, <2>2
  <2> QED BY <1>2, <2>1, <2>2, <2>3 DEF NoMore, TokensOf, SharesOf, requests
<1>12. ASSUME ConfigClaimPlatformFee PROVE NoMore(v)
  <2>1. /\ vault'.unclaimed_manager_fee_shares = vault.unclaimed_manager_fee_shares
        /\ vault'.unclaimed_platform_fee_shares = 0
    BY <1>1, <1>12 DEF ConfigClaimPlatformFee, Books
  <2>2. /\ UNCHANGED <<requests, wallets>>
        /\ share_balances' = [share_balances EXCEPT ![Treasury] = @ + vault.unclaimed_platform_fee_shares]
    BY <1>12 DEF ConfigClaimPlatformFee, Mint
  <2>3. share_balances'[v] = share_balances[v]
                               + (IF v = Treasury THEN vault.unclaimed_platform_fee_shares ELSE 0)
    BY <1>1, <1>2, <2>2
  <2> QED BY <1>2, <2>1, <2>2, <2>3 DEF NoMore, TokensOf, SharesOf, requests
<1> QED BY <1>3, <1>5, <1>6, <1>7, <1>8, <1>9, <1>10, <1>11, <1>12, NoMoreIsWorthNoMore
      DEF RequestStep, DepositRequestCancel, DepositRequestReject,
          WithdrawalRequestCancel, WithdrawalRequestReject

\* Direct use of the token program gains nothing either, except that one user's
\* shares may become another's.
LEMMA SplStepsGainNothing ==
  ASSUME TypeOK, TypeOK', SplStep, NEW v \in Users
  PROVE  \/ Worth(v)' <= Worth(v)
         \/ \E giver \in Users : Worth(v)' - Worth(v) <= Worth(giver) - Worth(giver)'
<1>1. PICK u \in Users, amount \in SplAmounts :
        \/ SplTransferToIdle(u, amount)
        \/ SplTransferToDepositEscrow(u, amount)
        \/ SplTransferToShareEscrow(u, amount)
        \/ \E to \in Users : SplTransferShares(u, to, amount)
        \/ SplBurnShares(u, amount)
  BY DEF SplStep
<1>2. /\ amount \in Nat
      /\ wallets \in [Users -> Nat] /\ share_balances \in [Users -> Nat]
  BY InputsAssumption DEF TypeOK
<1>3. /\ wallets[v] \in Nat /\ share_balances[v] \in Nat
      /\ deposit_requests[v].amount \in Nat /\ withdrawal_requests[v].amount \in Nat
      /\ vault.unclaimed_manager_fee_shares \in Nat
      /\ vault.unclaimed_platform_fee_shares \in Nat
      /\ vault.nav_per_share \in Nat /\ NAV_PRECISION \in Nat
  BY FieldsAreTyped, NumbersAreNat
<1>4. UNCHANGED <<vault, requests>>
  BY <1>1 DEF SplTransferToIdle, SplTransferToDepositEscrow, SplTransferToShareEscrow,
    SplTransferShares, SplBurnShares
<1>5. ASSUME wallets'[v] <= wallets[v], share_balances'[v] <= share_balances[v]
      PROVE  Worth(v)' <= Worth(v)
  <2>1. wallets'[v] \in Nat /\ share_balances'[v] \in Nat
    BY DEF TypeOK
  <2>2. NoMore(v)
    BY <1>3, <1>4, <1>5, <2>1 DEF NoMore, TokensOf, SharesOf, requests
  <2> QED BY <1>4, <2>2, NoMoreIsWorthNoMore
<1>6. CASE SplTransferToIdle(u, amount) \/ SplTransferToDepositEscrow(u, amount)
  <2>1. wallets' = [wallets EXCEPT ![u] = @ - amount] /\ share_balances' = share_balances
    BY <1>6 DEF SplTransferToIdle, SplTransferToDepositEscrow
  <2>2. wallets'[v] <= wallets[v] /\ share_balances'[v] <= share_balances[v]
    BY <1>2, <1>3, <2>1
  <2> QED BY <1>5, <2>2
<1>7. CASE SplTransferToShareEscrow(u, amount) \/ SplBurnShares(u, amount)
  <2>1. wallets' = wallets /\ share_balances' = [share_balances EXCEPT ![u] = @ - amount]
    BY <1>7 DEF SplTransferToShareEscrow, SplBurnShares
  <2>2. wallets'[v] <= wallets[v] /\ share_balances'[v] <= share_balances[v]
    BY <1>2, <1>3, <2>1
  <2> QED BY <1>5, <2>2
<1>8. CASE \E to \in Users : SplTransferShares(u, to, amount)
  <2>1. PICK to \in Users : SplTransferShares(u, to, amount)
    BY <1>8
  <2>2. /\ u # to /\ wallets' = wallets
        /\ share_balances' = [share_balances EXCEPT ![u] = @ - amount, ![to] = @ + amount]
    BY <2>1 DEF SplTransferShares
  <2>3. CASE v # to
    <3>1. wallets'[v] <= wallets[v] /\ share_balances'[v] <= share_balances[v]
      BY <1>2, <1>3, <2>2, <2>3
    <3> QED BY <1>5, <3>1
  <2>4. CASE v = to
    <3> DEFINE nav == vault.nav_per_share
               t(w) == TokensOf(w)
               s(w) == SharesOf(w)
    <3>1. share_balances'[v] = share_balances[v] + amount /\ share_balances'[u] = share_balances[u] - amount
      BY <1>2, <1>3, <2>2, <2>4
    <3>2. /\ share_balances[u] \in Nat /\ withdrawal_requests[u].amount \in Nat
      BY FieldsAreTyped, NumbersAreNat
    <3>3. /\ TokensOf(v)' = t(v) /\ SharesOf(v)' = s(v) + amount
          /\ TokensOf(u)' = t(u) /\ SharesOf(u)' = s(u) - amount
      BY <1>2, <1>3, <1>4, <2>2, <3>1, <3>2 DEF TokensOf, SharesOf, requests
    <3>4. /\ Worth(v) = t(v) * NAV_PRECISION + s(v) * nav
          /\ Worth(v)' = t(v) * NAV_PRECISION + (s(v) + amount) * nav
          /\ Worth(u) = t(u) * NAV_PRECISION + s(u) * nav
          /\ Worth(u)' = t(u) * NAV_PRECISION + (s(u) - amount) * nav
      BY <1>4, <3>3 DEF Worth
    <3>5. /\ t(v) \in Nat /\ s(v) \in Nat /\ t(u) \in Nat /\ s(u) \in Nat
          /\ nav \in Nat
      BY <1>3, HoldingsAreNat
    <3> HIDE DEF nav, t, s
    <3>6. /\ (s(v) + amount) * nav = s(v) * nav + amount * nav
          /\ (s(u) - amount) * nav = s(u) * nav - amount * nav
      BY <1>2, <3>5, SMT
    <3>7. /\ t(v) * NAV_PRECISION \in Nat /\ s(v) * nav \in Nat /\ amount * nav \in Nat
          /\ t(u) * NAV_PRECISION \in Nat /\ s(u) * nav \in Nat
      BY <1>2, <1>3, <3>5
    <3>8. Worth(v)' - Worth(v) <= Worth(u) - Worth(u)'
      BY <3>4, <3>6, <3>7
    <3> QED BY <3>8
  <2> QED BY <2>3, <2>4
<1> QED BY <1>1, <1>6, <1>7, <1>8

\* A NAV update moves the epoch of the books.
LEMMA UpdatesMoveTheEpoch ==
  ASSUME TypeOK, EpochsAreOrdered, NavStep
  PROVE  vault'.nav_epoch # vault.nav_epoch
<1>1. PICK total_assets, max_deviation_bps :
        /\ total_assets \in ReportedTotals
        /\ UpdateNav(total_assets, max_deviation_bps)
  BY DEF NavStep, NavUpdate, NavOverride
<1>2. vault'.nav_epoch = Epoch(now) /\ NavIsDue
  BY <1>1, NavUpdateOutcomes, SettledUpdateFields, EmptyUpdateFields
<1>3. Epoch(now) \in Nat /\ vault.nav_epoch \in Nat
  BY FieldsAreTyped, EpochIsMonotone
<1> QED BY <1>2, <1>3 DEF NavIsDue

\* Between two NAV updates no order of requesting, settling, cancelling and
\* claiming makes anybody richer at the stored NAV, roundings included: what one
\* user gains another has given away.
THEOREM NobodyGainsProved == Spec => NobodyGainsBetweenNavs
<1>1. ASSUME TypeOK, TypeOK', EpochsAreOrdered, [Next]_vars, NEW v \in Users,
             vault'.nav_epoch = vault.nav_epoch
      PROVE  \/ Worth(v)' <= Worth(v)
             \/ \E giver \in Users : Worth(v)' - Worth(v) <= Worth(giver) - Worth(giver)'
  <2>1. ~NavStep
    BY <1>1, UpdatesMoveTheEpoch
  <2>2. CASE SplStep
    BY <1>1, <2>2, SplStepsGainNothing
  <2>3. CASE \/ \E u \in Users : RequestStep(u)
             \/ VaultClaimManagerFee \/ ConfigClaimPlatformFee
    BY <1>1, <2>3, RequestsAndClaimsGainNothing
  <2>4. CASE \/ UNCHANGED vars \/ Tick \/ \E guardian \in Guardians : VaultPause \/ ConfigPause
             \/ \E args \in VaultUpdates : VaultUpdate(args)
             \/ \E args \in ConfigUpdates : ConfigUpdate(args)
             \/ \E amount \in IdleMoves : DeployIdle(amount) \/ ReturnIdle(amount)
    <3>1. UNCHANGED <<vault, requests, wallets, share_balances>>
      BY <2>4 DEF vars, Tick, VaultPause, ConfigPause, VaultUpdate, ConfigUpdate,
         DeployIdle, ReturnIdle, balances
    <3>2. TokensOf(v) \in Nat /\ SharesOf(v) \in Nat
      BY <1>1, HoldingsAreNat
    <3>3. TokensOf(v)' = TokensOf(v) /\ SharesOf(v)' = SharesOf(v)
      BY <3>1 DEF TokensOf, SharesOf, requests
    <3>4. NoMore(v)
      BY <3>2, <3>3 DEF NoMore
    <3> QED BY <1>1, <3>1, <3>4, NoMoreIsWorthNoMore
  <2> QED BY <1>1, <2>1, <2>2, <2>3, <2>4 DEF Next, ManagerStep, ProtocolStep
<1>2. ASSUME TypeOK, TypeOK', NEW v \in Users
      PROVE  Worth(v) \in Int /\ Worth(v)' \in Int
  <2>1. /\ TokensOf(v) \in Int /\ SharesOf(v) \in Int
        /\ TokensOf(v)' \in Int /\ SharesOf(v)' \in Int
        /\ vault.nav_per_share \in Int /\ NAV_PRECISION \in Int
    BY <1>2, HoldingsAreNat, HoldingsStayNat, NumbersAreNat
  <2>2. vault'.nav_per_share \in Int
    <3>1. vault'.nav_per_share \in U64
      BY <1>2 DEF TypeOK, Books
    <3>2. vault'.nav_per_share \in Nat
      BY <3>1, ConstantsAreNat
    <3> QED BY <3>2
  <2>3. Worth(v) \in Int
    BY <2>1 DEF Worth
  <2>4. Worth(v)' = TokensOf(v)' * NAV_PRECISION + SharesOf(v)' * vault'.nav_per_share
    BY DEF Worth
  <2>5. /\ TokensOf(v)' * NAV_PRECISION \in Int
        /\ SharesOf(v)' * vault'.nav_per_share \in Int
    BY <2>1, <2>2
  <2> QED BY <2>3, <2>4, <2>5
<1>3. TypeOK /\ TypeOK' /\ EpochsAreOrdered /\ [Next]_vars => NoGainStep
  <2> SUFFICES ASSUME TypeOK, TypeOK', EpochsAreOrdered, [Next]_vars,
                      vault'.nav_epoch = vault.nav_epoch, NEW v \in Users,
                      Worth(v)' > Worth(v)
               PROVE  \E giver \in Users : Worth(v)' - Worth(v) <= Worth(giver) - Worth(giver)'
    BY DEF NoGainStep
  <2> QED BY <1>1, <1>2
<1> QED BY <1>3, TypeCorrectness, EpochsStayOrdered, PTL DEF Spec, NobodyGainsBetweenNavs

-----------------------------------------------------------------------------
(* The high water mark and the fees.                                         *)

\* The first NAV is the first high water mark.
LEMMA MarkInit == Init => HighWaterMarkDominates
BY MathAssumption DEF Init, HighWaterMarkDominates

\* Every step leaves the high water mark on top.
LEMMA MarkStep ==
  ASSUME TypeOK, EpochsAreOrdered, HighWaterMarkDominates, [Next]_vars
  PROVE  HighWaterMarkDominates'
<1>1. /\ vault.nav_per_share \in Nat /\ vault.high_water_mark \in Nat /\ NAV_PRECISION \in Nat
  BY NumbersAreNat
<1>2. CASE NavKept
  BY <1>2 DEF NavKept, HighWaterMarkDominates
<1>3. CASE BooksKept
  BY <1>3 DEF BooksKept, HighWaterMarkDominates
<1>4. CASE \E total_assets \in ReportedTotals : NavPostedAt(total_assets)
  <2>1. PICK total_assets, max_deviation_bps :
          /\ total_assets \in ReportedTotals
          /\ UpdateNav(total_assets, max_deviation_bps)
    BY <1>4 DEF NavPostedAt, NavUpdate, NavOverride
  <2>2. total_assets \in U64
    BY <2>1, NavUpdateOutcomes
  <2>3. CASE EmptyUpdate(total_assets)
    BY <2>2, <2>3, EmptyUpdateFields DEF HighWaterMarkDominates
  <2>4. ASSUME NEW owed, NEW settlement, SettledUpdate(total_assets, owed, settlement)
        PROVE  HighWaterMarkDominates'
    <3>1. /\ vault'.nav_per_share = settlement.nav_per_share
          /\ vault'.high_water_mark = RaisedHighWaterMark(settlement.nav_per_share)
      BY <2>2, <2>4, SettledUpdateFields
    <3>2. settlement.nav_per_share \in Nat
      BY <2>4, ConstantsAreNat DEF SettledUpdate
    <3> QED BY <1>1, <3>1, <3>2 DEF HighWaterMarkDominates, RaisedHighWaterMark
  <2> QED BY <2>1, <2>3, <2>4, NavUpdateOutcomes
<1> QED BY <1>2, <1>3, <1>4, StepKinds, RequestsAndClaimsKeepNav

\* The stored NAV never exceeds the high water mark, through every update,
\* also of an empty vault.
THEOREM HighWaterMarkStaysAbove == Spec => []HighWaterMarkDominates
<1>1. Init => HighWaterMarkDominates
  BY MarkInit
<1>2. TypeOK /\ EpochsAreOrdered /\ HighWaterMarkDominates /\ [Next]_vars
        => HighWaterMarkDominates'
  BY MarkStep
<1> QED BY <1>1, <1>2, TypeCorrectness, EpochsStayOrdered, PTL DEF Spec

\* Only a NAV update posts a NAV.
LEMMA PostedByUpdate ==
  ASSUME TypeOK, EpochsAreOrdered, [Next]_vars, NavPosted
  PROVE  \E total_assets \in U64 :
           /\ total_assets \in Nat
           /\ UNCHANGED balances
           /\ \/ EmptyUpdate(total_assets)
              \/ \E owed, settlement : SettledUpdate(total_assets, owed, settlement)
<1>1. \E total_assets \in ReportedTotals : NavPostedAt(total_assets)
  BY StepKinds, RequestsAndClaimsKeepNav DEF NavPosted, NavKept, BooksKept
<1>2. PICK total_assets, max_deviation_bps :
        /\ total_assets \in ReportedTotals
        /\ UpdateNav(total_assets, max_deviation_bps)
  BY <1>1 DEF NavPostedAt, NavUpdate, NavOverride
<1> QED BY <1>2, NavUpdateOutcomes

\* An update of an empty vault accrues no share.
LEMMA EmptyUpdateKeepsSupply ==
  ASSUME TypeOK, NEW total_assets \in U64, EmptyUpdate(total_assets), UNCHANGED balances
  PROVE  Supply = 0 /\ Supply' = 0
BY EmptyUpdateFields DEF EmptyUpdate, Supply, balances

\* A gain is charged once: right after an update nothing is left above the mark.
THEOREM GainsChargedOnceProved == Spec => GainsAreChargedOnce
<1>1. ASSUME TypeOK, EpochsAreOrdered, [Next]_vars, NavPosted, Supply' > 0
      PROVE  GrossNav(vault'.total_assets, Supply') <= vault'.high_water_mark
  <2>1. PICK total_assets \in U64 :
          /\ total_assets \in Nat
          /\ UNCHANGED balances
          /\ \/ EmptyUpdate(total_assets)
             \/ \E owed, settlement : SettledUpdate(total_assets, owed, settlement)
    BY <1>1, PostedByUpdate
  <2>2. ~EmptyUpdate(total_assets)
    BY <1>1, <2>1, EmptyUpdateKeepsSupply
  <2>3. PICK owed, settlement : SettledUpdate(total_assets, owed, settlement)
    BY <2>1, <2>2
  <2>4. /\ vault'.total_assets = total_assets
        /\ vault'.high_water_mark = RaisedHighWaterMark(settlement.nav_per_share)
    BY <1>1, <2>3, SettledUpdateFields
  <2>5. /\ Supply \in Nat \ {0}
        /\ Supply' = Supply + AccruedShares(settlement)
    BY <1>1, <2>1, <2>3, SettledSupply
  <2>6. /\ settlement.nav_per_share \in Nat
        /\ settlement.nav_per_share
             = GrossNav(total_assets, Supply + AccruedShares(settlement))
    BY <2>1, <2>3, <2>5, NavSettlementIsBacked DEF SettledUpdate
  <2>7. vault.high_water_mark \in Nat
    BY <1>1, NumbersAreNat
  <2>8. settlement.nav_per_share <= RaisedHighWaterMark(settlement.nav_per_share)
    BY <2>6, <2>7 DEF RaisedHighWaterMark
  <2> QED BY <2>4, <2>5, <2>6, <2>8
<1>2. TypeOK /\ EpochsAreOrdered /\ [Next]_vars => GainStep
  BY <1>1 DEF GainStep
<1> QED BY <1>2, TypeCorrectness, EpochsStayOrdered, PTL DEF Spec, GainsAreChargedOnce

\* The shares an update accrues are worth at most the fees it owes.
THEOREM FeeSharesBoundedProved == Spec => FeeSharesWorthAtMostFees
<1>1. ASSUME TypeOK, EpochsAreOrdered, [Next]_vars, NavPosted, Supply > 0
      PROVE  (Supply' - Supply) * vault'.nav_per_share
               <= TotalFee(FeesOwed(vault'.total_assets)) * NAV_PRECISION
  <2>1. PICK total_assets \in U64 :
          /\ total_assets \in Nat
          /\ UNCHANGED balances
          /\ \/ EmptyUpdate(total_assets)
             \/ \E owed, settlement : SettledUpdate(total_assets, owed, settlement)
    BY <1>1, PostedByUpdate
  <2>2. ~EmptyUpdate(total_assets)
    BY <1>1, <2>1, EmptyUpdateKeepsSupply
  <2>3. PICK owed, settlement : SettledUpdate(total_assets, owed, settlement)
    BY <2>1, <2>2
  <2>4. vault'.total_assets = total_assets /\ vault'.nav_per_share = settlement.nav_per_share
    BY <1>1, <2>3, SettledUpdateFields
  <2>5. /\ Supply \in Nat \ {0} /\ AccruedShares(settlement) \in Nat
        /\ Supply' = Supply + AccruedShares(settlement)
    BY <1>1, <2>1, <2>3, SettledSupply
  <2>6. AccruedShares(settlement) * settlement.nav_per_share <= TotalFee(owed) * NAV_PRECISION
    BY <2>1, <2>3, <2>5, AccruedSharesAreWorthAtMostFees DEF SettledUpdate
  <2>7. owed = FeesOwed(total_assets)
    BY <2>3 DEF SettledUpdate
  <2>8. Supply' - Supply = AccruedShares(settlement)
    BY <2>5
  <2> QED BY <2>4, <2>6, <2>7, <2>8
<1>2. TypeOK /\ EpochsAreOrdered /\ [Next]_vars => FeeSharesStep
  BY <1>1 DEF FeeSharesStep
<1> QED BY <1>2, TypeCorrectness, EpochsStayOrdered, PTL DEF Spec, FeeSharesWorthAtMostFees

\* With no management fee and performance rates of at most 100% together, fees
\* take from the gain only.
THEOREM PrincipalSparedProved == Spec => PerformanceFeesSparePrincipal
<1>1. ASSUME TypeOK, EpochsAreOrdered, [Next]_vars, NavPosted, Supply > 0,
             fees.management_fee_bps = 0, config.platform_management_fee_bps = 0,
             fees.performance_fee_bps + config.platform_performance_fee_bps <= MAX_BPS,
             vault'.total_assets * NAV_PRECISION >= vault.high_water_mark * Supply
      PROVE  vault'.nav_per_share >= vault.high_water_mark
  <2>1. PICK total_assets \in U64 :
          /\ total_assets \in Nat
          /\ UNCHANGED balances
          /\ \/ EmptyUpdate(total_assets)
             \/ \E owed, settlement : SettledUpdate(total_assets, owed, settlement)
    BY <1>1, PostedByUpdate
  <2>2. ~EmptyUpdate(total_assets)
    BY <1>1, <2>1, EmptyUpdateKeepsSupply
  <2>3. PICK owed, settlement : SettledUpdate(total_assets, owed, settlement)
    BY <2>1, <2>2
  <2>4. vault'.total_assets = total_assets /\ vault'.nav_per_share = settlement.nav_per_share
    BY <1>1, <2>3, SettledUpdateFields
  <2> DEFINE mark == vault.high_water_mark
             elapsed == now - vault.last_nav_ts
             profit == EligibleProfit(total_assets, Supply, mark)
  <2>5. /\ Supply \in Nat \ {0} /\ mark \in Nat /\ NAV_PRECISION \in Nat
        /\ elapsed \in Nat
    BY <1>1, <2>3, NumbersAreNat, FieldsAreTyped DEF SettledUpdate, EpochsAreOrdered
  <2>6. /\ ManagerRates \in Rates /\ PlatformRates \in Rates
        /\ ManagerRates.management = 0 /\ PlatformRates.management = 0
        /\ ManagerRates.performance + PlatformRates.performance <= MAX_BPS
    BY <1>1, FieldsAreTyped DEF ManagerRates, PlatformRates
  <2>7. owed = OwedFees(total_assets, Supply, mark, elapsed, ManagerRates, PlatformRates)
    BY <2>3 DEF SettledUpdate, FeesOwed
  <2>8. /\ profit \in Nat
        /\ mark * Supply + profit * NAV_PRECISION <= total_assets * NAV_PRECISION
    BY <1>1, <2>1, <2>4, <2>5, EligibleProfitIsAboveMark
  <2>9. TotalFee(owed) \in Nat /\ TotalFee(owed) <= profit
    <3>1. TotalFee(owed) <= profit
      BY <2>1, <2>5, <2>6, <2>7, PerformanceFeesAreWithinProfit
    <3>2. TotalFee(owed) \in Nat
      BY <2>1, <2>5, <2>6, <2>7, OwedFeesAreNat
    <3> QED BY <3>1, <3>2
  <2> HIDE DEF profit, mark, elapsed
  <2>10. TotalFee(owed) * NAV_PRECISION <= profit * NAV_PRECISION
    BY <2>5, <2>8, <2>9, SMT
  <2>11. /\ mark * Supply \in Int /\ profit * NAV_PRECISION \in Int
         /\ TotalFee(owed) * NAV_PRECISION \in Int /\ total_assets * NAV_PRECISION \in Int
    BY <2>1, <2>5, <2>8, <2>9
  <2>12. mark * Supply + TotalFee(owed) * NAV_PRECISION <= total_assets * NAV_PRECISION
    BY <2>8, <2>10, <2>11
  <2>13. settlement.nav_per_share >= mark
    BY <2>1, <2>3, <2>5, <2>12, FeesWithinProfitSpareMark DEF SettledUpdate
  <2> QED BY <2>4, <2>13 DEF mark
<1>2. TypeOK /\ EpochsAreOrdered /\ [Next]_vars => SparePrincipalStep
  BY <1>1 DEF SparePrincipalStep
<1> QED BY <1>2, TypeCorrectness, EpochsStayOrdered, PTL DEF Spec, PerformanceFeesSparePrincipal

\* A zero NAV with shares outstanding is final for the NAV updater.
THEOREM ZeroNavFinalForUpdater == Spec => ZeroNavNeedsOverride
<1>1. ASSUME TypeOK, EpochsAreOrdered, vault.nav_per_share = 0, Supply > 0,
             NEW total_assets \in ReportedTotals, NavUpdate(total_assets)
      PROVE  vault'.nav_per_share = 0
  <2> DEFINE settlement == NavSettlement(total_assets, Supply, FeesOwed(total_assets))
  <2>1. config.max_nav_deviation_bps \in Nat /\ config.max_nav_deviation_bps # None
    BY <1>1, ConstantsAreNat, NoneAssumption DEF TypeOK, Configs
  <2>2. vault \in Books
    BY <1>1 DEF TypeOK
  <2>3. /\ AcceptableNav(total_assets, settlement, config.max_nav_deviation_bps)
        /\ vault' = [SettledBooks(settlement) EXCEPT
             !.total_assets = total_assets, !.nav_epoch = Epoch(now),
             !.last_nav_ts = now, !.epoch_outflow = 0]
    BY <1>1 DEF NavUpdate, UpdateNav
  <2> HIDE DEF settlement
  <2>4. settlement.nav_per_share = 0
    BY <1>1, <2>1, <2>3, NoDeviationFromZero DEF AcceptableNav
  <2>5. vault'.nav_per_share = settlement.nav_per_share
    BY <2>2, <2>3 DEF SettledBooks, Books
  <2> QED BY <2>4, <2>5
<1>2. TypeOK /\ EpochsAreOrdered /\ [Next]_vars => ZeroNavStep
  BY <1>1 DEF ZeroNavStep
<1> QED BY <1>2, TypeCorrectness, EpochsStayOrdered, PTL DEF Spec, ZeroNavNeedsOverride

-----------------------------------------------------------------------------
(* Pauses. *)

NotSpent == idle' >= idle /\ (~NavPosted => Supply' <= Supply)

\* Steps that leave the idle balance and the fee shares, and add no shares.
LEMMA NothingSpent ==
  ASSUME TypeOK, idle' = idle,
         vault'.unclaimed_manager_fee_shares = vault.unclaimed_manager_fee_shares,
         vault'.unclaimed_platform_fee_shares = vault.unclaimed_platform_fee_shares,
         share_supply' \in Nat, share_supply' <= share_supply
  PROVE  NotSpent
<1>1. idle \in Nat
  BY DEF TypeOK
<1> QED
  BY <1>1, NumbersAreNat DEF NotSpent, Supply

\* A pause closes the resolution of requests; the other steps of a request
\* leave the idle balance and the supply.
LEMMA PausedRequestsSpendNothing ==
  ASSUME TypeOK, "Paused" \in {config.status, params.status},
         NEW u \in Users, RequestStep(u)
  PROVE  NotSpent
<1>1. ~DepositsOpen /\ ~WithdrawalsOpen
  BY DEF DepositsOpen, WithdrawalsOpen, IsOperational, IsWithdrawable
<1>2. vault \in Books /\ share_supply \in Nat
  BY NumbersAreNat DEF TypeOK
<1>3. ~(\E amount : DepositRequestCreate(u, amount)) /\ ~DepositRequestResolve(u)
  BY <1>1 DEF DepositRequestCreate, DepositRequestResolve, CanResolveDeposit
<1>4. ~(\E amount : WithdrawalRequestCreate(u, amount)) /\ ~WithdrawalRequestResolve(u)
  BY <1>1 DEF WithdrawalRequestCreate, WithdrawalRequestResolve, CanResolveWithdrawal
<1>5. RefundDeposit(u) \/ ReturnShares(u)
  BY <1>3, <1>4 DEF RequestStep, DepositRequestCancel, DepositRequestReject,
     WithdrawalRequestCancel, WithdrawalRequestReject
<1>6. /\ idle' = idle /\ share_supply' = share_supply
      /\ vault'.unclaimed_manager_fee_shares = vault.unclaimed_manager_fee_shares
      /\ vault'.unclaimed_platform_fee_shares = vault.unclaimed_platform_fee_shares
  BY <1>2, <1>5 DEF RefundDeposit, ReturnShares, Books
<1> QED
  BY <1>2, <1>6, NothingSpent

\* A claim turns unclaimed shares into shares, one to one.
LEMMA ClaimsSpendNothing ==
  ASSUME TypeOK, VaultClaimManagerFee \/ ConfigClaimPlatformFee
  PROVE  NotSpent
<1>1. idle' = idle /\ idle \in Nat /\ vault \in Books
  BY DEF VaultClaimManagerFee, ConfigClaimPlatformFee, TypeOK
<1>2. CASE VaultClaimManagerFee
  <2>1. /\ share_supply' = share_supply + vault.unclaimed_manager_fee_shares
        /\ vault'.unclaimed_manager_fee_shares = 0
        /\ vault'.unclaimed_platform_fee_shares = vault.unclaimed_platform_fee_shares
    BY <1>1, <1>2 DEF VaultClaimManagerFee, ManagerFeeClaimed, Mint, Books
  <2>2. Supply' = Supply
    BY <2>1, NumbersAreNat DEF Supply
  <2> QED
    BY <1>1, <2>2, NumbersAreNat DEF NotSpent
<1>3. CASE ConfigClaimPlatformFee
  <2>1. /\ share_supply' = share_supply + vault.unclaimed_platform_fee_shares
        /\ vault'.unclaimed_platform_fee_shares = 0
        /\ vault'.unclaimed_manager_fee_shares = vault.unclaimed_manager_fee_shares
    BY <1>1, <1>3 DEF ConfigClaimPlatformFee, Mint, Books
  <2>2. Supply' = Supply
    BY <2>1, NumbersAreNat DEF Supply
  <2> QED
    BY <1>1, <2>2, NumbersAreNat DEF NotSpent
<1> QED
  BY <1>2, <1>3

\* Movements of the token accounts outside requests: the manager cannot spend,
\* strangers can only add to the idle balance or burn shares.
LEMMA PausedMovesSpendNothing ==
  ASSUME TypeOK, "Paused" \in {config.status, params.status},
         SplStep \/ \E amount \in IdleMoves : DeployIdle(amount) \/ ReturnIdle(amount)
  PROVE  NotSpent
<1>1. ~IsOperational /\ ~IsWithdrawable
  BY DEF IsOperational, IsWithdrawable
<1>2. PICK u \in Users, amount \in SplAmounts :
        \/ SplTransferToIdle(u, amount)
        \/ SplTransferToDepositEscrow(u, amount)
        \/ SplTransferToShareEscrow(u, amount)
        \/ \E to \in Users : SplTransferShares(u, to, amount)
        \/ SplBurnShares(u, amount)
  BY <1>1 DEF SplStep, DeployIdle, ReturnIdle
<1>3. amount \in Nat /\ idle \in Nat /\ share_supply \in Nat
  BY InputsAssumption, NumbersAreNat DEF TypeOK
<1>4. CASE SplTransferToIdle(u, amount)
  <2>1. idle' = idle + amount /\ vault' = vault /\ share_supply' = share_supply
    BY <1>4 DEF SplTransferToIdle
  <2> QED
    BY <1>3, <2>1, NumbersAreNat DEF NotSpent, Supply
<1>5. CASE ~SplTransferToIdle(u, amount)
  <2>1. /\ idle' = idle /\ vault' = vault
        /\ share_supply' \in Nat /\ share_supply' <= share_supply
    BY <1>2, <1>3, <1>5 DEF SplTransferToDepositEscrow, SplTransferToShareEscrow,
       SplTransferShares, SplBurnShares
  <2> QED
    BY <2>1, NothingSpent
<1> QED
  BY <1>4, <1>5

\* A NAV update posts a NAV.
LEMMA NavStepsPost ==
  ASSUME TypeOK, NavStep
  PROVE  NavPosted
<1>1. PICK total_assets, max_deviation_bps : UpdateNav(total_assets, max_deviation_bps)
  BY DEF NavStep, NavUpdate, NavOverride
<1>2. Epoch(now) > vault.nav_epoch
  BY <1>1 DEF UpdateNav, NavIsDue
<1>3. vault \in Books /\ now \in Nat
  BY DEF TypeOK
<1>4. Epoch(now) \in Nat /\ vault.nav_epoch \in Nat
  BY <1>3, EpochIsMonotone DEF Books
<1> DEFINE settlement == NavSettlement(total_assets, Supply, FeesOwed(total_assets))
<1>5. \E books \in {EmptyVaultBooks, SettledBooks(settlement)} :
        vault' = [books EXCEPT !.total_assets = total_assets, !.nav_epoch = Epoch(now),
                               !.last_nav_ts = now, !.epoch_outflow = 0]
  BY <1>1 DEF UpdateNav
<1>6. vault'.nav_epoch = Epoch(now)
  BY <1>3, <1>5 DEF EmptyVaultBooks, SettledBooks, Books
<1> QED
  BY <1>2, <1>4, <1>6 DEF NavPosted

\* A NAV update moves no token.
LEMMA NavUpdatesSpendNothing ==
  ASSUME TypeOK, NavStep
  PROVE  NotSpent
<1>1. idle' = idle /\ idle \in Nat
  BY DEF NavStep, NavUpdate, NavOverride, UpdateNav, balances, TypeOK
<1> QED
  BY <1>1, NavStepsPost DEF NotSpent

\* While either status is paused, whoever acts and however requests, claims,
\* updates and moves interleave, nothing is spent from the idle balance and no
\* share is minted but for fees.
THEOREM PauseFreezes == Spec => PauseFreezesTheVault
<1>1. TypeOK /\ Next /\ "Paused" \in {config.status, params.status} => NotSpent
  <2> SUFFICES ASSUME TypeOK, Next, "Paused" \in {config.status, params.status}
               PROVE  NotSpent
    OBVIOUS
  <2>1. ASSUME UNCHANGED <<vault, requests, balances>>
        PROVE  NotSpent
    <3>1. idle' = idle /\ vault' = vault /\ share_supply' = share_supply
      BY <2>1 DEF balances
    <3> QED
      BY <3>1, NothingSpent, NumbersAreNat
  <2>2. CASE \E u \in Users : RequestStep(u)
    BY <2>2, PausedRequestsSpendNothing
  <2>3. CASE NavStep
    BY <2>3, NavUpdatesSpendNothing
  <2>4. CASE ManagerStep
    <3>1. ASSUME NEW args \in VaultUpdates, VaultUpdate(args)
          PROVE  NotSpent
      BY <2>1, <3>1 DEF VaultUpdate
    <3> QED
      BY <2>4, <3>1, ClaimsSpendNothing, PausedMovesSpendNothing DEF ManagerStep
  <2>5. CASE ProtocolStep
    <3>1. ASSUME VaultPause \/ ConfigPause
          PROVE  NotSpent
      BY <2>1, <3>1 DEF VaultPause, ConfigPause
    <3>2. ASSUME NEW args \in ConfigUpdates, ConfigUpdate(args)
          PROVE  NotSpent
      BY <2>1, <3>2 DEF ConfigUpdate
    <3> QED
      BY <2>5, <3>1, <3>2, ClaimsSpendNothing DEF ProtocolStep
  <2>6. CASE SplStep
    BY <2>6, PausedMovesSpendNothing
  <2>7. CASE Tick
    BY <2>1, <2>7 DEF Tick
  <2> QED
    BY <2>2, <2>3, <2>4, <2>5, <2>6, <2>7 DEF Next
<1>2. TypeOK /\ [Next]_vars =>
        ["Paused" \in {config.status, params.status}
           => idle' >= idle /\ (~NavPosted => Supply' <= Supply)]_vars
  BY <1>1 DEF NotSpent
<1> QED
  BY <1>2, TypeCorrectness, PTL DEF Spec, PauseFreezesTheVault
=============================================================================
