------------------------ MODULE HedgeVaultRefinement ------------------------
(***************************************************************************)
(* HedgeVault implements AsyncVault, for every value of its constants.     *)
(* Every step of the vault is a step of the abstract request lifecycle or  *)
(* moves balances that concern no request.                                 *)
(***************************************************************************)
EXTENDS HedgeVaultProofs

Deposits == AbstractRequests(deposit_requests)
Withdrawals == AbstractRequests(withdrawal_requests)

\* What the abstraction of one request is.
Abstracted(request, nav_epoch) ==
  [amount |-> request.amount, priced |-> IsOpen(request) /\ nav_epoch > request.epoch]

\* The abstract requests, user by user, in the present state and in the next.
LEMMA AbstractionByUser ==
  /\ Deposits = [v \in Users |-> Abstracted(deposit_requests[v], vault.nav_epoch)]
  /\ Withdrawals = [v \in Users |-> Abstracted(withdrawal_requests[v], vault.nav_epoch)]
  /\ Deposits' = [v \in Users |-> Abstracted(deposit_requests'[v], vault'.nav_epoch)]
  /\ Withdrawals' = [v \in Users |-> Abstracted(withdrawal_requests'[v], vault'.nav_epoch)]
BY DEF Deposits, Withdrawals, AbstractRequests, Abstracted, IsOpen

\* A step of one user's request is a step of that user's abstract request.
LEMMA OneRequestMoves ==
  ASSUME NEW open, NEW u \in Users, NEW new, NEW nav_epoch,
         open \in [Users -> Requests]
  PROVE  [v \in Users |-> Abstracted([open EXCEPT ![u] = new][v], nav_epoch)]
           = [[v \in Users |-> Abstracted(open[v], nav_epoch)]
                EXCEPT ![u] = Abstracted(new, nav_epoch)]
OBVIOUS

\* A request that no NAV covers is unpriced.
LEMMA UnpricedAbstraction ==
  ASSUME NEW request, NEW nav_epoch, ~(IsOpen(request) /\ nav_epoch > request.epoch)
  PROVE  Abstracted(request, nav_epoch) = [amount |-> request.amount, priced |-> FALSE]
<1>1. (IsOpen(request) /\ nav_epoch > request.epoch) = FALSE
  BY Zenon
<1> HIDE DEF IsOpen
<1> QED BY <1>1 DEF Abstracted

\* The abstraction keeps the amount.
LEMMA AbstractedAmount ==
  ASSUME NEW request, NEW nav_epoch
  PROVE  Abstracted(request, nav_epoch).amount = request.amount
BY DEF Abstracted

\* The abstraction of no request is closed.
LEMMA ClosedAbstraction ==
  ASSUME NEW nav_epoch
  PROVE  Abstracted(NoRequest, nav_epoch) = [amount |-> 0, priced |-> FALSE]
<1>1. NoRequest.amount = 0 /\ ~IsOpen(NoRequest)
  BY DEF NoRequest, IsOpen
<1> QED BY <1>1, UnpricedAbstraction

\* A new vault maps to an initial state of AsyncVault.
LEMMA AbstractInit == Init => Async!Init
<1> SUFFICES ASSUME Init PROVE Async!Init
  OBVIOUS
<1>1. Abstracted(NoRequest, vault.nav_epoch) = [amount |-> 0, priced |-> FALSE]
  BY ClosedAbstraction
<1>2. /\ Deposits = [v \in Users |-> [amount |-> 0, priced |-> FALSE]]
      /\ Withdrawals = [v \in Users |-> [amount |-> 0, priced |-> FALSE]]
  BY <1>1, AbstractionByUser DEF Init
<1>3. /\ vault.nav_per_share = NAV_PRECISION
      /\ wallets \in [Users -> Nat] /\ share_balances \in [Users -> Nat]
  BY InputsAssumption DEF Init
<1> QED BY <1>2, <1>3 DEF Async!Init, Async!Closed, Deposits, Withdrawals

\* Every request keeps its abstraction, and so does the price.
RequestsKept ==
  /\ Deposits' = Deposits /\ Withdrawals' = Withdrawals
  /\ vault'.nav_per_share = vault.nav_per_share

\* A step that keeps the requests and the price moves balances at most.
LEMMA KeptRequestsMoveBalances ==
  ASSUME TypeOK', RequestsKept
  PROVE  Async!Next
<1>1. wallets' \in [Users -> Nat] /\ share_balances' \in [Users -> Nat]
  BY DEF TypeOK
<1>2. Async!MoveBalances
  BY <1>1 DEF RequestsKept, Async!MoveBalances, Deposits, Withdrawals
<1> QED BY <1>2 DEF Async!Next

\* A request that is opened or added to is unpriced, before and after.
LEMMA AccumulationIsUnpriced ==
  ASSUME TypeOK, EpochsAreOrdered, NEW amount \in U64 \ {0}, NEW old \in Requests,
         CanAccumulate(old)
  PROVE  /\ Abstracted(old, vault.nav_epoch) = [amount |-> old.amount, priced |-> FALSE]
         /\ Abstracted(Accumulated(old, amount), vault.nav_epoch)
              = [amount |-> old.amount + amount, priced |-> FALSE]
<1> DEFINE new == Accumulated(old, amount)
           nav_epoch == vault.nav_epoch
<1>1. /\ old.amount \in Nat /\ old.epoch \in Nat /\ amount \in Nat /\ amount # 0
      /\ nav_epoch \in Nat /\ nav_epoch <= Epoch(now) /\ Epoch(now) \in Nat
  <2>1. vault.last_nav_ts \in Nat /\ now \in Nat /\ nav_epoch \in Nat
    BY FieldsAreTyped
  <2>2. /\ Epoch(vault.last_nav_ts) <= Epoch(now) /\ Epoch(now) \in Nat
        /\ Epoch(vault.last_nav_ts) \in Nat
    BY <2>1, EpochIsMonotone DEF EpochsAreOrdered
  <2>3. nav_epoch <= Epoch(now)
    BY <2>1, <2>2 DEF EpochsAreOrdered
  <2>4. old.amount \in U64 /\ old.epoch \in Nat
    BY DEF Requests
  <2> QED BY <2>1, <2>2, <2>3, <2>4, ConstantsAreNat
<1>2. new.amount = old.amount + amount /\ new.epoch = Epoch(now)
  BY DEF Accumulated, CanAccumulate
<1>3. ~(IsOpen(old) /\ nav_epoch > old.epoch)
  BY <1>1 DEF CanAccumulate
<1> HIDE DEF new, nav_epoch
<1>4. ~(IsOpen(new) /\ nav_epoch > new.epoch)
  BY <1>1, <1>2
<1>5. /\ Abstracted(old, nav_epoch) = [amount |-> old.amount, priced |-> FALSE]
      /\ Abstracted(new, nav_epoch) = [amount |-> new.amount, priced |-> FALSE]
  BY <1>3, <1>4, UnpricedAbstraction
<1> QED BY <1>2, <1>5 DEF new, nav_epoch

\* A step of one deposit request moves that user's abstract request and no other.
LEMMA DepositAbstractionMoves ==
  ASSUME TypeOK, NEW u \in Users, NEW new,
         deposit_requests' = [deposit_requests EXCEPT ![u] = new],
         withdrawal_requests' = withdrawal_requests,
         vault'.nav_epoch = vault.nav_epoch
  PROVE  /\ Deposits' = [Deposits EXCEPT ![u] = Abstracted(new, vault.nav_epoch)]
         /\ Withdrawals' = Withdrawals
<1>1. deposit_requests \in [Users -> Requests]
  BY DEF TypeOK
<1>2. Deposits' = [v \in Users |-> Abstracted([deposit_requests EXCEPT ![u] = new][v], vault.nav_epoch)]
  BY AbstractionByUser
<1>3. Deposits = [v \in Users |-> Abstracted(deposit_requests[v], vault.nav_epoch)]
  BY AbstractionByUser
<1>4. Withdrawals' = Withdrawals
  BY AbstractionByUser
<1> QED BY <1>1, <1>2, <1>3, <1>4, OneRequestMoves

\* The same for a withdrawal request.
LEMMA WithdrawalAbstractionMoves ==
  ASSUME TypeOK, NEW u \in Users, NEW new,
         withdrawal_requests' = [withdrawal_requests EXCEPT ![u] = new],
         deposit_requests' = deposit_requests,
         vault'.nav_epoch = vault.nav_epoch
  PROVE  /\ Withdrawals' = [Withdrawals EXCEPT ![u] = Abstracted(new, vault.nav_epoch)]
         /\ Deposits' = Deposits
<1>1. withdrawal_requests \in [Users -> Requests]
  BY DEF TypeOK
<1>2. Withdrawals' = [v \in Users |-> Abstracted([withdrawal_requests EXCEPT ![u] = new][v], vault.nav_epoch)]
  BY AbstractionByUser
<1>3. Withdrawals = [v \in Users |-> Abstracted(withdrawal_requests[v], vault.nav_epoch)]
  BY AbstractionByUser
<1>4. Deposits' = Deposits
  BY AbstractionByUser
<1> QED BY <1>1, <1>2, <1>3, <1>4, OneRequestMoves

\* The abstract request of one user.
LEMMA AbstractionOfUser ==
  ASSUME NEW u \in Users
  PROVE  /\ Deposits[u] = Abstracted(deposit_requests[u], vault.nav_epoch)
         /\ Withdrawals[u] = Abstracted(withdrawal_requests[u], vault.nav_epoch)
BY AbstractionByUser

\* A resolvable request is priced, with its amount.
LEMMA ResolvableIsPriced ==
  ASSUME NEW request, IsResolvable(request)
  PROVE  /\ Abstracted(request, vault.nav_epoch).priced
         /\ Abstracted(request, vault.nav_epoch).amount = request.amount
BY DEF IsResolvable, Abstracted

\* A deposit request is opened or added to before any NAV prices it.
LEMMA SubmitDepositSimulated ==
  ASSUME TypeOK, EpochsAreOrdered, NEW u \in Users, NEW amount \in DepositAmounts,
         DepositRequestCreate(u, amount)
  PROVE  Async!SubmitDeposit(u)
<1> DEFINE old == deposit_requests[u]
           new == Accumulated(old, amount)
<1>1. amount \in U64 \ {0} /\ old \in Requests
  BY InputsAssumption, ConstantsAreNat DEF DepositRequestCreate, TypeOK
<1>2. /\ vault'.nav_epoch = vault.nav_epoch /\ vault'.nav_per_share = vault.nav_per_share
      /\ deposit_requests' = [deposit_requests EXCEPT ![u] = new]
      /\ withdrawal_requests' = withdrawal_requests
      /\ wallets' = [wallets EXCEPT ![u] = @ - amount]
      /\ share_balances' = share_balances
      /\ CanAccumulate(old)
  BY DEF DepositRequestCreate, TypeOK, Books
<1>3. /\ Abstracted(old, vault.nav_epoch) = [amount |-> old.amount, priced |-> FALSE]
      /\ Abstracted(new, vault.nav_epoch) = [amount |-> old.amount + amount, priced |-> FALSE]
  BY <1>1, <1>2, AccumulationIsUnpriced
<1> HIDE DEF old, new
<1>4. Deposits[u] = [amount |-> old.amount, priced |-> FALSE]
  BY <1>3, AbstractionOfUser DEF old
<1>5. /\ Deposits' = [Deposits EXCEPT ![u] = [amount |-> old.amount + amount, priced |-> FALSE]]
      /\ Withdrawals' = Withdrawals
  <2>1. /\ Deposits' = [Deposits EXCEPT ![u] = Abstracted(new, vault.nav_epoch)]
        /\ Withdrawals' = Withdrawals
    BY <1>2, DepositAbstractionMoves
  <2> QED BY <1>3, <2>1
<1>6. ~Deposits[u].priced /\ Deposits' = Async!Submitted(Deposits, u, amount)
  BY <1>4, <1>5 DEF Async!Submitted
<1>7. amount \in Async!U64 \ {0}
  BY <1>1 DEF U64, Async!U64
<1>8. \E a \in Async!U64 \ {0} : /\ Deposits' = Async!Submitted(Deposits, u, a)
                                 /\ wallets' = [wallets EXCEPT ![u] = @ - a]
  BY <1>2, <1>6, <1>7
<1>9. UNCHANGED <<Withdrawals, vault.nav_per_share, share_balances>>
  BY <1>2, <1>5
<1> QED BY <1>6, <1>8, <1>9, Zenon DEF Async!SubmitDeposit, Deposits, Withdrawals

\* The same for a withdrawal request.
LEMMA SubmitWithdrawalSimulated ==
  ASSUME TypeOK, EpochsAreOrdered, NEW u \in Users, NEW amount \in ShareAmounts,
         WithdrawalRequestCreate(u, amount)
  PROVE  Async!SubmitWithdrawal(u)
<1> DEFINE old == withdrawal_requests[u]
           new == Accumulated(old, amount)
<1>1. amount \in U64 \ {0} /\ old \in Requests
  BY InputsAssumption, ConstantsAreNat DEF WithdrawalRequestCreate, TypeOK
<1>2. /\ vault'.nav_epoch = vault.nav_epoch /\ vault'.nav_per_share = vault.nav_per_share
      /\ withdrawal_requests' = [withdrawal_requests EXCEPT ![u] = new]
      /\ deposit_requests' = deposit_requests
      /\ share_balances' = [share_balances EXCEPT ![u] = @ - amount]
      /\ wallets' = wallets
      /\ CanAccumulate(old)
  BY DEF WithdrawalRequestCreate, TypeOK, Books
<1>3. /\ Abstracted(old, vault.nav_epoch) = [amount |-> old.amount, priced |-> FALSE]
      /\ Abstracted(new, vault.nav_epoch) = [amount |-> old.amount + amount, priced |-> FALSE]
  BY <1>1, <1>2, AccumulationIsUnpriced
<1> HIDE DEF old, new
<1>4. Withdrawals[u] = [amount |-> old.amount, priced |-> FALSE]
  BY <1>3, AbstractionOfUser DEF old
<1>5. /\ Withdrawals' = [Withdrawals EXCEPT ![u] = [amount |-> old.amount + amount, priced |-> FALSE]]
      /\ Deposits' = Deposits
  <2>1. /\ Withdrawals' = [Withdrawals EXCEPT ![u] = Abstracted(new, vault.nav_epoch)]
        /\ Deposits' = Deposits
    BY <1>2, WithdrawalAbstractionMoves
  <2> QED BY <1>3, <2>1
<1>6. ~Withdrawals[u].priced /\ Withdrawals' = Async!Submitted(Withdrawals, u, amount)
  BY <1>4, <1>5 DEF Async!Submitted
<1>7. amount \in Async!U64 \ {0}
  BY <1>1 DEF U64, Async!U64
<1>8. \E a \in Async!U64 \ {0} : /\ Withdrawals' = Async!Submitted(Withdrawals, u, a)
                                 /\ share_balances' = [share_balances EXCEPT ![u] = @ - a]
  BY <1>2, <1>6, <1>7
<1>9. UNCHANGED <<Deposits, vault.nav_per_share, wallets>>
  BY <1>2, <1>5
<1> QED BY <1>6, <1>8, <1>9, Zenon DEF Async!SubmitWithdrawal, Deposits, Withdrawals

\* A resolved deposit settles at the posted price.
LEMMA SettleDepositSimulated ==
  ASSUME TypeOK, NEW u \in Users, DepositRequestResolve(u)
  PROVE  Async!SettleDeposit(u)
<1> DEFINE old == deposit_requests[u]
           minted == SharesFor(old.amount, vault.nav_per_share)
<1>1. /\ vault'.nav_epoch = vault.nav_epoch /\ vault'.nav_per_share = vault.nav_per_share
      /\ deposit_requests' = [deposit_requests EXCEPT ![u] = NoRequest]
      /\ withdrawal_requests' = withdrawal_requests
      /\ wallets' = wallets
      /\ share_balances' = [share_balances EXCEPT ![u] = @ + minted]
      /\ IsResolvable(old) /\ vault.nav_per_share > 0 /\ minted > 0
  BY DEF DepositRequestResolve, CanResolveDeposit, DepositBooked, Mint, TypeOK, Books
<1>2. Deposits[u].priced /\ Deposits[u].amount = old.amount
  BY <1>1, ResolvableIsPriced, AbstractionOfUser
<1>3. minted = Async!SharesFor(Deposits[u].amount, vault.nav_per_share)
  BY <1>2 DEF SharesFor, Async!SharesFor
<1> HIDE DEF old, minted
<1>4. Abstracted(NoRequest, vault.nav_epoch) = Async!Closed
  BY ClosedAbstraction DEF Async!Closed
<1>5. Deposits' = [Deposits EXCEPT ![u] = Async!Closed] /\ Withdrawals' = Withdrawals
  BY <1>1, <1>4, DepositAbstractionMoves
<1>6. UNCHANGED <<Withdrawals, vault.nav_per_share, wallets>>
  BY <1>1, <1>5
<1>7. share_balances'
        = [share_balances EXCEPT ![u] = @ + Async!SharesFor(Deposits[u].amount, vault.nav_per_share)]
  BY <1>1, <1>3
<1>8. Async!SharesFor(Deposits[u].amount, vault.nav_per_share) > 0 /\ vault.nav_per_share > 0
  BY <1>1, <1>3
<1> QED BY <1>2, <1>5, <1>6, <1>7, <1>8, Zenon DEF Async!SettleDeposit, Deposits, Withdrawals

\* A resolved withdrawal settles at the posted price.
LEMMA SettleWithdrawalSimulated ==
  ASSUME TypeOK, NEW u \in Users, WithdrawalRequestResolve(u)
  PROVE  Async!SettleWithdrawal(u)
<1> DEFINE old == withdrawal_requests[u]
           paid == AssetsFor(old.amount, vault.nav_per_share)
<1>1. /\ vault'.nav_epoch = vault.nav_epoch /\ vault'.nav_per_share = vault.nav_per_share
      /\ withdrawal_requests' = [withdrawal_requests EXCEPT ![u] = NoRequest]
      /\ deposit_requests' = deposit_requests
      /\ share_balances' = share_balances
      /\ wallets' = [wallets EXCEPT ![u] = @ + paid]
      /\ IsResolvable(old)
  BY DEF WithdrawalRequestResolve, CanResolveWithdrawal, WithdrawalBooked, TypeOK, Books
<1>2. Withdrawals[u].priced /\ Withdrawals[u].amount = old.amount
  BY <1>1, ResolvableIsPriced, AbstractionOfUser
<1>3. paid = Async!AssetsFor(Withdrawals[u].amount, vault.nav_per_share)
  BY <1>2 DEF AssetsFor, Async!AssetsFor
<1> HIDE DEF old, paid
<1>4. Abstracted(NoRequest, vault.nav_epoch) = Async!Closed
  BY ClosedAbstraction DEF Async!Closed
<1>5. Withdrawals' = [Withdrawals EXCEPT ![u] = Async!Closed] /\ Deposits' = Deposits
  BY <1>1, <1>4, WithdrawalAbstractionMoves
<1>6. UNCHANGED <<Deposits, vault.nav_per_share, share_balances>>
  BY <1>1, <1>5
<1>7. wallets'
        = [wallets EXCEPT ![u] = @ + Async!AssetsFor(Withdrawals[u].amount, vault.nav_per_share)]
  BY <1>1, <1>3
<1> QED BY <1>2, <1>5, <1>6, <1>7, Zenon DEF Async!SettleWithdrawal, Deposits, Withdrawals

\* A cancelled or rejected deposit is refunded in full.
LEMMA RefundDepositSimulated ==
  ASSUME TypeOK, NEW u \in Users, IsOpen(deposit_requests[u]), RefundDeposit(u)
  PROVE  Async!RefundDeposit(u)
<1> DEFINE old == deposit_requests[u]
<1>1. /\ vault'.nav_epoch = vault.nav_epoch /\ vault'.nav_per_share = vault.nav_per_share
      /\ deposit_requests' = [deposit_requests EXCEPT ![u] = NoRequest]
      /\ withdrawal_requests' = withdrawal_requests
      /\ share_balances' = share_balances
      /\ wallets' = [wallets EXCEPT ![u] = @ + old.amount]
  BY DEF RefundDeposit, TypeOK, Books
<1>2. Deposits[u].amount = old.amount /\ old.amount > 0
  BY AbstractedAmount, AbstractionOfUser DEF IsOpen
<1> HIDE DEF old
<1>4. Abstracted(NoRequest, vault.nav_epoch) = Async!Closed
  BY ClosedAbstraction DEF Async!Closed
<1>5. Deposits' = [Deposits EXCEPT ![u] = Async!Closed] /\ Withdrawals' = Withdrawals
  BY <1>1, <1>4, DepositAbstractionMoves
<1>6. UNCHANGED <<Withdrawals, vault.nav_per_share, share_balances>>
  BY <1>1, <1>5
<1>7. wallets' = [wallets EXCEPT ![u] = @ + Deposits[u].amount] /\ Deposits[u].amount > 0
  BY <1>1, <1>2
<1> QED BY <1>5, <1>6, <1>7, Zenon DEF Async!RefundDeposit, Deposits, Withdrawals

\* A cancelled or rejected withdrawal is refunded in full.
LEMMA RefundWithdrawalSimulated ==
  ASSUME TypeOK, NEW u \in Users, IsOpen(withdrawal_requests[u]), ReturnShares(u)
  PROVE  Async!RefundWithdrawal(u)
<1> DEFINE old == withdrawal_requests[u]
<1>1. /\ vault'.nav_epoch = vault.nav_epoch /\ vault'.nav_per_share = vault.nav_per_share
      /\ withdrawal_requests' = [withdrawal_requests EXCEPT ![u] = NoRequest]
      /\ deposit_requests' = deposit_requests
      /\ wallets' = wallets
      /\ share_balances' = [share_balances EXCEPT ![u] = @ + old.amount]
  BY DEF ReturnShares, TypeOK, Books
<1>2. Withdrawals[u].amount = old.amount /\ old.amount > 0
  BY AbstractedAmount, AbstractionOfUser DEF IsOpen
<1> HIDE DEF old
<1>4. Abstracted(NoRequest, vault.nav_epoch) = Async!Closed
  BY ClosedAbstraction DEF Async!Closed
<1>5. Withdrawals' = [Withdrawals EXCEPT ![u] = Async!Closed] /\ Deposits' = Deposits
  BY <1>1, <1>4, WithdrawalAbstractionMoves
<1>6. UNCHANGED <<Deposits, vault.nav_per_share, wallets>>
  BY <1>1, <1>5
<1>7. share_balances' = [share_balances EXCEPT ![u] = @ + Withdrawals[u].amount] /\ Withdrawals[u].amount > 0
  BY <1>1, <1>2
<1> QED BY <1>5, <1>6, <1>7, Zenon DEF Async!RefundWithdrawal, Deposits, Withdrawals

\* Every instruction on a request is a step of the abstract lifecycle.
LEMMA RequestStepSimulated ==
  ASSUME TypeOK, EpochsAreOrdered, NEW u \in Users, RequestStep(u)
  PROVE  Async!Next
<1>1. ASSUME NEW amount \in DepositAmounts, DepositRequestCreate(u, amount) PROVE Async!Next
  BY <1>1, SubmitDepositSimulated, Zenon DEF Async!Next
<1>2. ASSUME NEW amount \in ShareAmounts, WithdrawalRequestCreate(u, amount) PROVE Async!Next
  BY <1>2, SubmitWithdrawalSimulated, Zenon DEF Async!Next
<1>3. CASE DepositRequestResolve(u)
  BY <1>3, SettleDepositSimulated, Zenon DEF Async!Next
<1>4. CASE WithdrawalRequestResolve(u)
  BY <1>4, SettleWithdrawalSimulated, Zenon DEF Async!Next
<1>5. CASE DepositRequestCancel(u) \/ DepositRequestReject(u)
  <2>1. IsOpen(deposit_requests[u]) /\ RefundDeposit(u)
    BY <1>5 DEF DepositRequestCancel, DepositRequestReject, DepositIsCancellable
  <2> QED BY <2>1, RefundDepositSimulated, Zenon DEF Async!Next
<1>6. CASE WithdrawalRequestCancel(u) \/ WithdrawalRequestReject(u)
  <2>1. IsOpen(withdrawal_requests[u]) /\ ReturnShares(u)
    BY <1>6 DEF WithdrawalRequestCancel, WithdrawalRequestReject, WithdrawalIsCancellable
  <2> QED BY <2>1, RefundWithdrawalSimulated, Zenon DEF Async!Next
<1> QED BY <1>1, <1>2, <1>3, <1>4, <1>5, <1>6 DEF RequestStep

\* A NAV of a later epoch prices open requests and unprices none.
LEMMA PricedByNav ==
  ASSUME NEW old_epoch \in Nat, NEW new_epoch \in Nat, old_epoch <= new_epoch,
         NEW open \in [Users -> Requests]
  PROVE  \E chosen \in SUBSET Users :
           [v \in Users |-> Abstracted(open[v], new_epoch)]
             = Async!Priced([v \in Users |-> Abstracted(open[v], old_epoch)], chosen)
<1> DEFINE chosen == {v \in Users : new_epoch > open[v].epoch}
           old == [v \in Users |-> Abstracted(open[v], old_epoch)]
<1>1. ASSUME NEW v \in Users
      PROVE  Abstracted(open[v], new_epoch)
               = [old[v] EXCEPT !.priced = @ \/ (v \in chosen /\ old[v].amount > 0)]
  <2> DEFINE request == open[v]
             was == IsOpen(request) /\ old_epoch > request.epoch
             is == IsOpen(request) /\ new_epoch > request.epoch
  <2>1. request.amount \in U64 /\ request.epoch \in Nat /\ request.amount \in Nat
    BY ConstantsAreNat DEF Requests
  <2>2. old[v] = [amount |-> request.amount, priced |-> was]
    BY DEF Abstracted
  <2>3. is <=> was \/ (v \in chosen /\ request.amount > 0)
    BY <2>1 DEF IsOpen
  <2>4. Abstracted(request, new_epoch) = [amount |-> request.amount, priced |-> is]
    BY DEF Abstracted
  <2>5. is \in BOOLEAN /\ was \in BOOLEAN
    BY DEF IsOpen
  <2> HIDE DEF request, was, is, chosen, old
  <2>6. (was \/ (v \in chosen /\ request.amount > 0)) = is
    BY <2>3, <2>5, Zenon
  <2>7. old[v].amount = request.amount /\ old[v].priced = was
    BY <2>2
  <2>8. [old[v] EXCEPT !.priced = @ \/ (v \in chosen /\ old[v].amount > 0)]
          = [amount |-> request.amount, priced |-> (was \/ (v \in chosen /\ request.amount > 0))]
    BY <2>2
  <2> QED BY <2>4, <2>6, <2>8 DEF request
<1>2. [v \in Users |-> Abstracted(open[v], new_epoch)] = Async!Priced(old, chosen)
  BY <1>1, Zenon DEF Async!Priced
<1> QED BY <1>2

\* A NAV update posts a price.
LEMMA NavSimulated ==
  ASSUME TypeOK, TypeOK', EpochsAreOrdered, NEW total_assets \in ReportedTotals,
         NavPostedAt(total_assets)
  PROVE  Async!Next
<1>1. PICK max_deviation_bps : UpdateNav(total_assets, max_deviation_bps)
  BY DEF NavPostedAt, NavUpdate, NavOverride
<1>2. /\ NavIsDue
      /\ UNCHANGED <<now, config, params, requests, balances>>
      /\ \/ EmptyUpdate(total_assets)
         \/ \E owed, settlement : SettledUpdate(total_assets, owed, settlement)
      /\ total_assets \in U64
  BY <1>1, NavUpdateOutcomes
<1>3. vault'.nav_epoch = Epoch(now)
  BY <1>2, EmptyUpdateFields, SettledUpdateFields
<1>4. vault.nav_epoch \in Nat /\ vault'.nav_epoch \in Nat /\ vault'.nav_per_share \in Nat
  <2>1. vault.nav_epoch \in Nat
    BY FieldsAreTyped
  <2>2. vault'.nav_epoch \in Nat /\ vault'.nav_per_share \in U64
    BY DEF TypeOK, Books
  <2> QED BY <2>1, <2>2, ConstantsAreNat
<1>5. vault.nav_epoch <= vault'.nav_epoch
  BY <1>2, <1>3, <1>4 DEF NavIsDue
<1>6. /\ deposit_requests' = deposit_requests /\ withdrawal_requests' = withdrawal_requests
      /\ wallets' = wallets /\ share_balances' = share_balances
      /\ deposit_requests \in [Users -> Requests] /\ withdrawal_requests \in [Users -> Requests]
  BY <1>2 DEF requests, balances, TypeOK
<1>7. \E chosen \in SUBSET Users : Deposits' = Async!Priced(Deposits, chosen)
  <2>1. /\ Deposits = [v \in Users |-> Abstracted(deposit_requests[v], vault.nav_epoch)]
        /\ Deposits' = [v \in Users |-> Abstracted(deposit_requests[v], vault'.nav_epoch)]
    BY <1>6, AbstractionByUser
  <2>2. \E chosen \in SUBSET Users :
          [v \in Users |-> Abstracted(deposit_requests[v], vault'.nav_epoch)]
            = Async!Priced([v \in Users |-> Abstracted(deposit_requests[v], vault.nav_epoch)], chosen)
    BY <1>4, <1>5, <1>6, PricedByNav
  <2> QED BY <2>1, <2>2, Zenon
<1>8. \E chosen \in SUBSET Users : Withdrawals' = Async!Priced(Withdrawals, chosen)
  <2>1. /\ Withdrawals = [v \in Users |-> Abstracted(withdrawal_requests[v], vault.nav_epoch)]
        /\ Withdrawals' = [v \in Users |-> Abstracted(withdrawal_requests[v], vault'.nav_epoch)]
    BY <1>6, AbstractionByUser
  <2>2. \E chosen \in SUBSET Users :
          [v \in Users |-> Abstracted(withdrawal_requests[v], vault'.nav_epoch)]
            = Async!Priced([v \in Users |-> Abstracted(withdrawal_requests[v], vault.nav_epoch)], chosen)
    BY <1>4, <1>5, <1>6, PricedByNav
  <2> QED BY <2>1, <2>2, Zenon
<1>9. Async!Post
  BY <1>4, <1>6, <1>7, <1>8, Zenon DEF Async!Post, Deposits, Withdrawals
<1> QED BY <1>9, Zenon DEF Async!Next

\* Every other step keeps the requests and the price.
LEMMA OtherStepsSimulated ==
  ASSUME TypeOK, TypeOK', VaultClaimManagerFee \/ ConfigClaimPlatformFee \/ BooksKept
  PROVE  Async!Next
<1>1. /\ deposit_requests' = deposit_requests /\ withdrawal_requests' = withdrawal_requests
      /\ vault'.nav_epoch = vault.nav_epoch /\ vault'.nav_per_share = vault.nav_per_share
  BY DEF VaultClaimManagerFee, ManagerFeeClaimed, ConfigClaimPlatformFee, BooksKept, requests,
         TypeOK, Books
<1>2. Deposits' = Deposits /\ Withdrawals' = Withdrawals
  BY <1>1, AbstractionByUser
<1> QED BY <1>1, <1>2, KeptRequestsMoveBalances DEF RequestsKept

\* Every behaviour of the vault is one of AsyncVault: no interleaving of
\* instructions, pauses, fees or direct transfers lets a request be changed,
\* lost, or settled off the posted price.
THEOREM VaultImplementsAsyncVault == Spec => ImplementsAsyncVault
<1>1. Init => Async!Init
  BY AbstractInit
<1>2. TypeOK /\ TypeOK' /\ EpochsAreOrdered /\ [Next]_vars => [Async!Next]_(Async!avars)
  <2> SUFFICES ASSUME TypeOK, TypeOK', EpochsAreOrdered, [Next]_vars PROVE Async!Next
    OBVIOUS
  <2>1. \/ \E u \in Users : RequestStep(u)
        \/ \E total_assets \in ReportedTotals : NavPostedAt(total_assets)
        \/ VaultClaimManagerFee \/ ConfigClaimPlatformFee
        \/ BooksKept
    BY StepKinds
  <2> QED BY <2>1, RequestStepSimulated, NavSimulated, OtherStepsSimulated
<1>3. ImplementsAsyncVault <=> Async!Spec
  BY DEF ImplementsAsyncVault
<1> QED BY <1>1, <1>2, <1>3, TypeCorrectness, EpochsStayOrdered, PTL DEF Spec, Async!Spec
=============================================================================
