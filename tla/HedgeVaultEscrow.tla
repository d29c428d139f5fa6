--------------------------- MODULE HedgeVaultEscrow ---------------------------
(***************************************************************************)
(* The open requests of a vault, its pending totals, its escrows and the   *)
(* share mint always agree, for every value of the constants: so no open   *)
(* request can get stuck on a checked subtraction or an empty escrow.      *)
(***************************************************************************)
EXTENDS HedgeVaultProofs

\* There are finitely many users.
LEMMA UsersAreFinite == IsFiniteSet(Users)
BY UsersAssumption

\* The balances and the pending totals are natural numbers.
LEMMA BalancesAreNat ==
  ASSUME TypeOK
  PROVE  /\ vault.pending_deposits \in Nat /\ vault.pending_withdrawal_shares \in Nat
         /\ deposit_escrow \in Nat /\ share_escrow \in Nat /\ idle \in Nat
         /\ share_supply \in Nat
         /\ share_balances \in [Users -> Nat]
         /\ deposit_requests \in [Users -> Requests]
         /\ withdrawal_requests \in [Users -> Requests]
BY ConstantsAreNat, FieldsAreTyped DEF TypeOK

-----------------------------------------------------------------------------
(* The sum of the open requests. *)

\* The amounts of typed requests are natural numbers.
LEMMA AmountsAreNat ==
  ASSUME NEW open_requests \in [Users -> Requests]
  PROVE  [v \in Users |-> open_requests[v].amount] \in [Users -> Nat]
BY ConstantsAreNat DEF Requests

\* The sum is a natural number that no single request exceeds.
LEMMA RequestedBoundsAmounts ==
  ASSUME NEW open_requests \in [Users -> Requests]
  PROVE  /\ Requested(open_requests) \in Nat
         /\ \A u \in Users : open_requests[u].amount <= Requested(open_requests)
<1> DEFINE amounts == [v \in Users |-> open_requests[v].amount]
<1>1. amounts \in [Users -> Nat]
  BY AmountsAreNat
<1>2. \A u \in Users : amounts[u] = open_requests[u].amount
  OBVIOUS
<1> HIDE DEF amounts
<1>3. Total(amounts) \in Nat /\ \A u \in Users : amounts[u] <= Total(amounts)
  BY <1>1, UsersAreFinite, TotalBoundsValues
<1>4. Requested(open_requests) = Total(amounts)
  BY DEF Requested, amounts
<1> QED BY <1>2, <1>3, <1>4

\* A change of one request changes the sum by the difference of its amounts.
LEMMA RequestedOfUpdate ==
  ASSUME NEW open_requests \in [Users -> Requests], NEW u \in Users,
         NEW request \in Requests
  PROVE  Requested([open_requests EXCEPT ![u] = request])
           = Requested(open_requests) - open_requests[u].amount + request.amount
<1> DEFINE amounts == [v \in Users |-> open_requests[v].amount]
           changed == [open_requests EXCEPT ![u] = request]
<1>1. amounts \in [Users -> Nat] /\ amounts[u] = open_requests[u].amount
  BY AmountsAreNat
<1>2. request.amount \in Nat
  BY ConstantsAreNat DEF Requests
<1>3. [v \in Users |-> changed[v].amount] = [amounts EXCEPT ![u] = request.amount]
  OBVIOUS
<1>4. Requested(open_requests) = Total(amounts)
  BY DEF Requested
<1>5. Requested(changed) = Total([amounts EXCEPT ![u] = request.amount])
  BY <1>3 DEF Requested
<1> HIDE DEF amounts, changed
<1>6. Total([amounts EXCEPT ![u] = request.amount]) = Total(amounts) - amounts[u] + request.amount
  BY <1>1, <1>2, UsersAreFinite, TotalOfUpdate
<1>7. Requested(changed) = Requested(open_requests) - open_requests[u].amount + request.amount
  BY <1>1, <1>4, <1>5, <1>6
<1> QED BY <1>7 DEF changed

\* A request that grows by an amount adds it to the sum.
LEMMA RequestedOfAccumulation ==
  ASSUME NEW open_requests \in [Users -> Requests], NEW u \in Users, NEW amount \in Nat,
         Accumulated(open_requests[u], amount) \in Requests
  PROVE  Requested([open_requests EXCEPT ![u] = Accumulated(@, amount)])
           = Requested(open_requests) + amount
<1> DEFINE old == open_requests[u]
           new == Accumulated(old, amount)
<1>1. new.amount = old.amount + amount /\ old.amount \in Nat
  BY ConstantsAreNat DEF Accumulated, Requests
<1>2. [open_requests EXCEPT ![u] = Accumulated(@, amount)] = [open_requests EXCEPT ![u] = new]
  OBVIOUS
<1>3. new \in Requests
  OBVIOUS
<1> HIDE DEF new
<1>4. Requested([open_requests EXCEPT ![u] = new])
        = Requested(open_requests) - old.amount + new.amount
  BY <1>3, RequestedOfUpdate
<1>5. Requested(open_requests) \in Nat
  BY RequestedBoundsAmounts
<1> QED BY <1>1, <1>2, <1>4, <1>5

\* A request that is closed takes its amount off the sum.
LEMMA RequestedOfClosing ==
  ASSUME NEW open_requests \in [Users -> Requests], NEW u \in Users
  PROVE  Requested([open_requests EXCEPT ![u] = NoRequest])
           = Requested(open_requests) - open_requests[u].amount
<1>1. NoRequest \in Requests /\ NoRequest.amount = 0 /\ open_requests[u].amount \in Nat
  BY ConstantsAreNat DEF NoRequest, Requests
<1>2. Requested([open_requests EXCEPT ![u] = NoRequest])
        = Requested(open_requests) - open_requests[u].amount + NoRequest.amount
  BY <1>1, RequestedOfUpdate
<1>3. Requested(open_requests) \in Nat
  BY RequestedBoundsAmounts
<1> QED BY <1>1, <1>2, <1>3

-----------------------------------------------------------------------------
(* What a step may do to the requests of one kind and to what stands for     *)
(* them: the pending total and the escrow.                                   *)

DepositMade(u, amount) ==
  /\ Accumulated(deposit_requests[u], amount) \in Requests
  /\ deposit_requests' = [deposit_requests EXCEPT ![u] = Accumulated(@, amount)]
  /\ vault'.pending_deposits = vault.pending_deposits + amount
  /\ deposit_escrow' = deposit_escrow + amount

DepositReleased(u) ==
  /\ deposit_requests' = [deposit_requests EXCEPT ![u] = NoRequest]
  /\ vault'.pending_deposits = vault.pending_deposits - deposit_requests[u].amount
  /\ deposit_escrow' = deposit_escrow - deposit_requests[u].amount

DepositsKept ==
  /\ deposit_requests' = deposit_requests
  /\ vault'.pending_deposits = vault.pending_deposits
  /\ deposit_escrow' >= deposit_escrow

DepositsStep ==
  \/ \E u \in Users, amount \in Nat : DepositMade(u, amount)
  \/ \E u \in Users : DepositReleased(u)
  \/ DepositsKept

WithdrawalMade(u, amount) ==
  /\ Accumulated(withdrawal_requests[u], amount) \in Requests
  /\ withdrawal_requests' = [withdrawal_requests EXCEPT ![u] = Accumulated(@, amount)]
  /\ vault'.pending_withdrawal_shares = vault.pending_withdrawal_shares + amount
  /\ share_escrow' = share_escrow + amount

WithdrawalReleased(u) ==
  /\ withdrawal_requests' = [withdrawal_requests EXCEPT ![u] = NoRequest]
  /\ vault'.pending_withdrawal_shares
       = vault.pending_withdrawal_shares - withdrawal_requests[u].amount
  /\ share_escrow' = share_escrow - withdrawal_requests[u].amount

WithdrawalsKept ==
  /\ withdrawal_requests' = withdrawal_requests
  /\ vault'.pending_withdrawal_shares = vault.pending_withdrawal_shares
  /\ share_escrow' >= share_escrow

WithdrawalsStep ==
  \/ \E u \in Users, amount \in Nat : WithdrawalMade(u, amount)
  \/ \E u \in Users : WithdrawalReleased(u)
  \/ WithdrawalsKept

\* A request that accumulates stays typed.
LEMMA AccumulationIsTyped ==
  ASSUME NEW request \in Requests, NEW amount \in Nat,
         request.amount + amount \in U64, now \in Nat
  PROVE  Accumulated(request, amount) \in Requests
BY EpochIsMonotone DEF Accumulated, Requests

\* An instruction on a deposit request moves request, total and escrow together
\* and leaves the withdrawals alone.
LEMMA DepositInstructions ==
  ASSUME TypeOK, NEW u \in Users,
         \/ \E amount \in DepositAmounts : DepositRequestCreate(u, amount)
         \/ DepositRequestResolve(u) \/ RefundDeposit(u)
  PROVE  DepositsStep /\ WithdrawalsKept
<1>1. vault \in Books /\ now \in Nat /\ share_escrow \in Nat /\ deposit_requests[u] \in Requests
  BY DEF TypeOK
<1>2. ASSUME NEW amount \in DepositAmounts, DepositRequestCreate(u, amount)
      PROVE  DepositsStep /\ WithdrawalsKept
  <2>1. amount \in Nat
    BY InputsAssumption, ConstantsAreNat
  <2>2. Accumulated(deposit_requests[u], amount) \in Requests
    BY <1>1, <1>2, <2>1, AccumulationIsTyped DEF DepositRequestCreate
  <2>3. /\ deposit_requests' = [deposit_requests EXCEPT ![u] = Accumulated(@, amount)]
        /\ vault' = [vault EXCEPT !.pending_deposits = @ + amount]
        /\ deposit_escrow' = deposit_escrow + amount
        /\ withdrawal_requests' = withdrawal_requests /\ share_escrow' = share_escrow
    BY <1>2 DEF DepositRequestCreate
  <2>4. /\ vault'.pending_deposits = vault.pending_deposits + amount
        /\ vault'.pending_withdrawal_shares = vault.pending_withdrawal_shares
    BY <1>1, <2>3 DEF Books
  <2>5. WithdrawalsKept
    BY <1>1, <2>3, <2>4 DEF WithdrawalsKept
  <2>6. DepositMade(u, amount)
    BY <2>2, <2>3, <2>4 DEF DepositMade
  <2> QED BY <2>1, <2>5, <2>6 DEF DepositsStep
<1>3. CASE DepositRequestResolve(u)
  <2>1. DepositReleased(u)
    BY <1>1, <1>3 DEF DepositRequestResolve, DepositBooked, DepositReleased, Books
  <2>2. WithdrawalsKept
    BY <1>1, <1>3 DEF DepositRequestResolve, DepositBooked, WithdrawalsKept, Books
  <2> QED BY <2>1, <2>2 DEF DepositsStep
<1>4. CASE RefundDeposit(u)
  <2>1. DepositReleased(u)
    BY <1>1, <1>4 DEF RefundDeposit, DepositReleased, Books
  <2>2. WithdrawalsKept
    BY <1>1, <1>4 DEF RefundDeposit, WithdrawalsKept, Books
  <2> QED BY <2>1, <2>2 DEF DepositsStep
<1> QED BY <1>2, <1>3, <1>4

\* The same for an instruction on a withdrawal request.
LEMMA WithdrawalInstructions ==
  ASSUME TypeOK, NEW u \in Users,
         \/ \E amount \in ShareAmounts : WithdrawalRequestCreate(u, amount)
         \/ WithdrawalRequestResolve(u) \/ ReturnShares(u)
  PROVE  WithdrawalsStep /\ DepositsKept
<1>1. /\ vault \in Books /\ now \in Nat /\ deposit_escrow \in Nat
      /\ withdrawal_requests[u] \in Requests
  BY DEF TypeOK
<1>2. ASSUME NEW amount \in ShareAmounts, WithdrawalRequestCreate(u, amount)
      PROVE  WithdrawalsStep /\ DepositsKept
  <2>1. amount \in Nat
    BY InputsAssumption, ConstantsAreNat
  <2>2. Accumulated(withdrawal_requests[u], amount) \in Requests
    BY <1>1, <1>2, <2>1, AccumulationIsTyped DEF WithdrawalRequestCreate
  <2>3. /\ withdrawal_requests' = [withdrawal_requests EXCEPT ![u] = Accumulated(@, amount)]
        /\ vault' = [vault EXCEPT !.pending_withdrawal_shares = @ + amount]
        /\ share_escrow' = share_escrow + amount
        /\ deposit_requests' = deposit_requests /\ deposit_escrow' = deposit_escrow
    BY <1>2 DEF WithdrawalRequestCreate
  <2>4. /\ vault'.pending_withdrawal_shares = vault.pending_withdrawal_shares + amount
        /\ vault'.pending_deposits = vault.pending_deposits
    BY <1>1, <2>3 DEF Books
  <2>5. DepositsKept
    BY <1>1, <2>3, <2>4 DEF DepositsKept
  <2>6. WithdrawalMade(u, amount)
    BY <2>2, <2>3, <2>4 DEF WithdrawalMade
  <2> QED BY <2>1, <2>5, <2>6 DEF WithdrawalsStep
<1>3. CASE WithdrawalRequestResolve(u)
  <2>1. WithdrawalReleased(u)
    BY <1>1, <1>3 DEF WithdrawalRequestResolve, WithdrawalBooked, WithdrawalReleased, Books
  <2>2. DepositsKept
    BY <1>1, <1>3 DEF WithdrawalRequestResolve, WithdrawalBooked, DepositsKept, Books
  <2> QED BY <2>1, <2>2 DEF WithdrawalsStep
<1>4. CASE ReturnShares(u)
  <2>1. WithdrawalReleased(u)
    BY <1>1, <1>4 DEF ReturnShares, WithdrawalReleased, Books
  <2>2. DepositsKept
    BY <1>1, <1>4 DEF ReturnShares, DepositsKept, Books
  <2> QED BY <2>1, <2>2 DEF WithdrawalsStep
<1> QED BY <1>2, <1>3, <1>4

\* A NAV update keeps the pending totals, the requests and the balances.
LEMMA NavKeepsPending ==
  ASSUME TypeOK, NavStep
  PROVE  /\ vault'.pending_deposits = vault.pending_deposits
         /\ vault'.pending_withdrawal_shares = vault.pending_withdrawal_shares
         /\ UNCHANGED <<requests, balances>>
<1>1. PICK total_assets, max_deviation_bps : UpdateNav(total_assets, max_deviation_bps)
  BY DEF NavStep, NavUpdate, NavOverride
<1>2. vault \in Books
  BY DEF TypeOK
<1> DEFINE settlement == NavSettlement(total_assets, Supply, FeesOwed(total_assets))
<1>3. \E books \in {EmptyVaultBooks, SettledBooks(settlement)} :
        vault' = [books EXCEPT !.total_assets = total_assets, !.nav_epoch = Epoch(now),
                               !.last_nav_ts = now, !.epoch_outflow = 0]
  BY <1>1 DEF UpdateNav
<1>4. UNCHANGED <<requests, balances>>
  BY <1>1 DEF UpdateNav
<1> HIDE DEF settlement
<1> QED BY <1>2, <1>3, <1>4 DEF EmptyVaultBooks, SettledBooks, Books

\* A claim keeps them too, but for the balance it credits.
LEMMA ClaimsKeepPending ==
  ASSUME TypeOK, VaultClaimManagerFee \/ ConfigClaimPlatformFee
  PROVE  DepositsKept /\ WithdrawalsKept
<1>1. vault \in Books /\ deposit_escrow \in Nat /\ share_escrow \in Nat
  BY DEF TypeOK
<1>2. CASE VaultClaimManagerFee
  BY <1>1, <1>2 DEF VaultClaimManagerFee, ManagerFeeClaimed, DepositsKept, WithdrawalsKept,
     requests, Books
<1>3. CASE ConfigClaimPlatformFee
  BY <1>1, <1>3 DEF ConfigClaimPlatformFee, DepositsKept, WithdrawalsKept, requests, Books
<1> QED BY <1>2, <1>3

\* Instructions of the token program only add to the escrows.
LEMMA SplStepsKeepPending ==
  ASSUME TypeOK, SplStep
  PROVE  DepositsKept /\ WithdrawalsKept
<1>1. PICK u \in Users, amount \in SplAmounts :
        \/ SplTransferToIdle(u, amount)
        \/ SplTransferToDepositEscrow(u, amount)
        \/ SplTransferToShareEscrow(u, amount)
        \/ \E to \in Users : SplTransferShares(u, to, amount)
        \/ SplBurnShares(u, amount)
  BY DEF SplStep
<1>2. amount \in Nat /\ deposit_escrow \in Nat /\ share_escrow \in Nat
  BY InputsAssumption DEF TypeOK
<1>3. UNCHANGED <<vault, requests>>
  BY <1>1 DEF SplTransferToIdle, SplTransferToDepositEscrow, SplTransferToShareEscrow,
     SplTransferShares, SplBurnShares
<1>4. deposit_escrow' \in {deposit_escrow, deposit_escrow + amount}
  BY <1>1 DEF SplTransferToIdle, SplTransferToDepositEscrow, SplTransferToShareEscrow,
     SplTransferShares, SplBurnShares
<1>5. share_escrow' \in {share_escrow, share_escrow + amount}
  BY <1>1 DEF SplTransferToIdle, SplTransferToDepositEscrow, SplTransferToShareEscrow,
     SplTransferShares, SplBurnShares
<1> QED BY <1>2, <1>3, <1>4, <1>5 DEF DepositsKept, WithdrawalsKept, requests

\* Every other step leaves the books, the requests and the escrows alone.
LEMMA SettingsKeepPending ==
  ASSUME TypeOK,
         \/ UNCHANGED vars \/ Tick \/ VaultPause \/ ConfigPause
         \/ \E args : VaultUpdate(args)
         \/ \E args : ConfigUpdate(args)
         \/ \E amount : DeployIdle(amount) \/ ReturnIdle(amount)
  PROVE  /\ DepositsKept /\ WithdrawalsKept
         /\ UNCHANGED <<share_balances, share_escrow, share_supply>>
<1>1. deposit_escrow \in Nat /\ share_escrow \in Nat
  BY DEF TypeOK
<1>2. ASSUME \E amount : DeployIdle(amount) \/ ReturnIdle(amount)
      PROVE  UNCHANGED <<vault, requests, deposit_escrow, share_balances, share_escrow, share_supply>>
  BY <1>2 DEF DeployIdle, ReturnIdle
<1>3. ASSUME \/ UNCHANGED vars \/ Tick \/ VaultPause \/ ConfigPause
             \/ \E args : VaultUpdate(args)
             \/ \E args : ConfigUpdate(args)
      PROVE  UNCHANGED <<vault, requests, balances>>
  BY <1>3 DEF vars, Tick, VaultPause, ConfigPause, VaultUpdate, ConfigUpdate
<1>4. UNCHANGED <<vault, requests, deposit_escrow, share_balances, share_escrow, share_supply>>
  BY <1>2, <1>3 DEF balances
<1> QED BY <1>1, <1>4 DEF DepositsKept, WithdrawalsKept, requests

\* Every step of the vault is one of those, for deposits and for withdrawals.
LEMMA PendingStep ==
  ASSUME TypeOK, [Next]_vars
  PROVE  DepositsStep /\ WithdrawalsStep
<1>1. ASSUME DepositsKept, WithdrawalsKept PROVE DepositsStep /\ WithdrawalsStep
  BY <1>1 DEF DepositsStep, WithdrawalsStep
<1>2. CASE \E u \in Users : RequestStep(u)
  <2>1. PICK u \in Users : RequestStep(u)
    BY <1>2
  <2>2. \/ \/ \E amount \in DepositAmounts : DepositRequestCreate(u, amount)
           \/ DepositRequestResolve(u) \/ RefundDeposit(u)
        \/ \/ \E amount \in ShareAmounts : WithdrawalRequestCreate(u, amount)
           \/ WithdrawalRequestResolve(u) \/ ReturnShares(u)
    BY <2>1 DEF RequestStep, DepositRequestCancel, DepositRequestReject,
       WithdrawalRequestCancel, WithdrawalRequestReject
  <2> QED BY <2>2, DepositInstructions, WithdrawalInstructions DEF DepositsStep, WithdrawalsStep
<1>3. CASE NavStep
  <2>1. deposit_escrow \in Nat /\ share_escrow \in Nat
    BY DEF TypeOK
  <2> QED BY <1>1, <1>3, <2>1, NavKeepsPending DEF DepositsKept, WithdrawalsKept, requests, balances
<1>4. CASE VaultClaimManagerFee \/ ConfigClaimPlatformFee
  BY <1>1, <1>4, ClaimsKeepPending
<1>5. CASE SplStep
  BY <1>1, <1>5, SplStepsKeepPending
<1> QED BY <1>1, <1>2, <1>3, <1>4, <1>5, SettingsKeepPending DEF Next, ManagerStep, ProtocolStep

-----------------------------------------------------------------------------
(* Requests, pending totals and escrows. *)

\* A new vault has no requests.
LEMMA EscrowInit == Init => RequestsAreEscrowed
<1> SUFFICES ASSUME Init PROVE RequestsAreEscrowed
  OBVIOUS
<1>1. /\ deposit_requests = [u \in Users |-> NoRequest]
      /\ withdrawal_requests = [u \in Users |-> NoRequest]
      /\ vault.pending_deposits = 0 /\ vault.pending_withdrawal_shares = 0
      /\ deposit_escrow = 0 /\ share_escrow = 0
  BY DEF Init
<1>2. [u \in Users |-> [v \in Users |-> NoRequest][u].amount] = [u \in Users |-> 0]
  BY DEF NoRequest
<1>3. Requested([u \in Users |-> NoRequest]) = 0
  BY <1>2, TotalOfZeros DEF Requested
<1> QED BY <1>1, <1>3 DEF RequestsAreEscrowed

\* Deposits stay escrowed.
LEMMA DepositsStayEscrowed ==
  ASSUME TypeOK, RequestsAreEscrowed, DepositsStep, deposit_escrow' \in Nat
  PROVE  /\ Requested(deposit_requests') = vault'.pending_deposits
         /\ deposit_escrow' >= vault'.pending_deposits
<1>1. /\ Requested(deposit_requests) = vault.pending_deposits
      /\ deposit_escrow >= vault.pending_deposits
  BY DEF RequestsAreEscrowed
<1>2. /\ vault.pending_deposits \in Nat /\ deposit_escrow \in Nat
      /\ deposit_requests \in [Users -> Requests]
  BY BalancesAreNat
<1>3. ASSUME NEW u \in Users, NEW amount \in Nat, DepositMade(u, amount)
      PROVE  /\ Requested(deposit_requests') = vault'.pending_deposits
             /\ deposit_escrow' >= vault'.pending_deposits
  <2>1. Requested(deposit_requests') = Requested(deposit_requests) + amount
    BY <1>2, <1>3, RequestedOfAccumulation DEF DepositMade
  <2>2. /\ vault'.pending_deposits = vault.pending_deposits + amount
        /\ deposit_escrow' = deposit_escrow + amount
    BY <1>3 DEF DepositMade
  <2> QED BY <1>1, <1>2, <2>1, <2>2
<1>4. ASSUME NEW u \in Users, DepositReleased(u)
      PROVE  /\ Requested(deposit_requests') = vault'.pending_deposits
             /\ deposit_escrow' >= vault'.pending_deposits
  <2>1. Requested(deposit_requests') = Requested(deposit_requests) - deposit_requests[u].amount
    BY <1>2, <1>4, RequestedOfClosing DEF DepositReleased
  <2>2. /\ vault'.pending_deposits = vault.pending_deposits - deposit_requests[u].amount
        /\ deposit_escrow' = deposit_escrow - deposit_requests[u].amount
    BY <1>4 DEF DepositReleased
  <2>3. deposit_requests[u].amount \in Nat
    BY NumbersAreNat
  <2> QED BY <1>1, <1>2, <2>1, <2>2, <2>3
<1>5. CASE DepositsKept
  BY <1>1, <1>2, <1>5 DEF DepositsKept
<1> QED BY <1>3, <1>4, <1>5 DEF DepositsStep

\* Requested shares stay escrowed.
LEMMA WithdrawalsStayEscrowed ==
  ASSUME TypeOK, RequestsAreEscrowed, WithdrawalsStep, share_escrow' \in Nat
  PROVE  /\ Requested(withdrawal_requests') = vault'.pending_withdrawal_shares
         /\ share_escrow' >= vault'.pending_withdrawal_shares
<1>1. /\ Requested(withdrawal_requests) = vault.pending_withdrawal_shares
      /\ share_escrow >= vault.pending_withdrawal_shares
  BY DEF RequestsAreEscrowed
<1>2. /\ vault.pending_withdrawal_shares \in Nat /\ share_escrow \in Nat
      /\ withdrawal_requests \in [Users -> Requests]
  BY BalancesAreNat
<1>3. ASSUME NEW u \in Users, NEW amount \in Nat, WithdrawalMade(u, amount)
      PROVE  /\ Requested(withdrawal_requests') = vault'.pending_withdrawal_shares
             /\ share_escrow' >= vault'.pending_withdrawal_shares
  <2>1. Requested(withdrawal_requests') = Requested(withdrawal_requests) + amount
    BY <1>2, <1>3, RequestedOfAccumulation DEF WithdrawalMade
  <2>2. /\ vault'.pending_withdrawal_shares = vault.pending_withdrawal_shares + amount
        /\ share_escrow' = share_escrow + amount
    BY <1>3 DEF WithdrawalMade
  <2> QED BY <1>1, <1>2, <2>1, <2>2
<1>4. ASSUME NEW u \in Users, WithdrawalReleased(u)
      PROVE  /\ Requested(withdrawal_requests') = vault'.pending_withdrawal_shares
             /\ share_escrow' >= vault'.pending_withdrawal_shares
  <2>1. Requested(withdrawal_requests')
          = Requested(withdrawal_requests) - withdrawal_requests[u].amount
    BY <1>2, <1>4, RequestedOfClosing DEF WithdrawalReleased
  <2>2. /\ vault'.pending_withdrawal_shares
             = vault.pending_withdrawal_shares - withdrawal_requests[u].amount
        /\ share_escrow' = share_escrow - withdrawal_requests[u].amount
    BY <1>4 DEF WithdrawalReleased
  <2>3. withdrawal_requests[u].amount \in Nat
    BY NumbersAreNat
  <2> QED BY <1>1, <1>2, <2>1, <2>2, <2>3
<1>5. CASE WithdrawalsKept
  BY <1>1, <1>2, <1>5 DEF WithdrawalsKept
<1> QED BY <1>3, <1>4, <1>5 DEF WithdrawalsStep

\* Every step keeps requests, pending totals and escrows in agreement.
LEMMA EscrowStep ==
  ASSUME TypeOK, TypeOK', RequestsAreEscrowed, [Next]_vars
  PROVE  RequestsAreEscrowed'
<1>1. deposit_escrow' \in Nat /\ share_escrow' \in Nat
  BY DEF TypeOK
<1>2. DepositsStep /\ WithdrawalsStep
  BY PendingStep
<1>3. /\ Requested(deposit_requests)' = Requested(deposit_requests')
      /\ Requested(withdrawal_requests)' = Requested(withdrawal_requests')
  BY DEF Requested
<1> QED BY <1>1, <1>2, <1>3, DepositsStayEscrowed, WithdrawalsStayEscrowed DEF RequestsAreEscrowed

\* However create, resolve, cancel and reject of any number of users interleave
\* with NAV updates and with tokens sent straight to the escrows, the pending
\* totals are the sums of the open requests and the escrows cover them.
THEOREM RequestsStayEscrowed == Spec => []RequestsAreEscrowed
<1>1. TypeOK /\ TypeOK' /\ RequestsAreEscrowed /\ [Next]_vars => RequestsAreEscrowed'
  BY EscrowStep
<1> QED BY <1>1, EscrowInit, TypeCorrectness, PTL DEF Spec

-----------------------------------------------------------------------------
(* The share mint. *)

\* A new vault has no shares.
LEMMA SharesInit == Init => SharesAddUp
<1> SUFFICES ASSUME Init PROVE SharesAddUp
  OBVIOUS
<1>1. /\ share_balances = [u \in Users |-> 0]
      /\ share_escrow = 0 /\ share_supply = 0
  BY DEF Init
<1> QED BY <1>1, TotalOfZeros DEF SharesAddUp

\* A step that changes one balance keeps the sum if the escrow and the supply
\* make up for it.
LEMMA OneBalanceMoves ==
  ASSUME TypeOK, TypeOK', SharesAddUp, NEW u \in Users, NEW balance \in Nat,
         share_balances' = [share_balances EXCEPT ![u] = balance],
         balance - share_balances[u] + share_escrow' - share_escrow
           = share_supply' - share_supply
  PROVE  SharesAddUp'
<1>1. /\ share_balances \in [Users -> Nat] /\ share_escrow \in Nat /\ share_supply \in Nat
      /\ share_balances[u] \in Nat
  BY BalancesAreNat
<1>2. share_escrow' \in Nat /\ share_supply' \in Nat
  BY ConstantsAreNat DEF TypeOK
<1>3. Total(share_balances') = Total(share_balances) - share_balances[u] + balance
  BY <1>1, UsersAreFinite, TotalOfUpdate
<1>4. Total(share_balances) \in Nat
  BY <1>1, UsersAreFinite, TotalBoundsValues
<1>5. Total(share_balances) + share_escrow = share_supply
  BY DEF SharesAddUp
<1>6. Total(share_balances') + share_escrow' = share_supply'
  BY <1>1, <1>2, <1>3, <1>4, <1>5
<1> QED BY <1>6 DEF SharesAddUp, Total, Units

\* The instructions on requests and the claims keep the sum.
LEMMA RequestsKeepShares ==
  ASSUME TypeOK, TypeOK', SharesAddUp,
         \/ \E u \in Users : RequestStep(u)
         \/ VaultClaimManagerFee \/ ConfigClaimPlatformFee
  PROVE  SharesAddUp'
<1>1. /\ share_balances \in [Users -> Nat] /\ share_escrow \in Nat /\ share_supply \in Nat
      /\ \A u \in Users : share_balances[u] \in Nat
  BY BalancesAreNat
<1>2. ASSUME UNCHANGED <<share_balances, share_escrow, share_supply>>
      PROVE  SharesAddUp'
  BY <1>2 DEF SharesAddUp, Total, Units
<1>3. ASSUME NEW u \in Users, NEW amount \in Nat, Mint(u, amount), share_escrow' = share_escrow
      PROVE  SharesAddUp'
  <2>1. share_balances' = [share_balances EXCEPT ![u] = share_balances[u] + amount]
    BY <1>3 DEF Mint
  <2>2. share_supply' = share_supply + amount
    BY <1>3 DEF Mint
  <2>3. share_balances[u] + amount \in Nat
    BY <1>1
  <2>4. (share_balances[u] + amount) - share_balances[u] + share_escrow' - share_escrow
          = share_supply' - share_supply
    BY <1>1, <1>3, <2>2
  <2> QED BY <2>1, <2>3, <2>4, OneBalanceMoves
<1>4. ASSUME NEW u \in Users, NEW amount \in DepositAmounts, DepositRequestCreate(u, amount)
      PROVE  SharesAddUp'
  BY <1>2, <1>4 DEF DepositRequestCreate
<1>5. ASSUME NEW u \in Users, DepositRequestResolve(u)
      PROVE  SharesAddUp'
  <2> DEFINE minted == SharesFor(deposit_requests[u].amount, vault.nav_per_share)
  <2>1. Mint(u, minted) /\ share_escrow' = share_escrow /\ minted \in U64
    BY <1>5 DEF DepositRequestResolve, CanResolveDeposit
  <2>2. minted \in Nat
    BY <2>1, ConstantsAreNat
  <2> QED BY <1>3, <2>1, <2>2
<1>6. ASSUME NEW u \in Users, RefundDeposit(u)
      PROVE  SharesAddUp'
  BY <1>2, <1>6 DEF RefundDeposit
<1>7. ASSUME NEW u \in Users, NEW amount \in ShareAmounts, WithdrawalRequestCreate(u, amount)
      PROVE  SharesAddUp'
  <2>1. /\ share_balances' = [share_balances EXCEPT ![u] = share_balances[u] - amount]
        /\ share_escrow' = share_escrow + amount /\ share_supply' = share_supply
        /\ share_balances[u] >= amount
    BY <1>7 DEF WithdrawalRequestCreate
  <2>2. amount \in Nat
    BY InputsAssumption, ConstantsAreNat
  <2>3. share_balances[u] - amount \in Nat
    BY <1>1, <2>1, <2>2
  <2>4. (share_balances[u] - amount) - share_balances[u] + share_escrow' - share_escrow
          = share_supply' - share_supply
    BY <1>1, <2>1, <2>2
  <2> QED BY <2>1, <2>3, <2>4, OneBalanceMoves
<1>8. ASSUME NEW u \in Users, WithdrawalRequestResolve(u)
      PROVE  SharesAddUp'
  <2> DEFINE redeemed == withdrawal_requests[u].amount
  <2>1. /\ share_balances' = share_balances
        /\ share_escrow' = share_escrow - redeemed /\ share_supply' = share_supply - redeemed
    BY <1>8 DEF WithdrawalRequestResolve
  <2>2. redeemed \in Nat
    BY NumbersAreNat
  <2>3. share_balances' = [share_balances EXCEPT ![u] = share_balances[u]]
    BY <1>1, <2>1
  <2> HIDE DEF redeemed
  <2>4. share_balances[u] - share_balances[u] + share_escrow' - share_escrow
          = share_supply' - share_supply
    BY <1>1, <2>1, <2>2
  <2> QED BY <1>1, <2>3, <2>4, OneBalanceMoves
<1>9. ASSUME NEW u \in Users, ReturnShares(u)
      PROVE  SharesAddUp'
  <2> DEFINE amount == withdrawal_requests[u].amount
  <2>1. /\ share_balances' = [share_balances EXCEPT ![u] = share_balances[u] + amount]
        /\ share_escrow' = share_escrow - amount /\ share_supply' = share_supply
    BY <1>9 DEF ReturnShares
  <2>2. amount \in Nat
    BY NumbersAreNat
  <2> HIDE DEF amount
  <2>3. share_balances[u] + amount \in Nat
    BY <1>1, <2>2
  <2>4. (share_balances[u] + amount) - share_balances[u] + share_escrow' - share_escrow
          = share_supply' - share_supply
    BY <1>1, <2>1, <2>2
  <2> QED BY <2>1, <2>3, <2>4, OneBalanceMoves
<1>10. CASE VaultClaimManagerFee
  <2>1. Mint(Manager, vault.unclaimed_manager_fee_shares) /\ share_escrow' = share_escrow
    BY <1>10 DEF VaultClaimManagerFee
  <2> QED BY <1>3, <2>1, UsersAssumption, NumbersAreNat
<1>11. CASE ConfigClaimPlatformFee
  <2>1. Mint(Treasury, vault.unclaimed_platform_fee_shares) /\ share_escrow' = share_escrow
    BY <1>11 DEF ConfigClaimPlatformFee
  <2> QED BY <1>3, <2>1, UsersAssumption, NumbersAreNat
<1> QED BY <1>4, <1>5, <1>6, <1>7, <1>8, <1>9, <1>10, <1>11 DEF RequestStep,
      DepositRequestCancel, DepositRequestReject, WithdrawalRequestCancel, WithdrawalRequestReject

\* Holders who move or burn their shares keep the sum.
LEMMA SplStepsKeepShares ==
  ASSUME TypeOK, TypeOK', SharesAddUp, SplStep
  PROVE  SharesAddUp'
<1>1. PICK u \in Users, amount \in SplAmounts :
        \/ SplTransferToIdle(u, amount)
        \/ SplTransferToDepositEscrow(u, amount)
        \/ SplTransferToShareEscrow(u, amount)
        \/ \E to \in Users : SplTransferShares(u, to, amount)
        \/ SplBurnShares(u, amount)
  BY DEF SplStep
<1>2. /\ share_balances \in [Users -> Nat] /\ share_escrow \in Nat /\ share_supply \in Nat
      /\ \A v \in Users : share_balances[v] \in Nat
      /\ amount \in Nat
  BY BalancesAreNat, InputsAssumption
<1>3. CASE SplTransferToIdle(u, amount) \/ SplTransferToDepositEscrow(u, amount)
  <2>1. UNCHANGED <<share_balances, share_escrow, share_supply>>
    BY <1>3 DEF SplTransferToIdle, SplTransferToDepositEscrow
  <2> QED BY <2>1 DEF SharesAddUp, Total, Units
<1>4. CASE SplTransferToShareEscrow(u, amount) \/ SplBurnShares(u, amount)
  <2>1. /\ share_balances' = [share_balances EXCEPT ![u] = share_balances[u] - amount]
        /\ share_balances[u] >= amount
    BY <1>4 DEF SplTransferToShareEscrow, SplBurnShares
  <2>2. \/ share_escrow' = share_escrow + amount /\ share_supply' = share_supply
        \/ share_escrow' = share_escrow /\ share_supply' = share_supply - amount
    BY <1>4 DEF SplTransferToShareEscrow, SplBurnShares
  <2>3. share_balances[u] - amount \in Nat
    BY <1>2, <2>1
  <2>4. (share_balances[u] - amount) - share_balances[u] + share_escrow' - share_escrow
          = share_supply' - share_supply
    BY <1>2, <2>2
  <2> QED BY <2>1, <2>3, <2>4, OneBalanceMoves
<1>5. CASE \E to \in Users : SplTransferShares(u, to, amount)
  <2>1. PICK to \in Users : SplTransferShares(u, to, amount)
    BY <1>5
  <2> DEFINE taken == [share_balances EXCEPT ![u] = share_balances[u] - amount]
  <2>2. /\ u # to /\ share_balances[u] >= amount
        /\ share_escrow' = share_escrow /\ share_supply' = share_supply
    BY <2>1 DEF SplTransferShares
  <2>3. share_balances' = [taken EXCEPT ![to] = share_balances[to] + amount]
    BY <1>2, <2>1 DEF SplTransferShares
  <2>4. /\ share_balances[u] - amount \in Nat /\ share_balances[to] + amount \in Nat
        /\ share_balances[to] \in Nat /\ share_balances[u] \in Nat
    BY <1>2, <2>2
  <2>5. taken \in [Users -> Nat] /\ taken[to] = share_balances[to]
    BY <1>2, <2>2, <2>4
  <2>6. Total(taken) = Total(share_balances) - share_balances[u] + (share_balances[u] - amount)
    BY <1>2, <2>4, UsersAreFinite, TotalOfUpdate
  <2> HIDE DEF taken
  <2>7. Total(share_balances')
          = Total(taken) - share_balances[to] + (share_balances[to] + amount)
    <3>1. Total([taken EXCEPT ![to] = share_balances[to] + amount])
            = Total(taken) - taken[to] + (share_balances[to] + amount)
      BY <2>4, <2>5, UsersAreFinite, TotalOfUpdate
    <3> QED BY <2>3, <2>5, <3>1
  <2>8. Total(share_balances) \in Nat
    BY <1>2, UsersAreFinite, TotalBoundsValues
  <2>9. Total(share_balances') = Total(share_balances)
    BY <1>2, <2>4, <2>6, <2>7, <2>8
  <2>10. Total(share_balances') + share_escrow' = share_supply'
    BY <2>2, <2>9 DEF SharesAddUp
  <2> QED BY <2>10 DEF SharesAddUp, Total, Units
<1> QED BY <1>1, <1>3, <1>4, <1>5

\* Every step keeps the sum.
LEMMA SharesStep ==
  ASSUME TypeOK, TypeOK', SharesAddUp, [Next]_vars
  PROVE  SharesAddUp'
<1>1. ASSUME UNCHANGED <<share_balances, share_escrow, share_supply>>
      PROVE  SharesAddUp'
  BY <1>1 DEF SharesAddUp, Total, Units
<1>2. CASE NavStep
  BY <1>1, <1>2, NavKeepsPending DEF balances
<1>3. CASE SplStep
  BY <1>3, SplStepsKeepShares
<1>4. CASE \/ \E u \in Users : RequestStep(u)
           \/ VaultClaimManagerFee \/ ConfigClaimPlatformFee
  BY <1>4, RequestsKeepShares
<1> QED BY <1>1, <1>2, <1>3, <1>4, SettingsKeepPending DEF Next, ManagerStep, ProtocolStep

\* However shares are minted, requested, returned, redeemed, claimed as fees,
\* moved or burnt by their holders, the supply of the mint is what the users
\* and the escrow hold.
THEOREM SharesAlwaysAddUp == Spec => []SharesAddUp
<1>1. TypeOK /\ TypeOK' /\ SharesAddUp /\ [Next]_vars => SharesAddUp'
  BY SharesStep
<1> QED BY <1>1, SharesInit, TypeCorrectness, PTL DEF Spec

-----------------------------------------------------------------------------
(* Requests always have a way out. *)

\* Escrowed requests can be released: the pending total and the escrow cover
\* each of them.
LEMMA RequestsAreReleasable ==
  ASSUME TypeOK, RequestsAreEscrowed, NEW u \in Users
  PROVE  CanReleaseDeposit(u) /\ CanReleaseShares(u)
<1>1. /\ deposit_requests \in [Users -> Requests] /\ withdrawal_requests \in [Users -> Requests]
      /\ vault.pending_deposits \in Nat /\ vault.pending_withdrawal_shares \in Nat
      /\ deposit_escrow \in Nat /\ share_escrow \in Nat
  BY BalancesAreNat
<1>2. /\ deposit_requests[u].amount <= vault.pending_deposits
      /\ withdrawal_requests[u].amount <= vault.pending_withdrawal_shares
  BY <1>1, RequestedBoundsAmounts DEF RequestsAreEscrowed
<1>3. deposit_requests[u].amount \in Nat /\ withdrawal_requests[u].amount \in Nat
  BY NumbersAreNat
<1> QED BY <1>1, <1>2, <1>3 DEF RequestsAreEscrowed, CanReleaseDeposit, CanReleaseShares

\* The admin can reject any open request, and its owner can cancel it until a
\* NAV of a later epoch is posted, whatever happened before.
THEOREM RequestsCanAlwaysBeUndone == Spec => []RequestsCanBeUndone
<1>1. ASSUME TypeOK, RequestsAreEscrowed PROVE RequestsCanBeUndone
  BY <1>1, RequestsAreReleasable DEF RequestsCanBeUndone, CanRejectDeposit, CanRejectWithdrawal,
     CanCancelDeposit, CanCancelWithdrawal, DepositIsCancellable, WithdrawalIsCancellable
<1> QED BY <1>1, TypeCorrectness, RequestsStayEscrowed, PTL

\* No owner can choose between settling and cancelling, and a request that can
\* no longer be cancelled is priced by a NAV posted after its whole epoch.
THEOREM NoOptionOnPriceProved == Spec => []NoOptionOnPrice
<1>1. ASSUME TypeOK, RequestsAreEscrowed, EpochsAreOrdered PROVE NoOptionOnPrice
  <2> SUFFICES ASSUME NEW u \in Users
               PROVE  /\ ~(CanCancelDeposit(u) /\ CanResolveDeposit(u))
                      /\ ~(CanCancelWithdrawal(u) /\ CanResolveWithdrawal(u))
                      /\ IsOpen(deposit_requests[u]) /\ ~CanCancelDeposit(u)
                           => Epoch(vault.last_nav_ts) > deposit_requests[u].epoch
                      /\ IsOpen(withdrawal_requests[u]) /\ ~CanCancelWithdrawal(u)
                           => Epoch(vault.last_nav_ts) > withdrawal_requests[u].epoch
    BY DEF NoOptionOnPrice
  <2>1. /\ deposit_requests[u].epoch \in Nat /\ withdrawal_requests[u].epoch \in Nat
        /\ vault.nav_epoch \in Nat /\ vault.last_nav_ts \in Nat /\ vault.nav_per_share \in Nat
    BY <1>1, FieldsAreTyped, NumbersAreNat
  <2>2. Epoch(vault.last_nav_ts) \in Nat /\ vault.nav_epoch <= Epoch(vault.last_nav_ts)
    BY <1>1, <2>1, EpochIsMonotone DEF EpochsAreOrdered
  <2>3. ~(CanCancelDeposit(u) /\ CanResolveDeposit(u))
    BY <2>1 DEF CanCancelDeposit, CanResolveDeposit, DepositIsCancellable, IsResolvable
  <2>4. ~(CanCancelWithdrawal(u) /\ CanResolveWithdrawal(u))
    BY <2>1 DEF CanCancelWithdrawal, CanResolveWithdrawal, WithdrawalIsCancellable, IsResolvable
  <2>5. CanReleaseDeposit(u) /\ CanReleaseShares(u)
    BY <1>1, RequestsAreReleasable
  <2>6. ASSUME IsOpen(deposit_requests[u]), ~CanCancelDeposit(u)
        PROVE  Epoch(vault.last_nav_ts) > deposit_requests[u].epoch
    <3>1. ~(vault.nav_epoch <= deposit_requests[u].epoch)
      BY <2>5, <2>6 DEF CanCancelDeposit, DepositIsCancellable
    <3> QED BY <2>1, <2>2, <3>1
  <2>7. ASSUME IsOpen(withdrawal_requests[u]), ~CanCancelWithdrawal(u)
        PROVE  Epoch(vault.last_nav_ts) > withdrawal_requests[u].epoch
    <3>1. ~(vault.nav_epoch <= withdrawal_requests[u].epoch)
      BY <2>5, <2>7 DEF CanCancelWithdrawal, WithdrawalIsCancellable
    <3> QED BY <2>1, <2>2, <3>1
  <2> QED BY <2>3, <2>4, <2>6, <2>7
<1> QED BY <1>1, TypeCorrectness, RequestsStayEscrowed, EpochsStayOrdered, PTL

-----------------------------------------------------------------------------
(* Covered requests settle. *)

\* A covered deposit that nothing holds passes every check of its resolution.
LEMMA CoveredDepositSettles ==
  ASSUME TypeOK, RequestsAreEscrowed, NEW u \in Users,
         Covered(deposit_requests[u]), ~DepositHeld(u)
  PROVE  CanResolveDeposit(u)
<1> DEFINE amount == deposit_requests[u].amount
           nav == vault.nav_per_share
           minted == SharesFor(amount, nav)
<1>1. config.status \in Statuses /\ params.status \in Statuses
  BY DEF TypeOK, Configs, Settings
<1>2. /\ {config.status, params.status} = {"Normal"} /\ ~params.deposit_paused
      /\ nav # 0 /\ ~(amount * NAV_PRECISION < nav)
      /\ {vault.total_assets + amount, share_supply + minted} \subseteq U64
  BY DEF DepositHeld
<1>3. DepositsOpen
  BY <1>2 DEF DepositsOpen, IsOperational
<1>4. IsResolvable(deposit_requests[u])
  BY DEF Covered, IsResolvable
<1>5. /\ amount \in Nat /\ nav \in Nat \ {0} /\ NAV_PRECISION \in Nat
      /\ share_supply \in Nat /\ vault.total_assets \in Nat /\ U64_MAX \in Nat
  BY <1>2, NumbersAreNat, MathAssumption
<1>6. amount * NAV_PRECISION \in Nat
  BY <1>5, SMT
<1>7. minted \in Nat
  BY <1>5, SharesForIsCovered
<1>8. minted > 0
  <2>1. 1 * nav <= amount * NAV_PRECISION
    BY <1>2, <1>5, <1>6
  <2>2. 1 <= (amount * NAV_PRECISION) \div nav
    BY <1>5, <1>6, <2>1, DivisionIsMonotone
  <2>3. minted = (amount * NAV_PRECISION) \div nav
    BY DEF SharesFor
  <2> QED BY <1>7, <2>2, <2>3
<1>9. CanReleaseDeposit(u)
  BY RequestsAreReleasable
<1> HIDE DEF minted, amount, nav
<1>10. minted \in U64 /\ nav > 0
  BY <1>2, <1>5, <1>7 DEF U64
<1>11. CanMint(minted)
  BY <1>2 DEF CanMint
<1> QED BY <1>2, <1>3, <1>4, <1>8, <1>9, <1>10, <1>11 DEF CanResolveDeposit, amount, nav, minted

\* So does a covered withdrawal: the shares it redeems are in the supply, and
\* the recorded assets back them.
LEMMA CoveredWithdrawalSettles ==
  ASSUME TypeOK, RequestsAreEscrowed, SharesAddUp, SharesAreBacked, NEW u \in Users,
         Covered(withdrawal_requests[u]), ~WithdrawalHeld(u)
  PROVE  CanResolveWithdrawal(u)
<1> DEFINE redeemed == withdrawal_requests[u].amount
           nav == vault.nav_per_share
           paid == AssetsFor(redeemed, nav)
<1>1. /\ "Paused" \notin {config.status, params.status} /\ ~params.withdrawal_paused
      /\ ~(idle * NAV_PRECISION < redeemed * nav)
      /\ vault.epoch_outflow + paid \in U64
  BY DEF WithdrawalHeld
<1>2. WithdrawalsOpen
  BY <1>1 DEF WithdrawalsOpen, IsWithdrawable
<1>3. IsResolvable(withdrawal_requests[u])
  BY DEF Covered, IsResolvable
<1>4. CanReleaseShares(u)
  BY RequestsAreReleasable
<1>5. /\ redeemed \in Nat /\ nav \in Nat /\ NAV_PRECISION \in Nat /\ vault.total_assets \in Nat
      /\ share_supply \in Nat /\ share_escrow \in Nat /\ idle \in Nat
      /\ share_balances \in [Users -> Nat] /\ U64_MAX \in Nat /\ Supply \in Nat
      /\ vault.unclaimed_manager_fee_shares \in Nat
      /\ vault.unclaimed_platform_fee_shares \in Nat
  BY NumbersAreNat, BalancesAreNat, MathAssumption
<1>6. vault.total_assets \in U64 /\ vault.epoch_outflow \in Nat
  BY FieldsAreTyped, ConstantsAreNat
<1>7. paid \in Nat
  BY <1>5, AssetsForIsCovered
<1>8. share_supply >= redeemed
  <2>1. Total(share_balances) \in Nat
    BY <1>5, UsersAreFinite, TotalBoundsValues
  <2>2. share_supply >= share_escrow
    BY <1>5, <2>1 DEF SharesAddUp
  <2> QED BY <1>4, <1>5, <2>2 DEF CanReleaseShares
<1>9. Supply >= redeemed
  BY <1>5, <1>8 DEF Supply
<1> HIDE DEF redeemed, paid, nav
<1>10. /\ redeemed * nav \in Nat /\ Supply * nav \in Nat
       /\ vault.total_assets * NAV_PRECISION \in Nat /\ idle * NAV_PRECISION \in Nat
  BY <1>5, SMT
<1>11. redeemed * nav <= Supply * nav
  BY <1>5, <1>9, SMT
<1>12. redeemed * nav <= vault.total_assets * NAV_PRECISION
  <2>1. vault.total_assets * NAV_PRECISION - Supply * nav >= 0
    BY DEF SharesAreBacked, Surplus, nav
  <2> QED BY <1>10, <1>11, <2>1
<1>13. redeemed * nav <= idle * NAV_PRECISION
  BY <1>1, <1>10
<1>14. vault.total_assets >= paid /\ idle >= paid
  BY <1>5, <1>7, <1>12, <1>13, AssetsForFitsIn DEF paid
<1>15. paid \in U64
  BY <1>5, <1>6, <1>7, <1>14 DEF U64
<1> QED BY <1>1, <1>2, <1>3, <1>4, <1>8, <1>14, <1>15 DEF CanResolveWithdrawal, redeemed, nav, paid

\* Once it is priced, a request settles unless its direction is not open, the
\* vault lacks idle tokens, the NAV buys nothing or a result overflows: nothing
\* else in the history of the vault can make its resolution fail.
THEOREM CoveredRequestsAlwaysSettle == Spec => []CoveredRequestsSettle
<1>1. ASSUME TypeOK, RequestsAreEscrowed, SharesAddUp, SharesAreBacked
      PROVE  CoveredRequestsSettle
  BY <1>1, CoveredDepositSettles, CoveredWithdrawalSettles DEF CoveredRequestsSettle
<1> QED BY <1>1, TypeCorrectness, RequestsStayEscrowed, SharesAlwaysAddUp, SharesStayBacked, PTL
=============================================================================
