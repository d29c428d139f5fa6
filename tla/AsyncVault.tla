------------------------------ MODULE AsyncVault ------------------------------
(***************************************************************************)
(* What a vault promises to those who use it, without epochs, escrows,     *)
(* statuses, fees or books.  A request is unpriced until a NAV is posted   *)
(* for it.  While it is unpriced its owner may add to it.  From then on its *)
(* amount is fixed, and it ends in one of two ways, each complete: it      *)
(* settles at the posted price, or it is refunded.                         *)
(***************************************************************************)
EXTENDS VaultMath

CONSTANT Users

VARIABLES
  deposits,     \* each user's deposit request: its amount and whether it is priced
  withdrawals,  \* each user's withdrawal request
  price,        \* the posted NAV per share
  tokens,       \* deposit tokens of each user
  shares        \* shares of each user

avars == <<deposits, withdrawals, price, tokens, shares>>

Closed == [amount |-> 0, priced |-> FALSE]

Init ==
  /\ deposits = [u \in Users |-> Closed]
  /\ withdrawals = [u \in Users |-> Closed]
  /\ price = NAV_PRECISION
  /\ tokens \in [Users -> Nat]
  /\ shares \in [Users -> Nat]

\* The owner moves an amount from the own balance into an unpriced request.
Submitted(requests, u, amount) ==
  [requests EXCEPT ![u] = [amount |-> @.amount + amount, priced |-> FALSE]]

SubmitDeposit(u) ==
  /\ UNCHANGED <<withdrawals, price, shares>>
  /\ ~deposits[u].priced
  /\ \E amount \in U64 \ {0} :
       /\ deposits' = Submitted(deposits, u, amount)
       /\ tokens' = [tokens EXCEPT ![u] = @ - amount]

SubmitWithdrawal(u) ==
  /\ UNCHANGED <<deposits, price, tokens>>
  /\ ~withdrawals[u].priced
  /\ \E amount \in U64 \ {0} :
       /\ withdrawals' = Submitted(withdrawals, u, amount)
       /\ shares' = [shares EXCEPT ![u] = @ - amount]

\* A NAV is posted.  It prices some of the open requests, and unprices none.
Priced(requests, chosen) ==
  [u \in Users |->
     [requests[u] EXCEPT !.priced = @ \/ (u \in chosen /\ requests[u].amount > 0)]]

Post ==
  /\ UNCHANGED <<tokens, shares>>
  /\ price' \in Nat
  /\ \E chosen \in SUBSET Users : deposits' = Priced(deposits, chosen)
  /\ \E chosen \in SUBSET Users : withdrawals' = Priced(withdrawals, chosen)

SettleDeposit(u) ==
  /\ UNCHANGED <<withdrawals, price, tokens>>
  /\ deposits[u].priced
  /\ price > 0
  /\ SharesFor(deposits[u].amount, price) > 0
  /\ shares' = [shares EXCEPT ![u] = @ + SharesFor(deposits[u].amount, price)]
  /\ deposits' = [deposits EXCEPT ![u] = Closed]

SettleWithdrawal(u) ==
  /\ UNCHANGED <<deposits, price, shares>>
  /\ withdrawals[u].priced
  /\ tokens' = [tokens EXCEPT ![u] = @ + AssetsFor(withdrawals[u].amount, price)]
  /\ withdrawals' = [withdrawals EXCEPT ![u] = Closed]

RefundDeposit(u) ==
  /\ UNCHANGED <<withdrawals, price, shares>>
  /\ deposits[u].amount > 0
  /\ tokens' = [tokens EXCEPT ![u] = @ + deposits[u].amount]
  /\ deposits' = [deposits EXCEPT ![u] = Closed]

RefundWithdrawal(u) ==
  /\ UNCHANGED <<deposits, price, tokens>>
  /\ withdrawals[u].amount > 0
  /\ shares' = [shares EXCEPT ![u] = @ + withdrawals[u].amount]
  /\ withdrawals' = [withdrawals EXCEPT ![u] = Closed]

\* Balances also move for reasons that concern no request.
MoveBalances ==
  /\ UNCHANGED <<deposits, withdrawals, price>>
  /\ tokens' \in [Users -> Nat]
  /\ shares' \in [Users -> Nat]

Next ==
  \/ \E u \in Users :
       \/ SubmitDeposit(u) \/ SubmitWithdrawal(u)
       \/ SettleDeposit(u) \/ SettleWithdrawal(u)
       \/ RefundDeposit(u) \/ RefundWithdrawal(u)
  \/ Post
  \/ MoveBalances

Spec == Init /\ [][Next]_avars
=============================================================================
