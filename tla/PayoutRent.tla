------------------------------ MODULE PayoutRent ------------------------------
(***************************************************************************)
(* The lamports behind the requests of one vault.  Whoever settles a       *)
(* request may have to create the token account its payout goes to, since  *)
(* the owner can close it meanwhile; the request holds the rent for it from *)
(* the start.  The module follows the rent through the eight request        *)
(* instructions and utils/payout.rs, next to the config they load.          *)
(*                                                                         *)
(* What the vault itself has to say is in HedgeVault: here its gates, its   *)
(* NAV and its balances let a request through at any time, and a covered    *)
(* withdrawal pays something or, at a low NAV, nothing.  The wallets stand  *)
(* for the lamports an owner has for rent.                                  *)
(***************************************************************************)
EXTENDS ProtocolConfig

CONSTANTS
  Users,         \* wallets that make requests
  RequestRent,   \* the rent of a request account
  ShareRent,     \* the rent of a token account of the share mint
  DepositRent,   \* the same for the deposit mint, longer under Token-2022
  Budget,        \* what each wallet starts with
  Gifts,         \* lamports sent to an address out of the blue
  MaxGifted      \* bound on what is at an address that is sent lamports

Kinds == {"deposit", "withdrawal"}
Mints == {"share", "deposit"}

Rent(mint) == IF mint = "share" THEN ShareRent ELSE DepositRent

ASSUME RentAssumption ==
  /\ Users \subseteq Keys
  /\ RequestRent \in Nat \ {0} /\ ShareRent \in Nat \ {0} /\ DepositRent \in Nat \ {0}
  /\ Budget \in Nat
  /\ Gifts \subseteq Nat \ {0} /\ MaxGifted \in Nat

VARIABLES
  wallets,   \* lamports of every wallet
  requests,  \* the two requests a user can have: open, lamports, rent_escrow
  accounts   \* associated token accounts of the users: exists, lamports

rent_vars == <<wallets, requests, accounts>>
vars == <<config, wallets, requests, accounts>>

NoRequest == [open |-> FALSE, lamports |-> 0, rent_escrow |-> 0]

\* Made before requests held the rent of the payout account: the bytes that
\* became rent_escrow are zero.
LegacyRequest == [open |-> TRUE, lamports |-> RequestRent, rent_escrow |-> 0]

\* The deployed program has requests from both before and after the escrow.
Init ==
  /\ ConfigInit
  /\ wallets = [k \in Keys |-> Budget]
  /\ requests \in [Users -> [Kinds -> {NoRequest, LegacyRequest}]]
  /\ (config.layout = "none") => requests = [u \in Users |-> [k \in Kinds |-> NoRequest]]
  /\ accounts = [u \in Users |-> [m \in Mints |-> [exists |-> TRUE, lamports |-> Rent(m)]]]

-----------------------------------------------------------------------------
(* utils/payout.rs. *)

Least(a, b) == IF a <= b THEN a ELSE b
Excess(a, b) == IF a > b THEN a - b ELSE 0

Mutant_PayoutRentEscrow == ShareRent

\* Enough for either account, of which a settlement creates one.
PayoutRentEscrow == IF ShareRent > DepositRent THEN ShareRent ELSE DepositRent

\* What creating the payout account costs: lamports sent to its address
\* beforehand count.
Funded(u, mint) ==
  IF accounts[u][mint].exists THEN 0 ELSE Excess(Rent(mint), accounts[u][mint].lamports)

Mutant_NothingDrawn(u, kind, mint) == 0

Mutant_AllDrawn(u, kind, mint) == Least(requests[u][kind].rent_escrow, requests[u][kind].lamports)

\* What the payer gets back out of the request.
Drawn(u, kind, mint) ==
  Least(Least(Funded(u, mint), requests[u][kind].rent_escrow), requests[u][kind].lamports)

PayoutAccountCreated(u, mint) ==
  [accounts EXCEPT ![u][mint] = [exists |-> TRUE, lamports |-> @.lamports + Funded(u, mint)]]

RequestClosed(u, kind) == [requests EXCEPT ![u][kind] = NoRequest]

-----------------------------------------------------------------------------
(* Requests. *)

\* A request account that exists keeps what it holds.  A new one is made
\* rent exempt, counting what was sent to its address, and then given the
\* rent of the payout account.
Request(u, kind) ==
  \/ /\ requests[u][kind].open
     /\ UNCHANGED rent_vars
  \/ LET created == Excess(RequestRent, requests[u][kind].lamports)
     IN  /\ ~requests[u][kind].open
         /\ wallets[u] >= created + PayoutRentEscrow
         /\ wallets' = [wallets EXCEPT ![u] = @ - (created + PayoutRentEscrow)]
         /\ requests' = [requests EXCEPT ![u][kind] =
                           [open |-> TRUE,
                            lamports |-> @.lamports + created + PayoutRentEscrow,
                            rent_escrow |-> PayoutRentEscrow]]
         /\ UNCHANGED accounts

\* By the user, from an account that holds the deposit.
DepositRequestCreate(u) ==
  /\ ProtocolOperational
  /\ accounts[u]["deposit"].exists
  /\ Request(u, "deposit")
  /\ UNCHANGED config

\* By the user, from an account that holds the shares.
WithdrawalRequestCreate(u) ==
  /\ ProtocolWithdrawable
  /\ accounts[u]["share"].exists
  /\ Request(u, "withdrawal")
  /\ UNCHANGED config

\* The payer advances the rent of a missing payout account and is repaid from
\* the request, which then closes.
SettleTo(u, kind, mint, payer) ==
  /\ requests[u][kind].open
  /\ wallets[payer] >= Funded(u, mint)
  /\ LET repaid == [wallets EXCEPT ![payer] = @ - Funded(u, mint) + Drawn(u, kind, mint)]
     IN  wallets' = [repaid EXCEPT ![u] = @ + requests[u][kind].lamports - Drawn(u, kind, mint)]
  /\ requests' = RequestClosed(u, kind)
  /\ accounts' = PayoutAccountCreated(u, mint)
  /\ UNCHANGED config

\* By anyone.
DepositRequestResolve(u, resolver) ==
  /\ ProtocolOperational
  /\ SettleTo(u, "deposit", "share", resolver)

\* By anyone.  A payout of zero needs no account.
WithdrawalRequestResolve(u, resolver, pays) ==
  /\ ProtocolWithdrawable
  /\ IF pays
       THEN SettleTo(u, "withdrawal", "deposit", resolver)
       ELSE /\ requests[u]["withdrawal"].open
            /\ wallets' = [wallets EXCEPT ![u] = @ + requests[u]["withdrawal"].lamports]
            /\ requests' = RequestClosed(u, "withdrawal")
            /\ UNCHANGED <<config, accounts>>

\* By the admin, under any status.
DepositRequestReject(u, signer) ==
  /\ IsAdmin(signer)
  /\ SettleTo(u, "deposit", "deposit", signer)

\* By the admin, under any status.
WithdrawalRequestReject(u, signer) ==
  /\ IsAdmin(signer)
  /\ SettleTo(u, "withdrawal", "share", signer)

\* The owner pays for the account and gets the whole request back.
CancelTo(u, kind, mint) ==
  /\ requests[u][kind].open
  /\ wallets[u] >= Funded(u, mint)
  /\ wallets' = [wallets EXCEPT ![u] = @ - Funded(u, mint) + requests[u][kind].lamports]
  /\ requests' = RequestClosed(u, kind)
  /\ accounts' = PayoutAccountCreated(u, mint)
  /\ UNCHANGED config

\* By the user.  Neither loads the config.
DepositRequestCancel(u) == CancelTo(u, "deposit", "deposit")
WithdrawalRequestCancel(u) == CancelTo(u, "withdrawal", "share")

-----------------------------------------------------------------------------
(* External: the system program and the token programs. *)

\* A user closes an emptied token account and takes its rent.
CloseTokenAccount(u, mint) ==
  /\ accounts[u][mint].exists
  /\ wallets' = [wallets EXCEPT ![u] = @ + accounts[u][mint].lamports]
  /\ accounts' = [accounts EXCEPT ![u][mint] = [exists |-> FALSE, lamports |-> 0]]
  /\ UNCHANGED <<config, requests>>

\* Anyone creates it again.
CreateTokenAccount(u, mint, payer) ==
  /\ ~accounts[u][mint].exists
  /\ wallets[payer] >= Funded(u, mint)
  /\ wallets' = [wallets EXCEPT ![payer] = @ - Funded(u, mint)]
  /\ accounts' = PayoutAccountCreated(u, mint)
  /\ UNCHANGED <<config, requests>>

\* Lamports can be sent to any address, with or without an account.
GiveToAccount(u, mint, payer, lamports) ==
  /\ wallets[payer] >= lamports
  /\ accounts[u][mint].lamports + lamports <= MaxGifted
  /\ wallets' = [wallets EXCEPT ![payer] = @ - lamports]
  /\ accounts' = [accounts EXCEPT ![u][mint].lamports = @ + lamports]
  /\ UNCHANGED <<config, requests>>

GiveToRequest(u, kind, payer, lamports) ==
  /\ wallets[payer] >= lamports
  /\ requests[u][kind].lamports + lamports <= MaxGifted
  /\ wallets' = [wallets EXCEPT ![payer] = @ - lamports]
  /\ requests' = [requests EXCEPT ![u][kind].lamports = @ + lamports]
  /\ UNCHANGED <<config, accounts>>

-----------------------------------------------------------------------------
ConfigChanges == ConfigStep /\ UNCHANGED rent_vars

OwnerSteps ==
  \E u \in Users :
    \/ DepositRequestCreate(u)
    \/ WithdrawalRequestCreate(u)
    \/ DepositRequestCancel(u)
    \/ WithdrawalRequestCancel(u)
    \/ \E mint \in Mints : CloseTokenAccount(u, mint)

SettlementSteps ==
  \E u \in Users, k \in Keys :
    \/ DepositRequestResolve(u, k)
    \/ \E pays \in BOOLEAN : WithdrawalRequestResolve(u, k, pays)
    \/ DepositRequestReject(u, k)
    \/ WithdrawalRequestReject(u, k)

Transfers ==
  \E u \in Users, payer \in Keys :
    \/ \E mint \in Mints : CreateTokenAccount(u, mint, payer)
    \/ \E lamports \in Gifts :
         \/ \E mint \in Mints : GiveToAccount(u, mint, payer, lamports)
         \/ \E kind \in Kinds : GiveToRequest(u, kind, payer, lamports)

Next == ConfigChanges \/ OwnerSteps \/ SettlementSteps \/ Transfers

Spec == Init /\ [][Next]_vars
=============================================================================
