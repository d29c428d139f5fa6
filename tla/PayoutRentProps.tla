---------------------------- MODULE PayoutRentProps ----------------------------
(***************************************************************************)
(* What PayoutRent promises to those who make requests, to those who       *)
(* settle them, and about the config both depend on.                       *)
(***************************************************************************)
EXTENDS PayoutRent, Sequences

CONSTANTS
  U64_MAX,     \* the largest token amount
  Swaps,       \* instruction data and arguments that managers pass to jupiter_swap
  Amounts,     \* amounts a swap can move
  NoOne        \* nobody, as an admin

Route == INSTANCE JupiterRoute

ASSUME SwapAssumption ==
  /\ NoOne \notin Addresses
  /\ U64_MAX \in Nat
  /\ Amounts \subseteq Nat
  /\ Swaps \subseteq [data : [variant : STRING, tail : Seq(Nat)], amount : Nat,
                     slippage_bps : Nat]

ConfigType ==
  [layout : Layouts, admin : Addresses, pending_admin : Addresses, nav_updater : Addresses,
   treasury_authority : Addresses, guardian : Addresses, status : Statuses,
   max_slippage_bps : 0 .. MAX_BPS]

\* Nobody holds a role before there is a config, somebody does afterwards, and
\* version 1 has neither a nomination nor a cap.
ConfigTypeOK ==
  /\ config \in ConfigType
  /\ (config.layout = "none") => config = NoConfig
  /\ (config.layout # "none") =>
       DefaultKey \notin {config.admin, config.nav_updater, config.treasury_authority,
                          config.guardian}
  /\ (config.layout = "v1") => config.pending_admin = DefaultKey /\ config.max_slippage_bps = 0

RequestType == [open : BOOLEAN, lamports : Nat, rent_escrow : Nat]
AccountType == [exists : BOOLEAN, lamports : Nat]

RentTypeOK ==
  /\ wallets \in [Keys -> Nat]
  /\ requests \in [Users -> [Kinds -> RequestType]]
  /\ accounts \in [Users -> [Mints -> AccountType]]

\* Types, and what each stage in the life of the config implies for its fields.
TypeOK == ConfigTypeOK /\ RentTypeOK

\* The admin role only passes to the last person its holder nominated, and
\* only when that person accepts: config_update and admin_accept implement
\* AdminHandover.  Nominating oneself withdraws a nomination.
Handover == INSTANCE AdminHandover WITH
  People <- Keys,
  admin <- IF config.layout = "none" THEN NoOne ELSE config.admin,
  nominee <- IF config.pending_admin \in {DefaultKey, config.admin}
               THEN NoOne ELSE config.pending_admin

ImplementsHandover == Handover!Spec

RespectsCap(swap, spent, received) ==
  LET quoted_amount == swap.data.tail[Len(swap.data.tail) - 1]
  IN  IF Route!SwapMode(swap.data.variant) = "ExactIn"
        THEN (received + 1) * MAX_BPS > quoted_amount * (MAX_BPS - MaxSlippage)
        ELSE /\ received >= swap.amount
             /\ spent * MAX_BPS <= quoted_amount * (MAX_BPS + MaxSlippage)

\* Whatever route and arguments a manager passes, and whatever state migration
\* and updates left the config in, a swap that goes through is within a cap of
\* the manager's quote that is set and at most 100%: an exact-in route loses
\* less than one token to rounding, an exact-out route nothing.
SwapsRespectCap ==
  ConfigLoads =>
    /\ MaxSlippage \in 1 .. MAX_BPS
    /\ \A swap \in Swaps :
         Route!CheckAmountAndSlippage(swap.data, swap.amount, swap.slippage_bps, MaxSlippage) =>
           \A spent, received \in Amounts :
             Route!SwapIsWithinBounds(swap.data, MaxSlippage, spent, received) =>
               RespectsCap(swap, spent, received)

\* An open request holds its own rent and what it says it holds for the payout
\* account, and that is enough for either account, unless the request is older
\* than the escrow.
RentIsEscrowed ==
  \A u \in Users, kind \in Kinds :
    LET request == requests[u][kind]
    IN  IF request.open
          THEN /\ request.lamports >= RequestRent + request.rent_escrow
               /\ \/ request.rent_escrow = 0
                  \/ \A mint \in Mints : request.rent_escrow >= Rent(mint)
          ELSE request.rent_escrow = 0

Closes(u, kind) == requests[u][kind].open /\ ~requests'[u][kind].open

\* Settling somebody else's request costs nothing, whatever was done to the
\* payout account meanwhile, unless the request is older than the escrow; then
\* it costs no more than the rent of the account.
SettlementIsFree ==
  [][\A u \in Users, kind \in Kinds : Closes(u, kind) =>
       \A k \in Keys \ {u} :
         \/ wallets'[k] >= wallets[k]
         \/ /\ requests[u][kind].rent_escrow = 0
            /\ \E mint \in Mints :
                 /\ ~accounts[u][mint].exists /\ accounts'[u][mint].exists
                 /\ wallets[k] - wallets'[k] <= Rent(mint)]_vars

\* What a user has in lamports: the wallet, the token accounts, the requests.
Holdings(w, r, a, u) ==
  w[u] + r[u]["deposit"].lamports + r[u]["withdrawal"].lamports
       + a[u]["share"].lamports + a[u]["deposit"].lamports

\* The end of a request takes nothing from its owner: what is not turned into
\* the rent of their own token account returns to them, whoever settles.
OwnerGetsTheRest ==
  [][\A u \in Users, kind \in Kinds : Closes(u, kind) =>
       Holdings(wallets', requests', accounts', u) >= Holdings(wallets, requests, accounts, u)]_vars
=============================================================================
