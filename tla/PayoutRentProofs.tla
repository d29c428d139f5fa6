--------------------------- MODULE PayoutRentProofs ---------------------------
(***************************************************************************)
(* The properties of PayoutRent, for every value of its constants.         *)
(***************************************************************************)
EXTENDS PayoutRentProps, TLAPS

-----------------------------------------------------------------------------
(* The config. *)

\* The initial configs have their types.
LEMMA ConfigInitIsTyped == ConfigInit => ConfigTypeOK
<1> SUFFICES ASSUME ConfigInit PROVE ConfigTypeOK
  OBVIOUS
<1> USE ConfigAssumption DEF ConfigTypeOK, ConfigType, Layouts, Statuses, Addresses, NoConfig
<1>1. CASE config = NoConfig
  BY <1>1
<1>2. CASE \E d \in Deployments : config = ConfigV1(d)
  <2>1. PICK d \in Deployments : config = ConfigV1(d)
    BY <1>2
  <2>2. d \in [admin : Keys, guardian : Keys, status : {"Normal", "Paused", "ReduceOnly"}]
    BY <2>1
  <2>3. config = [layout |-> "v1", admin |-> d.admin, pending_admin |-> DefaultKey,
                  nav_updater |-> d.admin, treasury_authority |-> d.admin,
                  guardian |-> d.guardian, status |-> d.status, max_slippage_bps |-> 0]
    BY <2>1, Zenon DEF ConfigV1
  <2>4. d.admin # DefaultKey /\ d.guardian # DefaultKey
    BY <2>2
  <2> QED BY <2>2, <2>3, <2>4
<1> QED BY <1>1, <1>2 DEF ConfigInit

\* Every instruction on the config keeps its types.
LEMMA ConfigStepIsTyped ==
  ASSUME ConfigTypeOK, ConfigStep
  PROVE  ConfigTypeOK'
<1> USE ConfigAssumption DEF ConfigTypeOK, ConfigType, Layouts, Statuses, Addresses
<1>1. PICK signer \in Keys :
        \/ \E args \in Initializations : ConfigInitialize(signer, args)
        \/ \E args \in Updates : ConfigUpdate(signer, args)
        \/ AdminAccept(signer)
        \/ ConfigPause(signer)
        \/ ConfigMigrate(signer)
  BY DEF ConfigStep
<1>2. ASSUME NEW args \in Initializations, ConfigInitialize(signer, args) PROVE ConfigTypeOK'
  <2>1. args \in [nav_updater : Addresses, treasury_authority : Addresses,
                  guardian : Addresses, max_slippage_bps : Nat]
    OBVIOUS
  <2>2. args.max_slippage_bps \in 0 .. MAX_BPS
    BY <1>2, <2>1 DEF ConfigInitialize, IsSlippageCap
  <2> QED BY <1>2, <2>1, <2>2 DEF ConfigInitialize
<1>3. ASSUME NEW args \in Updates, ConfigUpdate(signer, args) PROVE ConfigTypeOK'
  <2>1. args \in [pending_admin : Addresses \cup {Omitted}, nav_updater : Addresses \cup {Omitted},
                  treasury_authority : Addresses \cup {Omitted},
                  guardian : Addresses \cup {Omitted}, max_slippage_bps : Nat \cup {Omitted},
                  status : Statuses \cup {Omitted}]
    OBVIOUS
  <2>2. /\ Given(args.nav_updater, config.nav_updater) \in Keys
        /\ Given(args.treasury_authority, config.treasury_authority) \in Keys
        /\ Given(args.guardian, config.guardian) \in Keys
        /\ Given(args.pending_admin, config.pending_admin) \in Addresses
    BY <1>3, <2>1 DEF ConfigUpdate, IsAdmin, ConfigLoads, Given
  <2>3. Given(args.status, config.status) \in Statuses
    BY <2>1 DEF Given
  <2>4. Given(args.max_slippage_bps, config.max_slippage_bps) \in 0 .. MAX_BPS
    BY <1>3, <2>1 DEF ConfigUpdate, IsSlippageCap, Given
  <2>5. /\ config.layout = "v2" /\ config.admin # DefaultKey
        /\ config' = [config EXCEPT
             !.pending_admin = Given(args.pending_admin, config.pending_admin),
             !.nav_updater = Given(args.nav_updater, config.nav_updater),
             !.treasury_authority = Given(args.treasury_authority, config.treasury_authority),
             !.guardian = Given(args.guardian, config.guardian),
             !.max_slippage_bps = Given(args.max_slippage_bps, config.max_slippage_bps),
             !.status = Given(args.status, config.status)]
    BY <1>3 DEF ConfigUpdate, IsAdmin, ConfigLoads
  <2> QED BY <2>2, <2>3, <2>4, <2>5
<1>4. ASSUME AdminAccept(signer) PROVE ConfigTypeOK'
  BY <1>4 DEF AdminAccept, ConfigLoads, IsNominee
<1>5. ASSUME ConfigPause(signer) PROVE ConfigTypeOK'
  BY <1>5 DEF ConfigPause, ConfigLoads
<1>6. ASSUME ConfigMigrate(signer) PROVE ConfigTypeOK'
  BY <1>6 DEF ConfigMigrate
<1> QED BY <1>1, <1>2, <1>3, <1>4, <1>5, <1>6

-----------------------------------------------------------------------------
(* The rent. *)

\* The parts of the state the requests are about, with one type each.
LEMMA TypesUnfold ==
  ASSUME RentTypeOK
  PROVE  /\ \A k \in Keys : wallets[k] \in Nat
         /\ \A u \in Users, kind \in Kinds :
              /\ requests[u][kind] \in RequestType
              /\ requests[u][kind].lamports \in Nat /\ requests[u][kind].rent_escrow \in Nat
         /\ \A u \in Users, mint \in Mints :
              /\ accounts[u][mint] \in AccountType
              /\ accounts[u][mint].lamports \in Nat
         /\ \A u \in Users : u \in Keys
BY RentAssumption DEF RentTypeOK, RequestType, AccountType

\* What a payout account costs, and how much of it a request gives back.
LEMMA DrawnIsBounded ==
  ASSUME RentTypeOK, NEW u \in Users, NEW kind \in Kinds, NEW mint \in Mints
  PROVE  /\ Rent(mint) \in Nat \ {0}
         /\ Funded(u, mint) \in Nat /\ Funded(u, mint) <= Rent(mint)
         /\ accounts[u][mint].exists => Funded(u, mint) = 0
         /\ Drawn(u, kind, mint) \in Nat
         /\ Drawn(u, kind, mint) <= Funded(u, mint)
         /\ Drawn(u, kind, mint) <= requests[u][kind].lamports
         /\ \/ Drawn(u, kind, mint) = Funded(u, mint)
            \/ Drawn(u, kind, mint) = requests[u][kind].rent_escrow
            \/ Drawn(u, kind, mint) = requests[u][kind].lamports
<1>1. Rent(mint) \in Nat \ {0}
  BY RentAssumption DEF Rent
<1>2. accounts[u][mint].lamports \in Nat
  BY TypesUnfold
<1>3. requests[u][kind].lamports \in Nat /\ requests[u][kind].rent_escrow \in Nat
  BY TypesUnfold
<1>4. /\ Funded(u, mint) \in Nat /\ Funded(u, mint) <= Rent(mint)
      /\ accounts[u][mint].exists => Funded(u, mint) = 0
  BY <1>1, <1>2 DEF Funded, Excess
<1> QED BY <1>1, <1>3, <1>4 DEF Drawn, Least

\* The rent a request holds for its payout account covers either mint.
LEMMA EscrowCovers ==
  /\ PayoutRentEscrow \in Nat \ {0}
  /\ \A mint \in Mints : Rent(mint) <= PayoutRentEscrow
BY RentAssumption DEF PayoutRentEscrow, Rent, Mints

\* Creating a payout account keeps the types.
LEMMA PayoutAccountIsTyped ==
  ASSUME RentTypeOK, NEW u \in Users, NEW mint \in Mints
  PROVE  /\ PayoutAccountCreated(u, mint) \in [Users -> [Mints -> AccountType]]
         /\ PayoutAccountCreated(u, mint)[u][mint].exists
         /\ PayoutAccountCreated(u, mint)[u][mint].lamports
              = accounts[u][mint].lamports + Funded(u, mint)
         /\ \A v \in Users, m \in Mints : (v # u \/ m # mint) =>
              PayoutAccountCreated(u, mint)[v][m] = accounts[v][m]
<1>1. accounts[u][mint].lamports \in Nat /\ Funded(u, mint) \in Nat
  BY TypesUnfold, DrawnIsBounded DEF Kinds
<1>2. [exists |-> TRUE, lamports |-> accounts[u][mint].lamports + Funded(u, mint)] \in AccountType
  BY <1>1 DEF AccountType
<1> QED BY <1>1, <1>2 DEF RentTypeOK, PayoutAccountCreated

\* Closing a request keeps the types.
LEMMA ClosedRequestIsTyped ==
  ASSUME RentTypeOK, NEW u \in Users, NEW kind \in Kinds
  PROVE  /\ RequestClosed(u, kind) \in [Users -> [Kinds -> RequestType]]
         /\ RequestClosed(u, kind)[u][kind] = NoRequest
         /\ \A v \in Users, k \in Kinds : (v # u \/ k # kind) =>
              RequestClosed(u, kind)[v][k] = requests[v][k]
<1>1. NoRequest \in RequestType
  BY DEF NoRequest, RequestType
<1> QED BY <1>1 DEF RentTypeOK, RequestClosed

-----------------------------------------------------------------------------
(* What a step can do to the rent.  Every action that touches it takes one  *)
(* of a few forms; the invariants and the action properties are proved for   *)
(* each form.                                                               *)

\* A payout of zero: the request closes and nothing else happens.
ClosedUnpaid(u, kind) ==
  /\ requests[u][kind].open
  /\ wallets' = [wallets EXCEPT ![u] = @ + requests[u][kind].lamports]
  /\ requests' = RequestClosed(u, kind)
  /\ UNCHANGED accounts

\* A step that closes no request.
Keeps ==
  \/ \E u \in Users, kind \in Kinds : Request(u, kind)
  \/ \E u \in Users, mint \in Mints : CloseTokenAccount(u, mint)
  \/ Transfers
  \/ UNCHANGED rent_vars

\* A step that closes one.
Ends(u, kind) ==
  \/ \E mint \in Mints, payer \in Keys : SettleTo(u, kind, mint, payer)
  \/ \E mint \in Mints : CancelTo(u, kind, mint)
  \/ ClosedUnpaid(u, kind)

\* Every step has one of the two forms.
LEMMA StepForms ==
  ASSUME [Next]_vars
  PROVE  Keeps \/ \E u \in Users, kind \in Kinds : Ends(u, kind)
<1> USE DEF Kinds, Mints
<1>1. CASE ConfigChanges
  BY <1>1 DEF ConfigChanges, Keeps
<1>2. CASE OwnerSteps
  BY <1>2 DEF OwnerSteps, Keeps, Ends, DepositRequestCreate, WithdrawalRequestCreate,
              DepositRequestCancel, WithdrawalRequestCancel
<1>3. CASE SettlementSteps
  <2>1. PICK u \in Users, k \in Keys :
          \/ DepositRequestResolve(u, k)
          \/ \E pays \in BOOLEAN : WithdrawalRequestResolve(u, k, pays)
          \/ DepositRequestReject(u, k)
          \/ WithdrawalRequestReject(u, k)
    BY <1>3 DEF SettlementSteps
  <2> QED BY <2>1 DEF Ends, ClosedUnpaid, DepositRequestResolve, WithdrawalRequestResolve,
                      DepositRequestReject, WithdrawalRequestReject
<1>4. CASE Transfers
  BY <1>4 DEF Keeps
<1>5. CASE UNCHANGED vars
  BY <1>5 DEF Keeps, vars, rent_vars
<1> QED BY <1>1, <1>2, <1>3, <1>4, <1>5 DEF Next

\* Wallets stay natural numbers, and requests and accounts keep their types,
\* in a step that closes no request; and it closes none.
LEMMA KeepsIsTyped ==
  ASSUME RentTypeOK, Keeps
  PROVE  /\ RentTypeOK'
         /\ \A u \in Users, kind \in Kinds : ~Closes(u, kind)
<1> USE DEF Closes
<1>1. ASSUME NEW u \in Users, NEW kind \in Kinds, Request(u, kind)
      PROVE  /\ RentTypeOK'
             /\ \A v \in Users, k \in Kinds : ~Closes(v, k)
  <2>1. CASE UNCHANGED rent_vars
    BY <2>1 DEF rent_vars, RentTypeOK
  <2>2. CASE ~requests[u][kind].open
    <3> DEFINE created == Excess(RequestRent, requests[u][kind].lamports)
               opened == [open |-> TRUE,
                          lamports |-> requests[u][kind].lamports + created + PayoutRentEscrow,
                          rent_escrow |-> PayoutRentEscrow]
    <3>1. /\ requests[u][kind].lamports \in Nat /\ wallets[u] \in Nat
          /\ PayoutRentEscrow \in Nat
      BY TypesUnfold, EscrowCovers
    <3>2. created \in Nat
      BY <3>1, RentAssumption DEF Excess
    <3>3. /\ wallets[u] >= created + PayoutRentEscrow
          /\ wallets' = [wallets EXCEPT ![u] = wallets[u] - (created + PayoutRentEscrow)]
          /\ requests' = [requests EXCEPT ![u][kind] = opened]
          /\ UNCHANGED accounts
      BY <1>1, <2>2 DEF Request
    <3>4. opened \in RequestType /\ opened.open
      BY <3>1, <3>2 DEF RequestType
    <3> HIDE DEF created, opened
    <3>5. wallets' \in [Keys -> Nat]
      <4>1. wallets[u] - (created + PayoutRentEscrow) \in Nat
        BY <3>1, <3>2, <3>3
      <4> QED BY <3>3, <4>1 DEF RentTypeOK
    <3>6. /\ requests' \in [Users -> [Kinds -> RequestType]]
          /\ requests'[u][kind] = opened
          /\ \A v \in Users, k \in Kinds : (v # u \/ k # kind) => requests'[v][k] = requests[v][k]
      BY <3>3, <3>4 DEF RentTypeOK
    <3> QED BY <3>3, <3>4, <3>5, <3>6 DEF RentTypeOK
  <2> QED BY <1>1, <2>1, <2>2 DEF Request
<1>2. ASSUME NEW u \in Users, NEW mint \in Mints, CloseTokenAccount(u, mint)
      PROVE  /\ RentTypeOK'
             /\ \A v \in Users, k \in Kinds : ~Closes(v, k)
  <2>1. accounts[u][mint].lamports \in Nat /\ wallets[u] \in Nat
    BY TypesUnfold
  <2>2. [exists |-> FALSE, lamports |-> 0] \in AccountType
    BY DEF AccountType
  <2>3. wallets' \in [Keys -> Nat]
    <3>1. wallets[u] + accounts[u][mint].lamports \in Nat
      BY <2>1
    <3> QED BY <1>2, <3>1 DEF CloseTokenAccount, RentTypeOK
  <2>4. accounts' \in [Users -> [Mints -> AccountType]]
    BY <1>2, <2>2 DEF CloseTokenAccount, RentTypeOK
  <2> QED BY <1>2, <2>3, <2>4 DEF CloseTokenAccount, RentTypeOK
<1>3. ASSUME NEW u \in Users, NEW payer \in Keys, NEW mint \in Mints,
             CreateTokenAccount(u, mint, payer)
      PROVE  /\ RentTypeOK'
             /\ \A v \in Users, k \in Kinds : ~Closes(v, k)
  <2>1. Funded(u, mint) \in Nat /\ wallets[payer] \in Nat
    BY TypesUnfold, DrawnIsBounded DEF Kinds
  <2>2. wallets' \in [Keys -> Nat]
    BY <1>3, <2>1 DEF CreateTokenAccount, RentTypeOK
  <2> QED BY <1>3, <2>2, PayoutAccountIsTyped DEF CreateTokenAccount, RentTypeOK
<1>4. ASSUME NEW u \in Users, NEW payer \in Keys, NEW mint \in Mints, NEW lamports \in Gifts,
             GiveToAccount(u, mint, payer, lamports)
      PROVE  /\ RentTypeOK'
             /\ \A v \in Users, k \in Kinds : ~Closes(v, k)
  <2>1. /\ lamports \in Nat /\ wallets[payer] \in Nat /\ accounts[u][mint] \in AccountType
        /\ accounts[u][mint].lamports \in Nat
    BY TypesUnfold, RentAssumption
  <2>2. wallets' \in [Keys -> Nat]
    BY <1>4, <2>1 DEF GiveToAccount, RentTypeOK
  <2>3. [accounts[u][mint] EXCEPT !.lamports = accounts[u][mint].lamports + lamports]
          \in AccountType
    BY <2>1 DEF AccountType
  <2>4. accounts' \in [Users -> [Mints -> AccountType]]
    BY <1>4, <2>3 DEF GiveToAccount, RentTypeOK
  <2> QED BY <1>4, <2>2, <2>4 DEF GiveToAccount, RentTypeOK
<1>5. ASSUME NEW u \in Users, NEW payer \in Keys, NEW kind \in Kinds, NEW lamports \in Gifts,
             GiveToRequest(u, kind, payer, lamports)
      PROVE  /\ RentTypeOK'
             /\ \A v \in Users, k \in Kinds : ~Closes(v, k)
  <2> DEFINE given == [requests[u][kind] EXCEPT !.lamports = requests[u][kind].lamports + lamports]
  <2>1. /\ lamports \in Nat /\ wallets[payer] \in Nat /\ requests[u][kind] \in RequestType
        /\ requests[u][kind].lamports \in Nat
    BY TypesUnfold, RentAssumption
  <2>2. wallets' \in [Keys -> Nat]
    BY <1>5, <2>1 DEF GiveToRequest, RentTypeOK
  <2>3. given \in RequestType /\ given.open = requests[u][kind].open
    BY <2>1 DEF RequestType
  <2>4. requests' = [requests EXCEPT ![u][kind] = given]
    BY <1>5 DEF GiveToRequest
  <2> HIDE DEF given
  <2>5. /\ requests' \in [Users -> [Kinds -> RequestType]]
        /\ requests'[u][kind] = given
        /\ \A v \in Users, k \in Kinds : (v # u \/ k # kind) => requests'[v][k] = requests[v][k]
    BY <2>3, <2>4 DEF RentTypeOK
  <2> QED BY <1>5, <2>2, <2>3, <2>5 DEF GiveToRequest, RentTypeOK
<1>6. CASE Transfers
  BY <1>3, <1>4, <1>5, <1>6 DEF Transfers
<1>7. CASE UNCHANGED rent_vars
  BY <1>7 DEF rent_vars, RentTypeOK
<1> QED BY <1>1, <1>2, <1>6, <1>7 DEF Keeps

\* The wallets after a settlement: the payer is down by what was not given
\* back, the owner up by what is left of the request.
LEMMA SettledWallets ==
  ASSUME RentTypeOK, NEW u \in Users, NEW kind \in Kinds, NEW mint \in Mints, NEW payer \in Keys,
         SettleTo(u, kind, mint, payer)
  PROVE  LET funded == Funded(u, mint)
             drawn == Drawn(u, kind, mint)
             rest == requests[u][kind].lamports - drawn
         IN  /\ wallets' \in [Keys -> Nat]
             /\ \A k \in Keys \ {u, payer} : wallets'[k] = wallets[k]
             /\ payer # u => /\ wallets'[payer] = wallets[payer] - funded + drawn
                             /\ wallets'[u] = wallets[u] + rest
             /\ payer = u => wallets'[u] = wallets[u] - funded + drawn + rest
<1> DEFINE funded == Funded(u, mint)
           drawn == Drawn(u, kind, mint)
           rest == requests[u][kind].lamports - drawn
           repaid == [wallets EXCEPT ![payer] = wallets[payer] - funded + drawn]
<1>1. /\ funded \in Nat /\ drawn \in Nat /\ drawn <= funded
      /\ requests[u][kind].lamports \in Nat /\ drawn <= requests[u][kind].lamports
  BY TypesUnfold, DrawnIsBounded
<1>2. rest \in Nat
  BY <1>1
<1>3. /\ wallets[payer] \in Nat /\ wallets[u] \in Nat /\ u \in Keys
      /\ wallets[payer] >= funded
  BY TypesUnfold DEF SettleTo
<1>4. wallets' = [repaid EXCEPT ![u] = repaid[u] + requests[u][kind].lamports - drawn]
  BY DEF SettleTo
<1> HIDE DEF funded, drawn
<1>5. /\ repaid \in [Keys -> Nat]
      /\ repaid[payer] = wallets[payer] - funded + drawn
      /\ \A k \in Keys \ {payer} : repaid[k] = wallets[k]
  <2>1. wallets[payer] - funded + drawn \in Nat
    BY <1>1, <1>3
  <2> QED BY <2>1 DEF RentTypeOK
<1> HIDE DEF repaid
<1>6. repaid[u] + requests[u][kind].lamports - drawn = repaid[u] + rest /\ repaid[u] + rest \in Nat
  BY <1>1, <1>2, <1>3, <1>5
<1>7. wallets' = [repaid EXCEPT ![u] = repaid[u] + rest]
  BY <1>4, <1>6
<1> HIDE DEF rest
<1>8. /\ wallets' \in [Keys -> Nat]
      /\ wallets'[u] = repaid[u] + rest
      /\ \A k \in Keys \ {u} : wallets'[k] = repaid[k]
  BY <1>3, <1>5, <1>6, <1>7
<1> QED BY <1>3, <1>5, <1>8 DEF funded, drawn, rest

\* The end of a request keeps the types, and closes that request alone.
LEMMA EndsIsTyped ==
  ASSUME RentTypeOK, NEW u \in Users, NEW kind \in Kinds, Ends(u, kind)
  PROVE  /\ RentTypeOK'
         /\ \A v \in Users, k \in Kinds : Closes(v, k) => v = u /\ k = kind
         /\ requests' = RequestClosed(u, kind)
<1>1. requests' = RequestClosed(u, kind)
  BY DEF Ends, SettleTo, CancelTo, ClosedUnpaid
<1>2. \A v \in Users, k \in Kinds : Closes(v, k) => v = u /\ k = kind
  BY <1>1, ClosedRequestIsTyped DEF Closes
<1>3. accounts' \in [Users -> [Mints -> AccountType]]
  BY PayoutAccountIsTyped DEF Ends, SettleTo, CancelTo, ClosedUnpaid, RentTypeOK
<1>4. wallets' \in [Keys -> Nat]
  <2>1. wallets[u] \in Nat /\ requests[u][kind].lamports \in Nat
    BY TypesUnfold
  <2>2. ASSUME NEW mint \in Mints, NEW payer \in Keys, SettleTo(u, kind, mint, payer)
        PROVE  wallets' \in [Keys -> Nat]
    BY <2>2, SettledWallets
  <2>3. ASSUME NEW mint \in Mints, CancelTo(u, kind, mint) PROVE wallets' \in [Keys -> Nat]
    <3>1. Funded(u, mint) \in Nat
      BY DrawnIsBounded
    <3>2. wallets[u] - Funded(u, mint) + requests[u][kind].lamports \in Nat
      BY <2>1, <2>3, <3>1 DEF CancelTo
    <3> QED BY <2>3, <3>2 DEF CancelTo, RentTypeOK
  <2>4. ASSUME ClosedUnpaid(u, kind) PROVE wallets' \in [Keys -> Nat]
    <3>1. wallets[u] + requests[u][kind].lamports \in Nat
      BY <2>1
    <3> QED BY <2>4, <3>1 DEF ClosedUnpaid, RentTypeOK
  <2> QED BY <2>2, <2>3, <2>4 DEF Ends
<1> QED BY <1>1, <1>2, <1>3, <1>4, ClosedRequestIsTyped DEF RentTypeOK

\* Every step keeps the types.
LEMMA StepIsTyped ==
  ASSUME TypeOK, [Next]_vars
  PROVE  TypeOK'
<1>1. RentTypeOK'
  BY StepForms, KeepsIsTyped, EndsIsTyped DEF TypeOK
<1>2. CASE ConfigChanges
  BY <1>1, <1>2, ConfigStepIsTyped DEF ConfigChanges, TypeOK
<1>3. CASE config' = config
  BY <1>1, <1>3 DEF TypeOK, ConfigTypeOK
<1>4. ConfigChanges \/ config' = config
  BY DEF Next, vars, OwnerSteps, SettlementSteps, Transfers, Request, DepositRequestCreate,
         WithdrawalRequestCreate, DepositRequestCancel, WithdrawalRequestCancel, CancelTo,
         CloseTokenAccount, CreateTokenAccount, GiveToAccount, GiveToRequest,
         DepositRequestResolve, WithdrawalRequestResolve, DepositRequestReject,
         WithdrawalRequestReject, SettleTo
<1> QED BY <1>2, <1>3, <1>4

\* The initial states have their types.
LEMMA InitIsTyped == Init => TypeOK
<1> SUFFICES ASSUME Init PROVE TypeOK
  OBVIOUS
<1>1. ConfigTypeOK
  BY ConfigInitIsTyped DEF Init
<1>2. NoRequest \in RequestType /\ LegacyRequest \in RequestType
  BY RentAssumption DEF NoRequest, LegacyRequest, RequestType
<1>3. \A m \in Mints : [exists |-> TRUE, lamports |-> Rent(m)] \in AccountType
  BY RentAssumption DEF Rent, AccountType
<1> QED BY <1>1, <1>2, <1>3, RentAssumption DEF Init, TypeOK, RentTypeOK

\* The config goes through its stages with its fields in their types, and
\* lamports stay natural numbers.
THEOREM TypeInvariant == Spec => []TypeOK
<1>1. TypeOK /\ [Next]_vars => TypeOK'
  BY StepIsTyped
<1> QED BY <1>1, InitIsTyped, PTL DEF Spec

-----------------------------------------------------------------------------
(* The escrow. *)

\* A request that stays as it is, or is closed, needs no new escrow.
LEMMA EscrowSurvives ==
  ASSUME RentIsEscrowed,
         \A v \in Users, k \in Kinds :
           requests'[v][k] = requests[v][k] \/ requests'[v][k] = NoRequest
  PROVE  RentIsEscrowed'
BY DEF RentIsEscrowed, NoRequest, Rent

\* Every step keeps the escrow of every open request.
LEMMA StepKeepsEscrow ==
  ASSUME TypeOK, RentIsEscrowed, [Next]_vars
  PROVE  RentIsEscrowed'
<1>1. RentTypeOK
  BY DEF TypeOK
<1>2. ASSUME NEW u \in Users, NEW kind \in Kinds, Request(u, kind) PROVE RentIsEscrowed'
  <2>1. CASE UNCHANGED rent_vars
    BY <2>1, EscrowSurvives DEF rent_vars
  <2>2. CASE ~requests[u][kind].open
    <3> DEFINE created == Excess(RequestRent, requests[u][kind].lamports)
               opened == [open |-> TRUE,
                          lamports |-> requests[u][kind].lamports + created + PayoutRentEscrow,
                          rent_escrow |-> PayoutRentEscrow]
    <3>1. requests[u][kind].lamports \in Nat /\ PayoutRentEscrow \in Nat /\ RequestRent \in Nat
      BY <1>1, TypesUnfold, EscrowCovers, RentAssumption
    <3>2. opened.lamports >= RequestRent + opened.rent_escrow
      BY <3>1 DEF Excess
    <3>3. opened.rent_escrow = PayoutRentEscrow /\ opened.open
      OBVIOUS
    <3>4. requests' = [requests EXCEPT ![u][kind] = opened]
      BY <1>2, <2>2 DEF Request
    <3> HIDE DEF opened
    <3>5. /\ requests'[u][kind] = opened
          /\ \A v \in Users, k \in Kinds : (v # u \/ k # kind) => requests'[v][k] = requests[v][k]
      BY <1>1, <3>4 DEF RentTypeOK
    <3>6. SUFFICES ASSUME NEW v \in Users, NEW k \in Kinds
                   PROVE  IF requests'[v][k].open
                            THEN /\ requests'[v][k].lamports >= RequestRent + requests'[v][k].rent_escrow
                                 /\ \/ requests'[v][k].rent_escrow = 0
                                    \/ \A mint \in Mints : requests'[v][k].rent_escrow >= Rent(mint)
                            ELSE requests'[v][k].rent_escrow = 0
      BY DEF RentIsEscrowed, Rent
    <3>7. CASE v = u /\ k = kind
      <4>1. \A mint \in Mints : PayoutRentEscrow >= Rent(mint)
        BY EscrowCovers, RentAssumption DEF Rent
      <4> QED BY <3>2, <3>3, <3>5, <3>7, <4>1
    <3>8. CASE v # u \/ k # kind
      BY <3>5, <3>8 DEF RentIsEscrowed
    <3> QED BY <3>7, <3>8
  <2> QED BY <1>2, <2>1, <2>2 DEF Request
<1>3. ASSUME NEW u \in Users, NEW mint \in Mints, CloseTokenAccount(u, mint) PROVE RentIsEscrowed'
  BY <1>3, EscrowSurvives DEF CloseTokenAccount
<1>4. ASSUME NEW u \in Users, NEW payer \in Keys, NEW mint \in Mints,
             CreateTokenAccount(u, mint, payer)
      PROVE  RentIsEscrowed'
  BY <1>4, EscrowSurvives DEF CreateTokenAccount
<1>5. ASSUME NEW u \in Users, NEW payer \in Keys, NEW mint \in Mints, NEW lamports \in Gifts,
             GiveToAccount(u, mint, payer, lamports)
      PROVE  RentIsEscrowed'
  BY <1>5, EscrowSurvives DEF GiveToAccount
<1>6. ASSUME NEW u \in Users, NEW payer \in Keys, NEW kind \in Kinds, NEW lamports \in Gifts,
             GiveToRequest(u, kind, payer, lamports)
      PROVE  RentIsEscrowed'
  <2> DEFINE given == [requests[u][kind] EXCEPT !.lamports = requests[u][kind].lamports + lamports]
  <2>1. /\ lamports \in Nat /\ requests[u][kind] \in RequestType
        /\ requests[u][kind].lamports \in Nat /\ requests[u][kind].rent_escrow \in Nat
        /\ RequestRent \in Nat
    BY <1>1, TypesUnfold, RentAssumption
  <2>2. /\ given.open = requests[u][kind].open
        /\ given.rent_escrow = requests[u][kind].rent_escrow
        /\ given.lamports = requests[u][kind].lamports + lamports
    BY <2>1 DEF RequestType
  <2>3. requests' = [requests EXCEPT ![u][kind] = given]
    BY <1>6 DEF GiveToRequest
  <2> HIDE DEF given
  <2>4. /\ requests'[u][kind] = given
        /\ \A v \in Users, k \in Kinds : (v # u \/ k # kind) => requests'[v][k] = requests[v][k]
    BY <1>1, <2>3 DEF RentTypeOK
  <2>5. SUFFICES ASSUME NEW v \in Users, NEW k \in Kinds
                 PROVE  IF requests'[v][k].open
                          THEN /\ requests'[v][k].lamports >= RequestRent + requests'[v][k].rent_escrow
                               /\ \/ requests'[v][k].rent_escrow = 0
                                  \/ \A mint \in Mints : requests'[v][k].rent_escrow >= Rent(mint)
                          ELSE requests'[v][k].rent_escrow = 0
    BY DEF RentIsEscrowed, Rent
  <2>6. CASE v = u /\ k = kind
    <3>1. requests[u][kind].open => given.lamports >= RequestRent + given.rent_escrow
      BY <2>1, <2>2 DEF RentIsEscrowed
    <3>2. IF requests[u][kind].open
            THEN \/ requests[u][kind].rent_escrow = 0
                 \/ \A mint \in Mints : requests[u][kind].rent_escrow >= Rent(mint)
            ELSE requests[u][kind].rent_escrow = 0
      BY DEF RentIsEscrowed
    <3> QED BY <2>2, <2>4, <2>6, <3>1, <3>2, Zenon
  <2>7. CASE v # u \/ k # kind
    BY <2>4, <2>7 DEF RentIsEscrowed
  <2> QED BY <2>6, <2>7
<1>7. CASE Keeps
  <2>1. CASE Transfers
    BY <1>4, <1>5, <1>6, <2>1 DEF Transfers
  <2>2. CASE UNCHANGED rent_vars
    BY <2>2, EscrowSurvives DEF rent_vars
  <2> QED BY <1>2, <1>3, <1>7, <2>1, <2>2 DEF Keeps
<1>8. ASSUME NEW u \in Users, NEW kind \in Kinds, Ends(u, kind) PROVE RentIsEscrowed'
  <2>1. requests' = RequestClosed(u, kind)
    BY <1>1, <1>8, EndsIsTyped
  <2>2. \A v \in Users, k \in Kinds :
          requests'[v][k] = requests[v][k] \/ requests'[v][k] = NoRequest
    <3>1. /\ requests'[u][kind] = NoRequest
          /\ \A v \in Users, k \in Kinds : (v # u \/ k # kind) => requests'[v][k] = requests[v][k]
      BY <1>1, <2>1, ClosedRequestIsTyped
    <3> QED BY <3>1
  <2> QED BY <2>2, EscrowSurvives
<1> QED BY <1>7, <1>8, StepForms

\* In the initial states a request is absent or older than the escrow.
LEMMA InitIsEscrowed == Init => RentIsEscrowed
<1> SUFFICES ASSUME Init, NEW u \in Users, NEW kind \in Kinds
             PROVE  /\ requests[u][kind].open =>
                         requests[u][kind].lamports >= RequestRent + requests[u][kind].rent_escrow
                    /\ requests[u][kind].rent_escrow = 0
  BY DEF RentIsEscrowed
<1>1. requests[u][kind] \in {NoRequest, LegacyRequest}
  BY DEF Init
<1> QED BY <1>1, RentAssumption DEF NoRequest, LegacyRequest

\* Every open request holds its own rent and the rent of either payout
\* account, unless it is older than the escrow.
THEOREM RequestsHoldTheirRent == Spec => []RentIsEscrowed
<1>1. TypeOK /\ RentIsEscrowed /\ [Next]_vars => RentIsEscrowed'
  BY StepKeepsEscrow
<1> QED BY <1>1, InitIsEscrowed, TypeInvariant, PTL DEF Spec

\* A settlement draws exactly what it advanced from a request that holds rent.
LEMMA EscrowRepays ==
  ASSUME RentTypeOK, RentIsEscrowed, NEW u \in Users, NEW kind \in Kinds, NEW mint \in Mints,
         requests[u][kind].open, requests[u][kind].rent_escrow # 0
  PROVE  Drawn(u, kind, mint) = Funded(u, mint)
<1>1. /\ requests[u][kind].rent_escrow >= Rent(mint)
      /\ requests[u][kind].lamports >= RequestRent + requests[u][kind].rent_escrow
  BY DEF RentIsEscrowed
<1>2. /\ Funded(u, mint) \in Nat /\ Funded(u, mint) <= Rent(mint) /\ Rent(mint) \in Nat
      /\ requests[u][kind].rent_escrow \in Nat /\ requests[u][kind].lamports \in Nat
      /\ RequestRent \in Nat
  BY DrawnIsBounded, TypesUnfold, RentAssumption
<1> QED BY <1>1, <1>2 DEF Drawn, Least

\* One settlement is free for everybody but the owner.
LEMMA EndIsFree ==
  ASSUME RentTypeOK, RentIsEscrowed, NEW u \in Users, NEW kind \in Kinds, Ends(u, kind),
         NEW k \in Keys, k # u
  PROVE  \/ wallets'[k] >= wallets[k]
         \/ /\ requests[u][kind].rent_escrow = 0
            /\ \E mint \in Mints :
                 /\ ~accounts[u][mint].exists /\ accounts'[u][mint].exists
                 /\ wallets[k] - wallets'[k] <= Rent(mint)
<1>1. wallets[k] \in Nat /\ requests[u][kind].open
  BY TypesUnfold DEF Ends, SettleTo, CancelTo, ClosedUnpaid
<1>2. ASSUME NEW mint \in Mints, NEW payer \in Keys, SettleTo(u, kind, mint, payer), k # payer
      PROVE  wallets'[k] = wallets[k]
  BY <1>2, SettledWallets
<1>3. ASSUME NEW mint \in Mints, SettleTo(u, kind, mint, k)
      PROVE  \/ wallets'[k] >= wallets[k]
             \/ /\ requests[u][kind].rent_escrow = 0
                /\ ~accounts[u][mint].exists /\ accounts'[u][mint].exists
                /\ wallets[k] - wallets'[k] <= Rent(mint)
  <2>1. wallets'[k] = wallets[k] - Funded(u, mint) + Drawn(u, kind, mint)
    BY <1>3, SettledWallets
  <2>2. /\ Funded(u, mint) \in Nat /\ Drawn(u, kind, mint) \in Nat /\ Rent(mint) \in Nat
        /\ Funded(u, mint) <= Rent(mint) /\ Drawn(u, kind, mint) <= Funded(u, mint)
        /\ accounts[u][mint].exists => Funded(u, mint) = 0
    BY DrawnIsBounded
  <2>3. accounts'[u][mint].exists
    BY <1>3, PayoutAccountIsTyped DEF SettleTo
  <2>4. CASE requests[u][kind].rent_escrow # 0
    BY <1>1, <2>1, <2>2, <2>4, EscrowRepays
  <2>5. CASE accounts[u][mint].exists
    BY <1>1, <2>1, <2>2, <2>5
  <2>6. CASE requests[u][kind].rent_escrow = 0 /\ ~accounts[u][mint].exists
    BY <1>1, <2>1, <2>2, <2>3, <2>6
  <2> QED BY <2>4, <2>5, <2>6
<1>4. ASSUME (\E mint \in Mints : CancelTo(u, kind, mint)) \/ ClosedUnpaid(u, kind)
      PROVE  wallets'[k] = wallets[k]
  BY <1>4 DEF CancelTo, ClosedUnpaid, RentTypeOK
<1> QED BY <1>1, <1>2, <1>3, <1>4 DEF Ends

\* Nobody pays for settling the request of another, unless the request is
\* older than the escrow.
THEOREM SettlementCostsNothing == Spec => SettlementIsFree
<1>1. TypeOK /\ RentIsEscrowed /\ [Next]_vars =>
        [\A u \in Users, kind \in Kinds : Closes(u, kind) =>
           \A k \in Keys \ {u} :
             \/ wallets'[k] >= wallets[k]
             \/ /\ requests[u][kind].rent_escrow = 0
                /\ \E mint \in Mints :
                     /\ ~accounts[u][mint].exists /\ accounts'[u][mint].exists
                     /\ wallets[k] - wallets'[k] <= Rent(mint)]_vars
  <2> SUFFICES ASSUME TypeOK, RentIsEscrowed, [Next]_vars,
                      NEW u \in Users, NEW kind \in Kinds, Closes(u, kind),
                      NEW k \in Keys \ {u}
               PROVE  \/ wallets'[k] >= wallets[k]
                      \/ /\ requests[u][kind].rent_escrow = 0
                         /\ \E mint \in Mints :
                              /\ ~accounts[u][mint].exists /\ accounts'[u][mint].exists
                              /\ wallets[k] - wallets'[k] <= Rent(mint)
    OBVIOUS
  <2>1. RentTypeOK
    BY DEF TypeOK
  <2>2. PICK v \in Users, c \in Kinds : Ends(v, c)
    BY <2>1, StepForms, KeepsIsTyped
  <2>3. v = u /\ c = kind
    BY <2>1, <2>2, EndsIsTyped
  <2> QED BY <2>1, <2>2, <2>3, EndIsFree
<1> QED BY <1>1, TypeInvariant, RequestsHoldTheirRent, PTL DEF Spec, SettlementIsFree

-----------------------------------------------------------------------------
(* What the owner is left with. *)

\* A user's lamports after a payout account was created, if only this account
\* and this request changed.
LEMMA HoldingsMove ==
  ASSUME RentTypeOK, RentTypeOK', NEW u \in Users, NEW kind \in Kinds, NEW mint \in Mints,
         requests' = RequestClosed(u, kind),
         accounts' = PayoutAccountCreated(u, mint)
  PROVE  Holdings(wallets', requests', accounts', u)
           = Holdings(wallets, requests, accounts, u) - wallets[u] + wallets'[u]
               - requests[u][kind].lamports + Funded(u, mint)
<1>1. /\ \A k \in Kinds : requests'[u][k] = IF k = kind THEN NoRequest ELSE requests[u][k]
      /\ \A m \in Mints : accounts'[u][m].lamports =
            accounts[u][m].lamports + (IF m = mint THEN Funded(u, mint) ELSE 0)
  <2>1. \A m \in Mints : accounts[u][m].lamports \in Nat
    BY TypesUnfold
  <2> QED BY <2>1, ClosedRequestIsTyped, PayoutAccountIsTyped
<1>2. /\ u \in Keys /\ wallets[u] \in Nat /\ wallets'[u] \in Nat /\ Funded(u, mint) \in Nat
      /\ \A k \in Kinds : requests[u][k].lamports \in Nat
      /\ \A m \in Mints : accounts[u][m].lamports \in Nat
  BY TypesUnfold, DrawnIsBounded DEF RentTypeOK
<1>3. requests'[u]["deposit"].lamports + requests'[u]["withdrawal"].lamports
        = requests[u]["deposit"].lamports + requests[u]["withdrawal"].lamports
            - requests[u][kind].lamports
  <2>1. CASE kind = "deposit"
    BY <1>1, <1>2, <2>1 DEF Kinds, NoRequest
  <2>2. CASE kind = "withdrawal"
    BY <1>1, <1>2, <2>2 DEF Kinds, NoRequest
  <2> QED BY <2>1, <2>2 DEF Kinds
<1>4. accounts'[u]["share"].lamports + accounts'[u]["deposit"].lamports
        = accounts[u]["share"].lamports + accounts[u]["deposit"].lamports + Funded(u, mint)
  <2>1. CASE mint = "share"
    BY <1>1, <1>2, <2>1 DEF Mints
  <2>2. CASE mint = "deposit"
    BY <1>1, <1>2, <2>2 DEF Mints
  <2> QED BY <2>1, <2>2 DEF Mints
<1>5. /\ requests'[u]["deposit"].lamports \in Nat /\ requests'[u]["withdrawal"].lamports \in Nat
      /\ accounts'[u]["share"].lamports \in Nat /\ accounts'[u]["deposit"].lamports \in Nat
  BY DEF RentTypeOK, RequestType, AccountType, Kinds, Mints
<1>6. /\ requests[u]["deposit"].lamports \in Nat /\ requests[u]["withdrawal"].lamports \in Nat
      /\ accounts[u]["share"].lamports \in Nat /\ accounts[u]["deposit"].lamports \in Nat
      /\ requests[u][kind].lamports \in Nat
  BY <1>2 DEF Kinds, Mints
<1>7. /\ Holdings(wallets, requests, accounts, u)
           = wallets[u] + requests[u]["deposit"].lamports + requests[u]["withdrawal"].lamports
               + accounts[u]["share"].lamports + accounts[u]["deposit"].lamports
      /\ Holdings(wallets', requests', accounts', u)
           = wallets'[u] + requests'[u]["deposit"].lamports + requests'[u]["withdrawal"].lamports
               + accounts'[u]["share"].lamports + accounts'[u]["deposit"].lamports
  BY DEF Holdings
<1> DEFINE w == wallets[u]
           w1 == wallets'[u]
           p == requests[u]["deposit"].lamports
           p1 == requests'[u]["deposit"].lamports
           q == requests[u]["withdrawal"].lamports
           q1 == requests'[u]["withdrawal"].lamports
           a == accounts[u]["share"].lamports
           a1 == accounts'[u]["share"].lamports
           b == accounts[u]["deposit"].lamports
           b1 == accounts'[u]["deposit"].lamports
           r == requests[u][kind].lamports
           f == Funded(u, mint)
           before == Holdings(wallets, requests, accounts, u)
           after == Holdings(wallets', requests', accounts', u)
<1>8. /\ w \in Nat /\ w1 \in Nat /\ p \in Nat /\ p1 \in Nat /\ q \in Nat /\ q1 \in Nat
      /\ a \in Nat /\ a1 \in Nat /\ b \in Nat /\ b1 \in Nat /\ r \in Nat /\ f \in Nat
  BY <1>2, <1>5, <1>6
<1>9. p1 + q1 = p + q - r /\ a1 + b1 = a + b + f
  BY <1>3, <1>4
<1>10. before = w + p + q + a + b /\ after = w1 + p1 + q1 + a1 + b1
  BY <1>7
<1> SUFFICES after = before - w + w1 - r + f
  OBVIOUS
<1> HIDE DEF w, w1, p, p1, q, q1, a, a1, b, b1, r, f, before, after
<1> QED BY <1>8, <1>9, <1>10

\* The end of a request leaves its owner at least what they had.
LEMMA EndKeepsHoldings ==
  ASSUME RentTypeOK, NEW u \in Users, NEW kind \in Kinds, Ends(u, kind)
  PROVE  Holdings(wallets', requests', accounts', u) >= Holdings(wallets, requests, accounts, u)
<1>1. RentTypeOK'
  BY EndsIsTyped
<1>2. /\ u \in Keys /\ wallets[u] \in Nat /\ wallets'[u] \in Nat
      /\ requests[u][kind].lamports \in Nat
      /\ Holdings(wallets, requests, accounts, u) \in Nat
      /\ Holdings(wallets', requests', accounts', u) \in Nat
  <2>1. /\ u \in Keys /\ wallets[u] \in Nat /\ wallets'[u] \in Nat
    BY <1>1, TypesUnfold DEF RentTypeOK
  <2>2. \A k \in Kinds : requests[u][k].lamports \in Nat /\ requests'[u][k].lamports \in Nat
    BY <1>1 DEF RentTypeOK, RequestType
  <2>3. \A m \in Mints : accounts[u][m].lamports \in Nat /\ accounts'[u][m].lamports \in Nat
    BY <1>1 DEF RentTypeOK, AccountType
  <2> QED BY <2>1, <2>2, <2>3 DEF Holdings, Kinds, Mints
<1>3. ASSUME NEW mint \in Mints, NEW payer \in Keys, SettleTo(u, kind, mint, payer)
      PROVE  Holdings(wallets', requests', accounts', u) >= Holdings(wallets, requests, accounts, u)
  <2>1. /\ Funded(u, mint) \in Nat /\ Drawn(u, kind, mint) \in Nat
        /\ Drawn(u, kind, mint) <= Funded(u, mint)
    BY DrawnIsBounded
  <2>2. Holdings(wallets', requests', accounts', u)
          = Holdings(wallets, requests, accounts, u) - wallets[u] + wallets'[u]
              - requests[u][kind].lamports + Funded(u, mint)
    BY <1>1, <1>3, HoldingsMove DEF SettleTo
  <2>3. wallets'[u] >= wallets[u] - Funded(u, mint) + requests[u][kind].lamports
    <3>1. CASE payer = u
      BY <1>2, <1>3, <2>1, <3>1, SettledWallets
    <3>2. CASE payer # u
      BY <1>2, <1>3, <2>1, <3>2, SettledWallets
    <3> QED BY <3>1, <3>2
  <2> QED BY <1>2, <2>1, <2>2, <2>3
<1>4. ASSUME NEW mint \in Mints, CancelTo(u, kind, mint)
      PROVE  Holdings(wallets', requests', accounts', u) >= Holdings(wallets, requests, accounts, u)
  <2>1. Funded(u, mint) \in Nat
    BY DrawnIsBounded
  <2>2. Holdings(wallets', requests', accounts', u)
          = Holdings(wallets, requests, accounts, u) - wallets[u] + wallets'[u]
              - requests[u][kind].lamports + Funded(u, mint)
    BY <1>1, <1>4, HoldingsMove DEF CancelTo
  <2>3. wallets'[u] = wallets[u] - Funded(u, mint) + requests[u][kind].lamports
    BY <1>2, <1>4 DEF CancelTo, RentTypeOK
  <2> QED BY <1>2, <2>1, <2>2, <2>3
<1>5. ASSUME ClosedUnpaid(u, kind)
      PROVE  Holdings(wallets', requests', accounts', u) >= Holdings(wallets, requests, accounts, u)
  <2>1. wallets'[u] = wallets[u] + requests[u][kind].lamports
    BY <1>2, <1>5 DEF ClosedUnpaid, RentTypeOK
  <2>2. /\ \A k \in Kinds : requests'[u][k] = IF k = kind THEN NoRequest ELSE requests[u][k]
        /\ accounts' = accounts
    BY <1>5, ClosedRequestIsTyped DEF ClosedUnpaid
  <2>3. /\ \A k \in Kinds : requests[u][k].lamports \in Nat
        /\ \A m \in Mints : accounts[u][m].lamports \in Nat
    BY TypesUnfold
  <2>4. CASE kind = "deposit"
    BY <1>2, <2>1, <2>2, <2>3, <2>4 DEF Holdings, Kinds, Mints, NoRequest
  <2>5. CASE kind = "withdrawal"
    BY <1>2, <2>1, <2>2, <2>3, <2>5 DEF Holdings, Kinds, Mints, NoRequest
  <2> QED BY <2>4, <2>5 DEF Kinds
<1> QED BY <1>3, <1>4, <1>5 DEF Ends

\* Whoever ends a request, its owner keeps what they had: the rest of the
\* request comes back, and the rent of a new account is in an account of theirs.
THEOREM OwnersKeepTheirRent == Spec => OwnerGetsTheRest
<1>1. TypeOK /\ [Next]_vars =>
        [\A u \in Users, kind \in Kinds : Closes(u, kind) =>
           Holdings(wallets', requests', accounts', u)
             >= Holdings(wallets, requests, accounts, u)]_vars
  <2> SUFFICES ASSUME TypeOK, [Next]_vars, NEW u \in Users, NEW kind \in Kinds, Closes(u, kind)
               PROVE  Holdings(wallets', requests', accounts', u)
                        >= Holdings(wallets, requests, accounts, u)
    OBVIOUS
  <2>1. RentTypeOK
    BY DEF TypeOK
  <2>2. PICK v \in Users, c \in Kinds : Ends(v, c)
    BY <2>1, StepForms, KeepsIsTyped
  <2>3. v = u /\ c = kind
    BY <2>1, <2>2, EndsIsTyped
  <2> QED BY <2>1, <2>2, <2>3, EndKeepsHoldings
<1> QED BY <1>1, TypeInvariant, PTL DEF Spec, OwnerGetsTheRest

-----------------------------------------------------------------------------
(* The handover of the admin role. *)

Admin == IF config.layout = "none" THEN NoOne ELSE config.admin
Nominee ==
  IF config.pending_admin \in {DefaultKey, config.admin} THEN NoOne ELSE config.pending_admin

\* Only the config counts for the handover.
LEMMA OtherStepsKeepConfig ==
  ASSUME [Next]_vars
  PROVE  ConfigStep \/ config' = config
BY DEF Next, vars, ConfigChanges, OwnerSteps, SettlementSteps, Transfers, Request,
       DepositRequestCreate, WithdrawalRequestCreate, DepositRequestCancel,
       WithdrawalRequestCancel, CancelTo, CloseTokenAccount, CreateTokenAccount, GiveToAccount,
       GiveToRequest, DepositRequestResolve, WithdrawalRequestResolve, DepositRequestReject,
       WithdrawalRequestReject, SettleTo

\* Every instruction on the config is a step of the handover, or leaves it alone.
LEMMA StepImplementsHandover ==
  ASSUME TypeOK, [Next]_vars
  PROVE  [Handover!Next]_<<Admin, Nominee>>
<1> USE DEF Admin, Nominee
<1>1. /\ config \in ConfigType
      /\ (config.layout = "none") => config = NoConfig
      /\ (config.layout # "none") => config.admin # DefaultKey
      /\ NoOne \notin Addresses /\ DefaultKey \notin Keys
  BY SwapAssumption, ConfigAssumption DEF TypeOK, ConfigTypeOK
<1>2. CASE config' = config
  BY <1>2
<1>3. ASSUME NEW signer \in Keys, NEW args \in Initializations, ConfigInitialize(signer, args)
      PROVE  Handover!Next
  <2>1. /\ config = NoConfig /\ config'.layout = "v2"
        /\ config'.admin = signer /\ config'.pending_admin = DefaultKey
    BY <1>1, <1>3 DEF ConfigInitialize
  <2>2. Handover!Found(signer)
    BY <1>1, <2>1 DEF Handover!Found, NoConfig
  <2> QED BY <2>2 DEF Handover!Next
<1>4. ASSUME NEW signer \in Keys, NEW args \in Updates, ConfigUpdate(signer, args)
      PROVE  Handover!Next \/ (Admin' = Admin /\ Nominee' = Nominee)
  <2>1. /\ config.layout = "v2" /\ config.admin = signer /\ args.pending_admin # DefaultKey
        /\ config'.layout = "v2" /\ config'.admin = signer
        /\ config'.pending_admin = Given(args.pending_admin, config.pending_admin)
    BY <1>1, <1>4 DEF ConfigUpdate, IsAdmin, ConfigLoads, ConfigType
  <2>2. args.pending_admin \in Keys \cup {Omitted}
    BY <2>1, ConfigAssumption DEF Addresses
  <2>3. CASE args.pending_admin = Omitted
    BY <2>1, <2>3 DEF Given
  <2>4. CASE args.pending_admin \in Keys /\ args.pending_admin # signer
    <3>1. config'.pending_admin = args.pending_admin
      BY <2>1, <2>4, ConfigAssumption DEF Given, Addresses
    <3>2. Admin = signer /\ Admin' = signer /\ Nominee' = args.pending_admin
      BY <1>1, <2>1, <2>4, <3>1
    <3>3. Handover!Nominate(args.pending_admin)
      BY <1>1, <2>4, <3>2 DEF Handover!Nominate, Addresses
    <3> QED BY <2>4, <3>3 DEF Handover!Next
  <2>5. CASE args.pending_admin = signer
    <3>1. config'.pending_admin = signer
      BY <2>1, <2>5, ConfigAssumption DEF Given, Addresses
    <3> QED BY <2>1, <3>1 DEF Handover!Next, Handover!Withdraw
  <2> QED BY <2>2, <2>3, <2>4, <2>5
<1>5. ASSUME NEW signer \in Keys, AdminAccept(signer)
      PROVE  Handover!Next \/ (Admin' = Admin /\ Nominee' = Nominee)
  <2>1. /\ config.layout = "v2" /\ config.pending_admin = signer
        /\ config'.layout = "v2" /\ config'.admin = signer /\ config'.pending_admin = DefaultKey
    BY <1>1, <1>5 DEF AdminAccept, ConfigLoads, IsNominee, ConfigType
  <2>2. CASE signer = config.admin
    BY <2>1, <2>2
  <2>3. CASE signer # config.admin
    <3>1. Nominee = signer /\ Admin' = signer /\ Nominee' = NoOne
      BY <1>1, <2>1, <2>3
    <3> QED BY <1>1, <3>1 DEF Handover!Next, Handover!TakeOver, Addresses
  <2> QED BY <2>2, <2>3
<1>6. ASSUME NEW signer \in Keys, ConfigPause(signer) PROVE Admin' = Admin /\ Nominee' = Nominee
  BY <1>1, <1>6 DEF ConfigPause, ConfigType
<1>7. ASSUME NEW signer \in Keys, ConfigMigrate(signer)
      PROVE  Admin' = Admin /\ Nominee' = Nominee
  <2>1. config.pending_admin = DefaultKey
    BY <1>7 DEF TypeOK, ConfigTypeOK, ConfigMigrate
  <2> QED BY <1>1, <1>7, <2>1 DEF ConfigMigrate, ConfigType
<1>8. CASE ConfigStep
  BY <1>3, <1>4, <1>5, <1>6, <1>7, <1>8 DEF ConfigStep
<1> QED BY <1>2, <1>8, OtherStepsKeepConfig

\* In the initial states nobody is nominated.
LEMMA InitImplementsHandover == Init => Handover!Init
<1> SUFFICES ASSUME Init PROVE Handover!Init
  OBVIOUS
<1>1. config.pending_admin = DefaultKey
  <2>1. CASE config = NoConfig
    BY <2>1 DEF NoConfig
  <2>2. CASE \E d \in Deployments : config = ConfigV1(d)
    BY <2>2 DEF ConfigV1, NoConfig
  <2> QED BY <2>1, <2>2 DEF Init, ConfigInit
<1>2. config.layout = "none" \/ config.admin \in Keys
  BY InitIsTyped DEF TypeOK, ConfigTypeOK, ConfigType, Addresses
<1> QED BY <1>1, <1>2 DEF Handover!Init

\* The admin role only passes to a nominee of its holder who accepts.
THEOREM HandoverIsImplemented == Spec => ImplementsHandover
<1>1. TypeOK /\ [Next]_vars => [Handover!Next]_<<Admin, Nominee>>
  BY StepImplementsHandover
<1> QED BY <1>1, InitImplementsHandover, TypeInvariant, PTL
        DEF Spec, ImplementsHandover, Handover!Spec, Admin, Nominee

-----------------------------------------------------------------------------
(* The slippage cap. *)

\* The two bounds of a swap round in the vault's favour, or lose less than one
\* token.
LEMMA SlippageBounds ==
  ASSUME NEW quoted_amount \in Nat, NEW cap \in 0 .. MAX_BPS, NEW amount \in Nat
  PROVE  /\ amount >= Route!MinAmountOut(quoted_amount, cap) =>
              (amount + 1) * MAX_BPS > quoted_amount * (MAX_BPS - cap)
         /\ amount <= Route!MaxAmountIn(quoted_amount, cap) =>
              amount * MAX_BPS <= quoted_amount * (MAX_BPS + cap)
<1>1. MAX_BPS \in Nat \ {0}
  BY ConfigAssumption
<1>2. \A a \in Nat : /\ a \div MAX_BPS \in Nat
                     /\ (a \div MAX_BPS) * MAX_BPS <= a
                     /\ a < (a \div MAX_BPS) * MAX_BPS + MAX_BPS
  BY <1>1, SMT
<1>3. ASSUME amount >= Route!MinAmountOut(quoted_amount, cap)
      PROVE  (amount + 1) * MAX_BPS > quoted_amount * (MAX_BPS - cap)
  <2> DEFINE a == quoted_amount * (MAX_BPS - cap)
             d == a \div MAX_BPS
  <2>1. a \in Nat
    BY <1>1, SMT
  <2>2. d \in Nat /\ a < d * MAX_BPS + MAX_BPS
    BY <1>2, <2>1
  <2>3. amount >= d
    BY <1>3 DEF Route!MinAmountOut
  <2> HIDE DEF a, d
  <2>4. (d + 1) * MAX_BPS <= (amount + 1) * MAX_BPS
    BY <1>1, <2>2, <2>3, SMT
  <2>5. (d + 1) * MAX_BPS = d * MAX_BPS + MAX_BPS
    BY <1>1, <2>2, SMT
  <2>6. /\ (d + 1) * MAX_BPS \in Nat /\ (amount + 1) * MAX_BPS \in Nat
    BY <1>1, <2>2, SMT
  <2>7. (amount + 1) * MAX_BPS > a
    BY <2>1, <2>2, <2>4, <2>5, <2>6
  <2> QED BY <2>7 DEF a
<1>4. ASSUME amount <= Route!MaxAmountIn(quoted_amount, cap)
      PROVE  amount * MAX_BPS <= quoted_amount * (MAX_BPS + cap)
  <2> DEFINE a == quoted_amount * (MAX_BPS + cap)
             d == a \div MAX_BPS
  <2>1. a \in Nat
    BY <1>1, SMT
  <2>2. d \in Nat /\ d * MAX_BPS <= a
    BY <1>2, <2>1
  <2>3. amount <= d
    BY <1>4 DEF Route!MaxAmountIn
  <2> HIDE DEF a, d
  <2>4. amount * MAX_BPS <= d * MAX_BPS /\ amount * MAX_BPS \in Nat /\ d * MAX_BPS \in Nat
    BY <1>1, <2>2, <2>3, SMT
  <2>5. amount * MAX_BPS <= a
    BY <2>1, <2>2, <2>4
  <2> QED BY <2>5 DEF a
<1> QED BY <1>3, <1>4

\* A route's quoted amount is the last but one of its arguments.
LEMMA SecondLastElement ==
  ASSUME NEW args \in Seq(Nat), Len(args) >= 2
  PROVE  args[Len(args) - 1] \in Nat
<1>1. Len(args) - 1 \in 1 .. Len(args)
  BY SMT
<1>2. \A i \in 1 .. Len(args) : args[i] \in Nat
  BY SMT
<1> QED
  BY <1>1, <1>2

\* Whatever the config went through, it gives swaps a cap that is set and at
\* most 100%, and swaps stay within it.
LEMMA TypedConfigCapsSwaps == TypeOK => SwapsRespectCap
<1> SUFFICES ASSUME TypeOK PROVE SwapsRespectCap
  OBVIOUS
<1>1. MaxSlippage \in 1 .. MAX_BPS
  BY ConfigAssumption DEF MaxSlippage, TypeOK, ConfigTypeOK, ConfigType
<1>2. ASSUME NEW swap \in Swaps, NEW spent \in Amounts, NEW received \in Amounts,
             Route!CheckAmountAndSlippage(swap.data, swap.amount, swap.slippage_bps, MaxSlippage),
             Route!SwapIsWithinBounds(swap.data, MaxSlippage, spent, received)
      PROVE  RespectsCap(swap, spent, received)
  <2> DEFINE tail == swap.data.tail
             variant == swap.data.variant
             quoted_amount == tail[Len(tail) - 1]
  <2>1. tail \in Seq(Nat) /\ swap.amount \in Nat /\ spent \in Nat /\ received \in Nat
    BY SwapAssumption
  <2>2. Len(tail) >= 2 /\ Len(tail) \in Nat
    BY <1>2, <2>1 DEF Route!CheckAmountAndSlippage, Route!ArgsTail, Route!UsesTokenLedger
  <2>3. quoted_amount \in Nat
    <3> HIDE DEF tail
    <3> QED BY <2>1, <2>2, SecondLastElement
  <2>4. Route!RouteArgs(swap.data).quoted_amount = quoted_amount
    BY DEF Route!RouteArgs
  <2>5. CASE Route!SwapMode(variant) = "ExactIn"
    <3>1. received >= Route!MinAmountOut(quoted_amount, MaxSlippage)
      BY <1>2, <2>4, <2>5 DEF Route!SwapIsWithinBounds
    <3>2. MaxSlippage \in 0 .. MAX_BPS
      BY <1>1, ConfigAssumption
    <3>3. (received + 1) * MAX_BPS > quoted_amount * (MAX_BPS - MaxSlippage)
      BY <2>1, <2>3, <3>1, <3>2, SlippageBounds
    <3> QED BY <2>5, <3>3 DEF RespectsCap
  <2>6. CASE Route!SwapMode(variant) # "ExactIn"
    <3>1. /\ spent <= Route!MaxAmountIn(quoted_amount, MaxSlippage)
          /\ received >= Route!RouteArgs(swap.data).amount
      BY <1>2, <2>4, <2>6 DEF Route!SwapIsWithinBounds
    <3>2. ~Route!UsesTokenLedger(variant)
      BY <2>6 DEF Route!SwapMode, Route!UsesTokenLedger
    <3>3. received >= swap.amount
      BY <1>2, <3>1, <3>2 DEF Route!CheckAmountAndSlippage
    <3>4. MaxSlippage \in 0 .. MAX_BPS
      BY <1>1
    <3>5. spent * MAX_BPS <= quoted_amount * (MAX_BPS + MaxSlippage)
      BY <2>1, <2>3, <3>1, <3>4, SlippageBounds
    <3> QED BY <2>6, <3>3, <3>5 DEF RespectsCap
  <2> QED BY <2>5, <2>6
<1> QED BY <1>1, <1>2 DEF SwapsRespectCap

\* A swap that goes through is within a set cap of the manager's quote.
THEOREM SwapsStayWithinCap == Spec => []SwapsRespectCap
BY TypeInvariant, TypedConfigCapsSwaps, PTL
=============================================================================
