------------------------------ MODULE MCFirstNav ------------------------------
(***************************************************************************)
(* HedgeVault with the price of each withdrawal request as history: the    *)
(* NAV of the first update posted after the epoch of the request.          *)
(***************************************************************************)
EXTENDS MCHedgeVault

VARIABLE first_nav  \* that NAV of each user's withdrawal request, or None

FirstNavVars == <<vars, first_nav>>

FirstNav(u) ==
  IF ~Covered(withdrawal_requests[u])' THEN None
  ELSE IF first_nav[u] = None THEN vault'.nav_per_share ELSE first_nav[u]

FirstNavSpec ==
  /\ Init /\ first_nav = [u \in Users |-> None]
  /\ [][Next /\ first_nav' = [u \in Users |-> FirstNav(u)]]_FirstNavVars

\* What README.md and withdrawal_request_cancel.rs say: a withdrawal is settled
\* at the price of the first NAV posted for it.
SettledAtFirstNav ==
  [][\A u \in Users :
       share_supply' < share_supply /\ wallets'[u] > wallets[u]
         => wallets'[u] - wallets[u] = AssetsFor(withdrawal_requests[u].amount, first_nav[u])]_FirstNavVars
=============================================================================
