----------------------------- MODULE MCPayoutRent -----------------------------
(***************************************************************************)
(* A small instance of PayoutRent: one user, and a second wallet that may   *)
(* be admin, guardian, resolver or stranger.                                *)
(***************************************************************************)
EXTENDS PayoutRentProps

CONSTANTS user, other

Nothing == [pending_admin |-> Omitted, nav_updater |-> Omitted, treasury_authority |-> Omitted,
            guardian |-> Omitted, max_slippage_bps |-> Omitted, status |-> Omitted]

SomeInitializations ==
  [nav_updater : {other}, treasury_authority : {other}, guardian : {other, DefaultKey},
   max_slippage_bps : {0, 2}]

\* One argument at a time, good or bad, and one bad argument among good ones.
SomeUpdates ==
  {[Nothing EXCEPT !.pending_admin = k] : k \in Addresses}
    \cup {[Nothing EXCEPT !.max_slippage_bps = bps] : bps \in {0, 2, MAX_BPS + 1}}
    \cup {[Nothing EXCEPT !.status = status] : status \in Statuses}
    \cup {[Nothing EXCEPT !.pending_admin = user, !.guardian = DefaultKey]}

SomeDeployments == [admin : {other}, guardian : {other}, status : {"Normal", "Paused"}]

\* Every variant with slippage at and above the default cap, a route whose
\* data is too short, and one whose amount is not the argument.
SomeSwaps ==
  [data : [variant : {"Route", "SharedAccountsExactOutRoute"}, tail : {<<1, 3, 1>>, <<1, 3, 2>>}],
   amount : {1}, slippage_bps : {2}]
    \cup
  [data : [variant : Route!Variants, tail : {<<1, 3, 1>>}], amount : {1}, slippage_bps : {1}]
    \cup
  [data : [variant : {"RouteWithTokenLedger", "Route"}, tail : {<<3, 1>>}],
   amount : {2}, slippage_bps : {1}]
=============================================================================
