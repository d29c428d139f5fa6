------------------------------ MODULE MCLiveness ------------------------------
(***************************************************************************)
(* HedgeVault with somebody who keeps trying to resolve every request.     *)
(* Resolution is permissionless, so the owner of a request is enough.      *)
(***************************************************************************)
EXTENDS MCHedgeVault

LiveSpec ==
  /\ Spec
  /\ \A u \in Users : /\ WF_vars(DepositRequestResolve(u))
                      /\ WF_vars(WithdrawalRequestResolve(u))

LivenessVaultUpdates ==
  {[NoVaultChange EXCEPT !.status = "Normal"],
   [NoVaultChange EXCEPT !.withdrawal_paused = TRUE]}

\* Every deposit with a NAV of a later epoch ends or meets one of those
\* conditions: nothing else can leave it waiting for ever.
CoveredDepositsEnd ==
  \A u \in Users :
    Covered(deposit_requests[u]) ~> (~Covered(deposit_requests[u]) \/ DepositHeld(u))

\* The same for withdrawals.
CoveredWithdrawalsEnd ==
  \A u \in Users :
    Covered(withdrawal_requests[u]) ~> (~Covered(withdrawal_requests[u]) \/ WithdrawalHeld(u))
=============================================================================
