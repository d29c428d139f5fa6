------------------------------ MODULE FeeTimelock ------------------------------
(***************************************************************************)
(* HedgeVault with the time at which the pending pair of manager fees was  *)
(* proposed, as history: whether the schedule gives depositors notice.     *)
(***************************************************************************)
EXTENDS HedgeVaultProps

VARIABLE proposed_at  \* when the pending pair got its present value

TimelockVars == <<vars, proposed_at>>

PendingPair == <<fees.pending_performance_fee_bps, fees.pending_management_fee_bps>>
LivePair == <<fees.performance_fee_bps, fees.management_fee_bps>>

Proposal == proposed_at' = IF PendingPair' = PendingPair THEN proposed_at ELSE now

TimelockSpec ==
  /\ Init /\ proposed_at = now
  /\ [][Next /\ Proposal]_TimelockVars

\* A manager fee rises only in a NAV update, to the pair that was proposed, and
\* only when that pair has stood unchanged for the whole delay.
IncreasesGiveNotice ==
  [][(\E i \in 1 .. 2 : LivePair'[i] > LivePair[i])
       => /\ LivePair' = PendingPair
          /\ now - proposed_at >= FEE_INCREASE_DELAY
          /\ NavPosted]_TimelockVars
=============================================================================
