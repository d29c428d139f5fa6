---------------------------- MODULE MCFeeTimelock ----------------------------
(***************************************************************************)
(* Small instance of FeeTimelock.                                          *)
(***************************************************************************)
EXTENDS MCHedgeVault, FeeTimelock

TimelockArgs == {[PlainArgs EXCEPT !.performance_fee_bps = 1, !.management_fee_bps = 1]}

\* Either fee left out, lowered, kept or raised.
TimelockUpdates ==
  {[NoVaultChange EXCEPT !.performance_fee_bps = p, !.management_fee_bps = m] :
     p, m \in {None, 0, 1, 2}}
  \cup {[NoVaultChange EXCEPT !.status = "ReduceOnly"]}
=============================================================================
