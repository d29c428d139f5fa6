--------------------------- MODULE FeeTimelockProofs ---------------------------
(***************************************************************************)
(* Proof that manager fees rise only with notice, for any delay, rates and *)
(* sequence of proposals.                                                  *)
(***************************************************************************)
EXTENDS FeeTimelock, HedgeVaultProofs

\* The date of a scheduled pair leaves the whole delay from when the pair got
\* its present value.
NoticeRuns ==
  /\ proposed_at \in Nat /\ proposed_at <= now
  /\ fees.fee_effective_ts # 0 => proposed_at + FEE_INCREASE_DELAY <= fees.fee_effective_ts

NoticeGiven ==
  (\E i \in 1 .. 2 : LivePair'[i] > LivePair[i])
    => /\ LivePair' = PendingPair
       /\ now - proposed_at >= FEE_INCREASE_DELAY
       /\ NavPosted

\* The fields of a typed schedule are numbers.
LEMMA FeesAreNat ==
  ASSUME TypeOK
  PROVE  /\ fees.performance_fee_bps \in Nat /\ fees.management_fee_bps \in Nat
         /\ fees.pending_performance_fee_bps \in Nat /\ fees.pending_management_fee_bps \in Nat
         /\ fees.fee_effective_ts \in Nat
         /\ now \in Nat /\ FEE_INCREASE_DELAY \in Nat
BY ConstantsAreNat, MathAssumption DEF TypeOK, FeeSchedules

\* Time does not run backwards, and only two kinds of steps change the schedule.
LEMMA StepsOnFeeSchedule ==
  ASSUME TypeOK, Next
  PROVE  /\ now' \in Nat /\ now <= now'
         /\ \/ UNCHANGED fees
            \/ now' = now /\ \E args \in VaultUpdates :
                 UpdateFees(args.performance_fee_bps, args.management_fee_bps)
            \/ now' = now /\ NavStep /\ fees' = ApplyPendingFees
<1>1. now \in Nat
  BY DEF TypeOK
<1>2. CASE Tick
  BY <1>1, <1>2 DEF Tick, settings
<1>3. CASE \E u \in Users : RequestStep(u)
  <2>1. PICK u \in Users : RequestStep(u)
    BY <1>3
  <2>2. CASE \/ \E amount : DepositRequestCreate(u, amount)
             \/ DepositRequestResolve(u)
             \/ RefundDeposit(u)
    BY <1>1, <2>2 DEF DepositRequestCreate, DepositRequestResolve, RefundDeposit, settings
  <2>3. CASE \/ \E amount : WithdrawalRequestCreate(u, amount)
             \/ WithdrawalRequestResolve(u)
             \/ ReturnShares(u)
    BY <1>1, <2>3 DEF WithdrawalRequestCreate, WithdrawalRequestResolve, ReturnShares, settings
  <2> QED
    BY <2>1, <2>2, <2>3 DEF RequestStep, DepositRequestCancel, DepositRequestReject,
       WithdrawalRequestCancel, WithdrawalRequestReject
<1>4. CASE NavStep
  <2>1. PICK total_assets, max_deviation_bps : UpdateNav(total_assets, max_deviation_bps)
    BY <1>4 DEF NavStep, NavUpdate, NavOverride
  <2>2. now' = now /\ fees' = ApplyPendingFees
    BY <2>1 DEF UpdateNav
  <2> QED
    BY <1>1, <1>4, <2>2
<1>5. CASE ManagerStep
  <2>1. ASSUME NEW amount, DeployIdle(amount) \/ ReturnIdle(amount) \/ VaultClaimManagerFee
        PROVE  UNCHANGED <<fees, now>>
    BY <2>1 DEF DeployIdle, ReturnIdle, VaultClaimManagerFee, settings
  <2>2. ASSUME NEW args, VaultUpdate(args)
        PROVE  now' = now /\ UpdateFees(args.performance_fee_bps, args.management_fee_bps)
    BY <2>2 DEF VaultUpdate
  <2> QED
    BY <1>1, <1>5, <2>1, <2>2 DEF ManagerStep
<1>6. CASE ProtocolStep
  <2>1. ASSUME NEW args, ConfigClaimPlatformFee \/ ConfigUpdate(args) \/ VaultPause \/ ConfigPause
        PROVE  UNCHANGED <<fees, now>>
    BY <2>1 DEF ConfigClaimPlatformFee, ConfigUpdate, VaultPause, ConfigPause, settings
  <2> QED
    BY <1>1, <1>6, <2>1 DEF ProtocolStep
<1>7. CASE SplStep
  BY <1>1, <1>7 DEF SplStep, SplTransferToIdle, SplTransferToDepositEscrow,
     SplTransferToShareEscrow, SplTransferShares, SplBurnShares, settings
<1> QED
  BY <1>2, <1>3, <1>4, <1>5, <1>6, <1>7 DEF Next

\* The manager schedules a pair with the whole delay, or lowers the live one.
LEMMA ProposalsGiveNotice ==
  ASSUME TypeOK, NoticeRuns, NEW performance_arg, NEW management_arg,
         UpdateFees(performance_arg, management_arg), now' = now, Proposal
  PROVE  NoticeRuns' /\ NoticeGiven
<1>1. proposed_at' \in {proposed_at, now}
  BY DEF Proposal
<1>2. /\ proposed_at' \in Nat /\ proposed_at' <= now'
      /\ proposed_at' + FEE_INCREASE_DELAY <= now + FEE_INCREASE_DELAY
  BY <1>1, FeesAreNat DEF NoticeRuns
<1>3. CASE UNCHANGED fees
  <2>1. proposed_at' = proposed_at
    BY <1>3 DEF Proposal, PendingPair
  <2>2. NoticeGiven
    BY <1>3, FeesAreNat DEF NoticeGiven, LivePair
  <2> QED
    BY <1>2, <1>3, <2>1, <2>2 DEF NoticeRuns
<1>4. ASSUME NEW performance \in Nat, NEW management \in Nat,
             fees' = FeesAfter(performance, management)
      PROVE  NoticeRuns' /\ NoticeGiven
  <2>1. fees \in FeeSchedules
    BY DEF TypeOK
  <2>2. CASE /\ performance <= fees.performance_fee_bps
             /\ management <= fees.management_fee_bps
    <3>1. /\ fees'.fee_effective_ts = 0
          /\ fees'.performance_fee_bps = performance /\ fees'.management_fee_bps = management
      BY <1>4, <2>2 DEF FeesAfter
    <3>2. NoticeGiven
      BY <2>2, <3>1, FeesAreNat DEF NoticeGiven, LivePair
    <3> QED
      BY <1>2, <3>1, <3>2 DEF NoticeRuns
  <2>3. CASE ~(/\ performance <= fees.performance_fee_bps
               /\ management <= fees.management_fee_bps)
    <3>1. /\ fees'.fee_effective_ts = now + FEE_INCREASE_DELAY
          /\ fees'.performance_fee_bps = fees.performance_fee_bps
          /\ fees'.management_fee_bps = fees.management_fee_bps
      BY <1>4, <2>1, <2>3 DEF FeesAfter, ScheduledFees, FeeSchedules
    <3>2. NoticeGiven
      BY <3>1, FeesAreNat DEF NoticeGiven, LivePair
    <3> QED
      BY <1>2, <3>1, <3>2 DEF NoticeRuns
  <2> QED
    BY <2>2, <2>3
<1> QED
  BY <1>3, <1>4, ConstantsAreNat DEF UpdateFees

\* Every step gives notice and keeps it running.
LEMMA StepsGiveNotice ==
  ASSUME TypeOK, NoticeRuns, [Next /\ Proposal]_TimelockVars
  PROVE  NoticeRuns' /\ [NoticeGiven]_TimelockVars
<1>1. CASE UNCHANGED TimelockVars
  BY <1>1 DEF TimelockVars, vars, settings, NoticeRuns
<1>2. CASE Next /\ Proposal
  <2>1. CASE UNCHANGED fees
    <3>1. proposed_at' = proposed_at
      BY <1>2, <2>1 DEF Proposal, PendingPair
    <3>2. NoticeGiven
      BY <2>1, FeesAreNat DEF NoticeGiven, LivePair
    <3>3. now' \in Nat /\ proposed_at' <= now'
      BY <1>2, <3>1, StepsOnFeeSchedule, FeesAreNat DEF NoticeRuns
    <3> QED
      BY <2>1, <3>1, <3>2, <3>3 DEF NoticeRuns
  <2>2. CASE now' = now /\ \E args \in VaultUpdates :
               UpdateFees(args.performance_fee_bps, args.management_fee_bps)
    BY <1>2, <2>2, ProposalsGiveNotice
  <2>3. CASE now' = now /\ NavStep /\ fees' = ApplyPendingFees /\ fees' # fees
    <3>1. /\ fees.fee_effective_ts # 0 /\ now >= fees.fee_effective_ts
          /\ fees'.fee_effective_ts = 0
          /\ LivePair' = PendingPair
      BY <2>3 DEF ApplyPendingFees, LivePair, PendingPair
    <3>2. now - proposed_at >= FEE_INCREASE_DELAY
      BY <3>1, FeesAreNat DEF NoticeRuns
    <3>3. NavPosted
      BY <2>3, NavStepsPost
    <3>4. proposed_at' \in Nat /\ proposed_at' <= now'
      BY <1>2, <2>3, FeesAreNat DEF Proposal, NoticeRuns
    <3> QED
      BY <3>1, <3>2, <3>3, <3>4 DEF NoticeRuns, NoticeGiven
  <2> QED
    BY <1>2, <2>1, <2>2, <2>3, StepsOnFeeSchedule
<1> QED
  BY <1>1, <1>2

\* A live manager fee rises only when a NAV is posted, to the pair that was
\* proposed, after the pair has stood for the whole delay: replacing, lowering
\* or omitting fees in between does not shorten the notice.
THEOREM FeeIncreasesGiveNotice == TimelockSpec => IncreasesGiveNotice
<1>1. Init /\ proposed_at = now => NoticeRuns
  BY InputsAssumption DEF Init, NoticeRuns
<1>2. Init => TypeOK /\ EpochsAreOrdered
  BY TypeInit, EpochsInit
<1>3. TypeOK /\ EpochsAreOrdered /\ [Next /\ Proposal]_TimelockVars
        => TypeOK' /\ EpochsAreOrdered'
  BY TypeStep, EpochsStep DEF TimelockVars
<1>4. TypeOK /\ NoticeRuns /\ [Next /\ Proposal]_TimelockVars => NoticeRuns'
  BY StepsGiveNotice
<1>5. TypeOK /\ NoticeRuns /\ [Next /\ Proposal]_TimelockVars =>
        [(\E i \in 1 .. 2 : LivePair'[i] > LivePair[i])
           => /\ LivePair' = PendingPair
              /\ now - proposed_at >= FEE_INCREASE_DELAY
              /\ NavPosted]_TimelockVars
  BY StepsGiveNotice DEF NoticeGiven
<1> QED
  BY <1>1, <1>2, <1>3, <1>4, <1>5, PTL DEF TimelockSpec, IncreasesGiveNotice
=============================================================================
