----------------------------- MODULE JupiterRoute -----------------------------
(***************************************************************************)
(* The checks around a Jupiter swap, from protocol/jupiter.rs and          *)
(* jupiter_swap.rs.  The manager builds the route and its quote off chain;  *)
(* the vault reads the quote back out of the instruction data, checks it    *)
(* against its slippage cap before the call, and checks what moved after.   *)
(* Where a swap may run and what it does to the balances is in              *)
(* VaultStrategies.                                                         *)
(*                                                                         *)
(* Instruction data is a record: the variant its discriminator names, and  *)
(* the numbers it ends with.  The route plan in between is not read, nor is *)
(* the platform fee behind the slippage.  Data too short for its variant is *)
(* refused here; when only the discriminator fills the gap the program      *)
(* reads on and Jupiter refuses it.                                         *)
(***************************************************************************)
EXTENDS Integers, Sequences

CONSTANTS
  MAX_BPS,  \* 100%, in basis points
  U64_MAX   \* the largest token amount

Variants == {"Route", "RouteWithTokenLedger", "ExactOutRoute", "SharedAccountsRoute",
             "SharedAccountsExactOutRoute"}

\* Which side of the swap the route fixes.
SwapMode(variant) ==
  IF variant \in {"ExactOutRoute", "SharedAccountsExactOutRoute"} THEN "ExactOut" ELSE "ExactIn"

UsesTokenLedger(variant) == variant = "RouteWithTokenLedger"

\* How many numbers the data of a variant must end with.
ArgsTail(variant) == IF UsesTokenLedger(variant) THEN 2 ELSE 3

\* The arguments are counted from the end of the data.  A route with a token
\* ledger has no amount: Jupiter takes it from the ledger.
RouteArgs(swap_data) ==
  LET tail == swap_data.tail
      last == Len(tail)
  IN  [amount        |-> IF UsesTokenLedger(swap_data.variant) THEN 0 ELSE tail[last - 2],
       quoted_amount |-> tail[last - 1],
       slippage_bps  |-> tail[last]]

\* Before the call: the route agrees with the arguments of the instruction,
\* and neither slippage exceeds the cap.
CheckAmountAndSlippage(swap_data, amount, slippage_bps, max_slippage_bps) ==
  /\ swap_data.variant \in Variants
  /\ Len(swap_data.tail) >= ArgsTail(swap_data.variant)
  /\ IF UsesTokenLedger(swap_data.variant)
       THEN amount > 0
       ELSE amount = RouteArgs(swap_data).amount
  /\ slippage_bps >= RouteArgs(swap_data).slippage_bps
  /\ RouteArgs(swap_data).slippage_bps <= max_slippage_bps
  /\ slippage_bps <= max_slippage_bps

\* The smallest gain of the destination for an exact-in route.
MinAmountOut(quoted_out_amount, max_slippage_bps) ==
  (quoted_out_amount * (MAX_BPS - max_slippage_bps)) \div MAX_BPS

Mutant_MaxAmountIn(quoted_in_amount, max_slippage_bps) ==
  (quoted_in_amount * (MAX_BPS + max_slippage_bps) + MAX_BPS - 1) \div MAX_BPS

\* The largest spend of the source for an exact-out route.
MaxAmountIn(quoted_in_amount, max_slippage_bps) ==
  (quoted_in_amount * (MAX_BPS + max_slippage_bps)) \div MAX_BPS

\* After the call: spent and received are differences of balances.
SwapIsWithinBounds(swap_data, max_slippage_bps, spent, received) ==
  LET args == RouteArgs(swap_data)
  IN  \/ /\ SwapMode(swap_data.variant) = "ExactIn"
         /\ received >= MinAmountOut(args.quoted_amount, max_slippage_bps)
      \/ /\ SwapMode(swap_data.variant) = "ExactOut"
         /\ received >= args.amount
         /\ MaxAmountIn(args.quoted_amount, max_slippage_bps) <= U64_MAX
         /\ spent <= MaxAmountIn(args.quoted_amount, max_slippage_bps)
=============================================================================
