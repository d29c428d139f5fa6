--------------------------- MODULE MCVaultStrategies ---------------------------
(***************************************************************************)
(* Small instances of VaultStrategies.                                     *)
(***************************************************************************)
EXTENDS VaultStrategiesProps

CONSTANTS usdc, canonical, sol, spl_token, token_2022, position, trader

\* A pool of sol and usdc.
PoolOfPosition == [p \in Positions |-> [x |-> sol, y |-> usdc]]

\* A pool of wrapped and plain usdc.
StablePool == [p \in Positions |-> [x |-> canonical, y |-> usdc]]

\* Token-2022 owns sol here, so that a strategy can be given either program.
Programs == [m \in {usdc, canonical, sol} |-> IF m = sol THEN token_2022 ELSE spl_token]
=============================================================================
