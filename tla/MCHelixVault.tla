----------------------------- MODULE MCHelixVault ------------------------------
(***************************************************************************)
(* Instances of HelixVault for TLC.  The scale constants are small so that *)
(* rounding, interest and liquidation happen within a few steps: a basis   *)
(* point is a quarter, a year two ticks, a price is stale after one.       *)
(***************************************************************************)
EXTENDS HelixVault, TLC

CONSTANTS alice, bob, ops, oracle, shareA, shareB

\* A vault whose borrowers keep a margin to liquidation, and one without a
\* margin, which validate_config accepts as well.
Safe == [max_ltv |-> 2, liq_threshold |-> 3, liq_bonus |-> 1,
         interest_rate |-> 4, min_position |-> 2]
Thin == [max_ltv |-> 4, liq_threshold |-> 4, liq_bonus |-> 0,
         interest_rate |-> 4, min_position |-> 1]
Invalid == [max_ltv |-> 2, liq_threshold |-> 0, liq_bonus |-> 1,
            interest_rate |-> 4, min_position |-> 2]

SafeDeployment == {[admin |-> ops, oracle |-> oracle, config |-> Safe]}
SafeConfigs == {Invalid}
AllConfigs == {Safe, Thin, Invalid}

OneLiquidator == {<<ops, 1>>}
Pausers == {<<ops, 2>>, <<oracle, 2>>}

EvenRate == {<<1, 1>>}
MovingRate == {<<1, 1>>, <<3, 2>>}
===============================================================================
