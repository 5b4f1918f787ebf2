----------------------------- MODULE MCHelixLending -----------------------------
(***************************************************************************)
(* An instance of HelixLending for TLC: one borrower, one collateral token *)
(* and two feeds that may disagree.                                        *)
(***************************************************************************)
EXTENDS HelixLending, TLC

CONSTANTS alice, ops, oracle, share, reflector, dia

Thin == [max_ltv |-> 2, liq_threshold |-> 3, liq_bonus |-> 0,
         interest_rate |-> 0, min_position |-> 2]
Loose == [max_ltv |-> 3, liq_threshold |-> 4, liq_bonus |-> 0,
          interest_rate |-> 0, min_position |-> 1]
LooseConfig == {Loose}
OneDeployment == {[admin |-> ops, oracle |-> oracle, config |-> Thin]}

Roles == {<<ops, 1>>, <<oracle, 2>>}
EvenRate == {<<1, 1>>}

EqualDecimals == (reflector :> 1) @@ (dia :> 1)
BothFeeds == {<<reflector, dia>>}
BothCalls == {{"decimals", "lastprice"}}
InStep == {0}
Short == [window |-> 0, staleness |-> 0, deviation |-> 3]
OneTuning == {Short}
===============================================================================
