-------------------------- MODULE MCBlendOracleAdaptor -------------------------
(***************************************************************************)
(* An instance of BlendOracleAdaptor for TLC: one asset with a price, and  *)
(* one that is no Stellar contract; feeds that fail and recover, and time  *)
(* for windows to end and prices to grow old.                              *)
(***************************************************************************)
EXTENDS BlendOracleAdaptor, TLC

CONSTANTS eth, usd, reflector, dia

SameDecimals == (reflector :> 1) @@ (dia :> 1)
UsualOrder == {<<reflector, dia>>}
UpOrDown == {{}, Call}
InStep == {0}
Brief == [window |-> 1, staleness |-> 0, deviation |-> 4]
One == {Brief}

Entries == {[price |-> p, time |-> 0] : p \in {0, 1}}

WithAndWithout == {{eth, usd}, {usd}, {}}
===============================================================================
