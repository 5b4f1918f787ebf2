---------------------------- MODULE MCOracleAdaptor ----------------------------
(***************************************************************************)
(* Instances of OracleAdaptor for TLC: two feeds, with the same decimals or *)
(* not, and settings small enough for windows and prices to grow old.      *)
(***************************************************************************)
EXTENDS OracleAdaptor, TLC

CONSTANTS eth, btc, reflector, dia

\* With equal decimals, and with a second feed that tells one digit more
SameDecimals == (reflector :> 1) @@ (dia :> 1)
MoreDecimals == (reflector :> 1) @@ (dia :> 2)

Wide == [window |-> 2, staleness |-> 1, deviation |-> 4]
Narrow == [window |-> 1, staleness |-> 0, deviation |-> 1]
UsualOrder == {<<reflector, dia>>}
EitherOrder == {<<reflector, dia>>, <<dia, reflector>>}
UpOrDown == {{}, Call}
InParts == {Call, {"lastprice"}, {"decimals"}}

One == {Wide}
Tight == [window |-> 2, staleness |-> 1, deviation |-> 0]
Narrower == {Narrow, Tight}

InStep == {0}
AheadToo == {0, 1}
===============================================================================
