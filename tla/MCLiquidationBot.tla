--------------------------- MODULE MCLiquidationBot ----------------------------
(***************************************************************************)
(* Instances of LiquidationBot for TLC: two users, whose positions are     *)
(* older than the events the bot can see, and one token they deposit,      *)
(* which is not the vault's first.                                         *)
(***************************************************************************)
EXTENDS LiquidationBot

CONSTANTS alice, bob, shareA, shareB

New == {None}

StartOrLookback == {0, None}

OnlyReads == {"position"}
===============================================================================
