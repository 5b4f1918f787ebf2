----------------------------- MODULE MCHelixBridge -----------------------------
(***************************************************************************)
(* An instance of HelixBridge for TLC: one user and the handler itself as  *)
(* the addresses, a deposit approved under two ids, and a yield report.    *)
(***************************************************************************)
EXTENDS HelixBridge, TLC

CONSTANTS alice, helixBridge, ops, evm, axelar

ToAlice == evm :> alice

Deposit == [type |-> "deposit", to |-> evm, shares |-> 2, nonce |-> 1]
Report == [type |-> "yield", assets |-> 3, nonce |-> 2]
Reported == {Deposit, Report}

From(id, p) == [id |-> id, source |-> axelar, payload |-> p]
Repeated == {From(1, Deposit), From(2, Deposit), From(3, Report)}

\* alice holds the token's admin and vault roles.
BridgedToken == {[admin |-> alice, vault |-> alice, bridge |-> helixBridge]}

SameDuration == {[mint |-> 3, burn |-> 2, duration |-> 2]}
UpToOne == {-1, 0, 1}
===============================================================================
