---------------------------- MODULE MCBridgeHandler ----------------------------
(***************************************************************************)
(* Instances of BridgeHandler for TLC: one deposit and one yield report    *)
(* approved under two message ids, a second deposit and a second report,   *)
(* and a message from a source that is not the configured one.             *)
(***************************************************************************)
EXTENDS BridgeHandler, TLC

CONSTANTS alice, bob, ops, council, evm, contractId, axelar, other

DirectOwner == (evm :> bob) @@ (contractId :> bob)

FirstDeposit == [type |-> "deposit", to |-> evm, shares |-> 2, nonce |-> 1]
SecondDeposit == [type |-> "deposit", to |-> contractId, shares |-> 1, nonce |-> 2]
OldReport == [type |-> "yield", assets |-> 2, nonce |-> 3]
NewReport == [type |-> "yield", assets |-> 3, nonce |-> 4]

AllPayloads == {FirstDeposit, SecondDeposit, OldReport, NewReport}

From(s, id, p) == [id |-> id, source |-> s, payload |-> p]

\* Deposits and reports, one of each repeated under a new id, and one from
\* elsewhere
MixedMessages ==
  {From(axelar, 1, FirstDeposit), From(other, 2, FirstDeposit),
   From(axelar, 3, SecondDeposit),
   From(axelar, 4, OldReport), From(axelar, 5, OldReport),
   From(axelar, 6, NewReport)}

Tight == {[mint |-> 2, burn |-> 1, duration |-> 1],
          [mint |-> -1, burn |-> 3, duration |-> 1],
          [mint |-> 3, burn |-> 3, duration |-> 0]}
===============================================================================
