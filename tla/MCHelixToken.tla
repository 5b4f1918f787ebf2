----------------------------- MODULE MCHelixToken ------------------------------
(***************************************************************************)
(* An instance of HelixToken for TLC: holders, and the contract that may   *)
(* mint.  The contract is an address like any other and can hold shares.   *)
(***************************************************************************)
EXTENDS HelixToken, TLC

CONSTANTS alice, bob, helixBridge

\* The deployer is the admin.  initialize accepts one address as the vault and
\* the bridge, which leaves two holders.
OneContract ==
  {[admin |-> alice, vault |-> helixBridge, bridge |-> helixBridge]}

SmallAmounts == {-1, 0, 1, 2}
===============================================================================
