------------------------------ MODULE HelixBridge -------------------------------
(***************************************************************************)
(* The bridge handler and the token it mints and burns                     *)
(* (contracts/bridge-handler/src/lib.rs, contracts/token/src/lib.rs).      *)
(* BridgeHandler takes the token for a map of balances that always         *)
(* answers; here it is the token, which is initialized on its own, counts  *)
(* its shares itself, and lets the handler in because its bridge role is   *)
(* the handler's address.  A call of the handler and the call of the token *)
(* in it are one step and fail together.  Allowances are left out:         *)
(* transfer_from and burn_from move what transfer and burn move.  The      *)
(* token's vault role is the vault contract, which has no call to          *)
(* vault_mint or vault_burn.                                               *)
(***************************************************************************)
EXTENDS Integers, FiniteSets, Sequences, Functions

CONSTANTS
  Address, NoAddress, Amount, MaxI128, MaxLedger,   \* of both
  Key, ContractOf, Operator, Source, Payload, Message, Limit, DefaultEpoch,
  MaxU64, MaxWithdrawals,   \* of the handler
  Deployment, TokenAdmin,   \* of the token: what initialize and set_admin are given
  Handler                   \* the handler's address

VARIABLES
  admin, source, paused, withdrawalsEnabled, limits, processed, recipients,
  epochMints, epochBurns, status, outbox,   \* of the handler and its gateway
  tokenAdmin, tokenVault, tokenBridge, totalShares, authorizer,   \* of the token
  totalAssets, balances, ledger,   \* of both
  burned   \* history: shares their holders burned

H == INSTANCE BridgeHandler
T == INSTANCE HelixToken
       WITH admin <- tokenAdmin, vault <- tokenVault, bridge <- tokenBridge,
            allowances <- <<>>, Spender <- {}, Amount <- -MaxI128 .. MaxI128

ASSUME BridgedTokenAssumption ==
  /\ H!BridgeAssumption
  /\ T!TokenAssumption
  /\ Amount \subseteq -MaxI128 .. MaxI128
  /\ Handler \in Address
  /\ TokenAdmin \subseteq Address
  /\ \A d \in Deployment : d.bridge = Handler

handler == <<admin, source, paused, withdrawalsEnabled, limits, processed, recipients,
             epochMints, epochBurns, status, outbox>>
token == <<tokenAdmin, tokenVault, tokenBridge, totalShares, authorizer>>
vars == <<handler, token, totalAssets, balances, ledger, burned>>

\* The handler is a contract: it receives shares, and signs no user's call.
Holder == Address \ {Handler}

Init == H!Init /\ T!Init

-------------------------------------------------------------------------------

\* authorize_current_contract_call: the token sees the handler's signature.
AsHandler == authorizer' = Handler /\ UNCHANGED burned

ProcessDeposit(m) ==
  /\ H!AcceptDeposit(m)
  /\ T!BridgeMint(H!Recipient(m.payload.to), m.payload.shares)
  /\ AsHandler

ProcessYieldUpdate(m) ==
  /\ H!AcceptYieldUpdate(m)
  /\ T!UpdateExchangeRate(m.payload.assets)
  /\ AsHandler

InitiateWithdrawal(user, n, k) ==
  /\ H!SendWithdrawal(n, k)
  /\ T!BridgeBurn(user, n)
  /\ AsHandler

\* The handler's calls, and the gateway's, that leave the token alone
HandlerCall ==
  /\ UNCHANGED token
  /\ \/ \E u \in Holder, k \in Key : H!RegisterRecipient(u, k)
     \/ \E l \in Limit : H!SetRateLimits(l)
     \/ \E b \in BOOLEAN : H!Pause(b) \/ H!SetWithdrawalsEnabled(b)
     \/ \E s \in Source : H!SetSourceConfig(s)
     \/ \E a \in Operator : H!SetAdmin(a)
     \/ \E m \in Message : H!GatewayApprove(m)

\* The token's calls by others than the handler
TokenCall ==
  /\ UNCHANGED <<handler, burned>>
  /\ \/ \E d \in Deployment : T!Initialize(d)
     \/ \E a \in TokenAdmin : T!SetAdmin(a)
     \/ \E from \in Holder, to \in Address, n \in Amount : T!Transfer(from, to, n)

Burn(from, n) ==
  /\ UNCHANGED handler
  /\ T!Burn(from, n)
  /\ burned' = burned + n

CloseLedger == UNCHANGED token /\ H!CloseLedger

Next ==
  \/ \E m \in Message : ProcessDeposit(m) \/ ProcessYieldUpdate(m)
  \/ \E u \in Holder, n \in Amount, k \in Key : InitiateWithdrawal(u, n, k)
  \/ HandlerCall
  \/ TokenCall
  \/ \E u \in Holder, n \in Amount : Burn(u, n)
  \/ CloseLedger

Spec == Init /\ [][Next]_vars

-------------------------------------------------------------------------------
(* Properties *)

\* What was shown of the handler with a token that is only its balances, and of
\* the token with a bridge that may do anything, holds of the two together.
ImplementsParts == H!Spec /\ T!Spec

\* Deposits, withdrawals and burns between two yield reports move the rate, but
\* what all holders together are quoted stays within some report.
QuotesWithinReports ==
  LET quoted == SumFunction([a \in Address |-> T!AssetsForShares(balances[a])])
  IN  quoted > 0 => \E p \in processed : p.type = "yield" /\ quoted <= p.assets

\* Two withdrawals of a positive amount never have the same payload.
WithdrawalsDistinct == H!WithdrawalsDistinct
===============================================================================
