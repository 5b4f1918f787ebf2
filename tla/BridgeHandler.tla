----------------------------- MODULE BridgeHandler -----------------------------
(***************************************************************************)
(* The Axelar bridge handler (contracts/bridge-handler/src/lib.rs): it     *)
(* mints token shares for deposits made on the other chain, applies its    *)
(* yield reports, and burns shares for withdrawals to it.                  *)
(*                                                                         *)
(* Messages reach the handler through the Axelar gateway, which approves   *)
(* them in any order and lets each be consumed once; a relayer may call    *)
(* execute at any time and again after a failure.  A failed call is undone *)
(* with everything it did, the gateway's consumption included, so it is no *)
(* step.  The gateway and the token are external: the first is the status  *)
(* of the messages, the second the balances the handler mints and burns.   *)
(***************************************************************************)
EXTENDS Integers, FiniteSets, Sequences, Functions

CONSTANTS
  Address,          \* holders of token shares
  Key,              \* 32-byte recipients: EVM addresses or contract ids
  ContractOf,       \* bytes32_to_address: the contract with that id
  NoAddress,
  Operator,         \* possible admins
  Source,           \* <<chain, address>> pairs a message may come from
  Payload,          \* decoded messages, see below
  Message,          \* [id, source, payload] as the gateway may approve them
  Limit,            \* [mint, burn, duration] arguments of set_rate_limits
  DefaultEpoch,     \* DEFAULT_EPOCH_DURATION, in ledgers
  Amount,           \* i128 arguments callers pass
  MaxI128, MaxU64,
  MaxLedger, MaxWithdrawals   \* bounds on the ledgers and the calls explored

Deposits == [type : {"deposit"}, to : Key, shares : Nat, nonce : Nat]
YieldUpdates == [type : {"yield"}, assets : Nat, nonce : Nat]
Others == [type : {"other"}]   \* withdraw messages and unknown types

ASSUME BridgeAssumption ==
  /\ IsFiniteSet(Address) /\ NoAddress \notin Address
  /\ ContractOf \in [Key -> Address]
  /\ IsFiniteSet(Payload) /\ Payload \subseteq Deposits \cup YieldUpdates \cup Others
  /\ Message \subseteq [id : Nat, source : Source, payload : Payload]
  /\ Limit \subseteq [mint : Int, burn : Int, duration : Nat]
  /\ DefaultEpoch \in Nat \ {0}
  /\ Amount \subseteq Int /\ MaxI128 \in Nat /\ MaxU64 \in Nat
  /\ MaxLedger \in Nat /\ MaxWithdrawals \in Nat

VARIABLES
  admin, source, paused, withdrawalsEnabled, limits,   \* instance storage
  processed,                \* ProcessedMessage: payloads already applied
  recipients,               \* RecipientMapping
  epochMints, epochBurns,   \* EpochMints and EpochBurns, zero when absent
  ledger,
  status,                   \* the gateway's view of each message
  outbox,                   \* withdraw messages sent through the gateway
  balances, totalAssets,    \* the token, as the handler changes it
  burned                    \* shares their holders burned on the token itself

settings == <<admin, source, paused, withdrawalsEnabled, limits>>
counters == <<epochMints, epochBurns>>
token == <<balances, totalAssets, burned>>
vars == <<settings, processed, recipients, counters, ledger, status, outbox, token>>

\* __constructor: no limits to speak of, and withdrawals off.
Init ==
  /\ admin \in Operator /\ source \in Source
  /\ paused = FALSE /\ withdrawalsEnabled = FALSE
  /\ limits = [mint |-> MaxI128, burn |-> MaxI128, duration |-> DefaultEpoch]
  /\ processed = {}
  /\ recipients = [k \in Key |-> NoAddress]
  /\ epochMints = [e \in 0 .. MaxLedger |-> 0]
  /\ epochBurns = [e \in 0 .. MaxLedger |-> 0]
  /\ ledger = 0
  /\ status = [m \in Message |-> "unknown"]
  /\ outbox = <<>>
  /\ balances = [a \in Address |-> 0] /\ totalAssets = 0 /\ burned = 0

-------------------------------------------------------------------------------
(* Reading the state *)

\* current_epoch: epochs are numbered with the duration now in force
Epoch == ledger \div limits.duration

FitsI128(n) == n <= MaxI128

\* process_deposit: a registered mapping wins over the contract the bytes name
Recipient(k) == IF recipients[k] # NoAddress THEN recipients[k] ELSE ContractOf[k]

\* Mutant: the nonce does not tell withdrawals of one ledger apart.
NonceOfLedger == <<ledger, 0>>

\* withdrawal_nonce: the ledger above the epoch's burns so far, which saturate
Nonce ==
  LET burns == epochBurns[Epoch]
  IN  <<ledger, IF burns > MaxU64 THEN MaxU64 ELSE burns>>

\* Mutant: no replay check.
UnprocessedAlways(p) == TRUE

\* require_message_not_processed: payloads are told apart by their hash, whatever
\* message id they come under
Unprocessed(p) == p \notin processed

-------------------------------------------------------------------------------
(* Writing the state *)

\* Mutant: the payload is not recorded.
MarkNothing(p) == UNCHANGED processed

MarkProcessed(p) == processed' = processed \cup {p}

\* Mutant: the epoch's count starts over with every mint.
RecordMintOverwrites(n) == epochMints' = [epochMints EXCEPT ![Epoch] = n]

RecordMint(n) == epochMints' = [epochMints EXCEPT ![Epoch] = @ + n]
RecordBurn(n) == epochBurns' = [epochBurns EXCEPT ![Epoch] = @ + n]

\* bridge_mint and bridge_burn of the token
TokenMint(to, n) ==
  /\ FitsI128(SumFunction(balances) + n)
  /\ balances' = [balances EXCEPT ![to] = @ + n]
  /\ UNCHANGED <<totalAssets, burned>>

\* Mutant: no balance check.
TokenBurnUnchecked(from, n) ==
  /\ balances' = [balances EXCEPT ![from] = @ - n]
  /\ UNCHANGED <<totalAssets, burned>>

TokenBurn(from, n) ==
  /\ n <= balances[from]
  /\ balances' = [balances EXCEPT ![from] = @ - n]
  /\ UNCHANGED <<totalAssets, burned>>

\* update_exchange_rate of the token
TokenReport(n) == n > 0 /\ totalAssets' = n /\ UNCHANGED <<balances, burned>>

\* gateway.validate_message: consumes the approval
Validate(m) ==
  /\ status[m] = "approved"
  /\ status' = [status EXCEPT ![m] = "executed"]

-------------------------------------------------------------------------------
(* execute *)

\* The checks every message type passes through
Accept(m) ==
  /\ m.source = source
  /\ Validate(m)
  /\ ~ paused
  /\ Unprocessed(m.payload)
  /\ MarkProcessed(m.payload)

\* What process_deposit does to the handler's own state
AcceptDeposit(m) ==
  LET n == m.payload.shares
  IN  /\ m.payload.type = "deposit"
      /\ Accept(m)
      /\ FitsI128(n)
      /\ epochMints[Epoch] + n <= limits.mint
      /\ RecordMint(n)
      /\ UNCHANGED <<settings, recipients, epochBurns, ledger, outbox>>

ProcessDeposit(m) ==
  AcceptDeposit(m) /\ TokenMint(Recipient(m.payload.to), m.payload.shares)

\* The report's nonce and timestamp are not read: the last one executed counts.
AcceptYieldUpdate(m) ==
  /\ m.payload.type = "yield"
  /\ Accept(m)
  /\ FitsI128(m.payload.assets)
  /\ UNCHANGED <<settings, recipients, counters, ledger, outbox>>

ProcessYieldUpdate(m) == AcceptYieldUpdate(m) /\ TokenReport(m.payload.assets)

(* Users *)

RegisterRecipient(user, k) ==
  /\ recipients' = [recipients EXCEPT ![k] = user]
  /\ UNCHANGED <<settings, processed, counters, ledger, status, outbox, token>>

\* What initiate_withdrawal does to the handler's own state; pay_gas takes the
\* user's gas tokens or fails the call.
SendWithdrawal(n, k) ==
  /\ Len(outbox) < MaxWithdrawals
  /\ ~ paused
  /\ withdrawalsEnabled
  /\ n >= 0
  /\ epochBurns[Epoch] + n <= limits.burn
  /\ outbox' = Append(outbox, [to |-> k, shares |-> n, nonce |-> Nonce,
                               destination |-> source])
  /\ RecordBurn(n)
  /\ UNCHANGED <<settings, processed, recipients, epochMints, ledger, status>>

InitiateWithdrawal(user, n, k) == SendWithdrawal(n, k) /\ TokenBurn(user, n)

(* The admin; each call carries the signature of the current one *)

SetRateLimits(l) ==
  /\ l.mint >= 0 /\ l.burn >= 0 /\ l.duration # 0
  /\ limits' = l
  /\ UNCHANGED <<admin, source, paused, withdrawalsEnabled,
                 processed, recipients, counters, ledger, status, outbox, token>>

Pause(value) ==
  /\ paused' = value
  /\ UNCHANGED <<admin, source, withdrawalsEnabled, limits,
                 processed, recipients, counters, ledger, status, outbox, token>>

SetWithdrawalsEnabled(enabled) ==
  /\ withdrawalsEnabled' = enabled
  /\ UNCHANGED <<admin, source, paused, limits,
                 processed, recipients, counters, ledger, status, outbox, token>>

SetSourceConfig(s) ==
  /\ source' = s
  /\ UNCHANGED <<admin, paused, withdrawalsEnabled, limits,
                 processed, recipients, counters, ledger, status, outbox, token>>

SetAdmin(a) ==
  /\ admin' = a
  /\ UNCHANGED <<source, paused, withdrawalsEnabled, limits,
                 processed, recipients, counters, ledger, status, outbox, token>>

(* The world around the handler *)

CloseLedger ==
  /\ ledger < MaxLedger
  /\ ledger' = ledger + 1
  /\ UNCHANGED <<settings, processed, recipients, counters, status, outbox, token>>

GatewayApprove(m) ==
  /\ status[m] = "unknown"
  /\ status' = [status EXCEPT ![m] = "approved"]
  /\ UNCHANGED <<settings, processed, recipients, counters, ledger, outbox, token>>

HolderTransfers(from, to, n) ==
  /\ n \in 1 .. balances[from]
  /\ balances' = [[balances EXCEPT ![from] = @ - n] EXCEPT ![to] = @ + n]
  /\ UNCHANGED <<settings, processed, recipients, counters, ledger, status, outbox,
                 totalAssets, burned>>

\* A holder's own burn takes a part of the assets along, as the token sees fit.
HolderBurns(from, n) ==
  /\ n \in 1 .. balances[from]
  /\ balances' = [balances EXCEPT ![from] = @ - n]
  /\ burned' = burned + n
  /\ totalAssets' \in 0 .. totalAssets
  /\ UNCHANGED <<settings, processed, recipients, counters, ledger, status, outbox>>

Next ==
  \/ \E m \in Message : ProcessDeposit(m)
  \/ \E m \in Message : ProcessYieldUpdate(m)
  \/ \E a \in Address, k \in Key : RegisterRecipient(a, k)
  \/ \E a \in Address, n \in Amount, k \in Key : InitiateWithdrawal(a, n, k)
  \/ \E l \in Limit : SetRateLimits(l)
  \/ \E b \in BOOLEAN : Pause(b)
  \/ \E b \in BOOLEAN : SetWithdrawalsEnabled(b)
  \/ \E s \in Source : SetSourceConfig(s)
  \/ \E a \in Operator : SetAdmin(a)
  \/ CloseLedger
  \/ \E m \in Message : GatewayApprove(m)
  \/ \E a, b \in Address, n \in Amount : HolderTransfers(a, b, n)
  \/ \E a \in Address, n \in Amount : HolderBurns(a, n)

Spec == Init /\ [][Next]_vars

-------------------------------------------------------------------------------
(* Properties *)

\* Types; epochs stay within the range their counters are kept for.
TypeOK ==
  /\ admin \in Operator /\ source \in Source
  /\ paused \in BOOLEAN /\ withdrawalsEnabled \in BOOLEAN
  /\ limits \in [mint : Nat, burn : Nat, duration : Nat \ {0}]
  /\ processed \subseteq Payload
  /\ recipients \in [Key -> Address \cup {NoAddress}]
  /\ epochMints \in [0 .. MaxLedger -> Nat] /\ epochBurns \in [0 .. MaxLedger -> Nat]
  /\ ledger \in 0 .. MaxLedger
  /\ status \in [Message -> {"unknown", "approved", "executed"}]
  /\ outbox \in Seq([to : Key, shares : Nat, nonce : Nat \X Nat, destination : Source])
  /\ balances \in [Address -> 0 .. MaxI128]
  /\ totalAssets \in 0 .. MaxI128 /\ burned \in Nat

\* What the deposits processed so far were worth, and the withdrawals sent.
Deposited ==
  SumFunction([p \in Payload |->
                 IF p \in processed /\ p.type = "deposit" THEN p.shares ELSE 0])

Withdrawn == SumFunction([i \in DOMAIN outbox |-> outbox[i].shares])

\* Shares on this chain are backed one for one by the other: what is held here,
\* or was burned by its holder, is what came in less what was sent back.
SupplyBacked == SumFunction(balances) + burned = Deposited - Withdrawn

\* The rate limits see everything: over all epochs, however their durations were
\* changed, the counters add up to what was minted and burned.
CountersComplete ==
  /\ SumFunction(epochMints) = Deposited
  /\ SumFunction(epochBurns) = Withdrawn

\* A payload is applied through exactly one message, even if the gateway approves
\* it under several ids, and every consumed message was applied.
AppliedThroughOneMessage ==
  /\ \A p \in processed :
       Cardinality({m \in Message : status[m] = "executed" /\ m.payload = p}) = 1
  /\ \A m \in Message : status[m] = "executed" => m.payload \in processed

\* While the epoch duration stays as constructed and the burn counter below u64,
\* no two withdrawals of a positive amount have the same payload: the other chain
\* may drop a repeated payload as a replay.
WithdrawalsDistinct ==
  (\A l \in Limit : l.duration = DefaultEpoch) =>
    \A i, j \in DOMAIN outbox :
      /\ outbox[i] = outbox[j]
      /\ outbox[i].shares > 0
      /\ outbox[i].nonce[2] < MaxU64
      => i = j

\* A yield report moves the assets once: an old report cannot come back after a
\* newer one.  Otherwise only a holder's own burn moves them.
RateMovesOncePerReport ==
  [][ totalAssets' # totalAssets /\ burned' = burned =>
        \E p \in processed' \ processed :
          p.type = "yield" /\ p.assets = totalAssets' ]_vars
===============================================================================
