-------------------------- MODULE BridgeHandler_proofs --------------------------
(***************************************************************************)
(* Theorems about BridgeHandler, for every set of addresses, payloads,     *)
(* messages and limits, and every bound on ledgers and withdrawals.        *)
(***************************************************************************)
EXTENDS BridgeHandler, ArithmeticTheorems

\* The token keeps the sum of its balances within i128; without it a transfer
\* between holders could not be shown to keep each balance within.
SupplyFits == SumFunction(balances) <= MaxI128

Inv ==
  /\ TypeOK
  /\ SupplyFits
  /\ SupplyBacked
  /\ CountersComplete
  /\ AppliedThroughOneMessage

\* What the accounting invariants are about
books == <<processed, status, outbox, epochMints, epochBurns, balances, burned>>

-------------------------------------------------------------------------------
(* The constants and the epochs *)

\* What a payload of each type carries
LEMMA PayloadShape ==
  ASSUME NEW p \in Payload
  PROVE  /\ p.type = "deposit" => p.to \in Key /\ p.shares \in Nat
         /\ p.type = "yield" => p.assets \in Nat
<1>1. p \in Deposits \cup YieldUpdates \cup Others
  BY BridgeAssumption
<1>2. CASE p \in Deposits
  BY <1>2 DEF Deposits
<1>3. CASE p \in YieldUpdates
  BY <1>3 DEF YieldUpdates
<1>4. CASE p \in Others
  BY <1>4 DEF Others
<1> QED
  BY <1>1, <1>2, <1>3, <1>4

\* A message carries a payload of the model.
LEMMA MessageShape ==
  ASSUME NEW m \in Message
  PROVE  m.payload \in Payload
BY BridgeAssumption

\* Whatever the duration, the epoch is one that has counters.
LEMMA EpochHasCounters ==
  ASSUME TypeOK
  PROVE  Epoch \in 0 .. MaxLedger
<1> DEFINE d == limits.duration
<1>1. ledger \in Nat /\ ledger <= MaxLedger /\ d \in Nat \ {0} /\ MaxLedger \in Nat
  BY BridgeAssumption DEF TypeOK
<1> HIDE DEF d
<1>2. ledger \div d \in Nat
  BY <1>1
<1>3. ledger \div d <= ledger
  <2>1. ledger \div d \in 0 .. ledger
    BY <1>1, QuotientAtMost
  <2> QED
    BY <2>1
<1>4. ledger \div d \in 0 .. MaxLedger
  BY <1>1, <1>2, <1>3
<1> QED
  BY <1>4 DEF Epoch, d

\* The counters sum over finitely many epochs.
LEMMA EpochsFinite == IsFiniteSet(0 .. MaxLedger)
BY BridgeAssumption, FS_Interval

-------------------------------------------------------------------------------
(* The token *)

LEMMA AddressesFinite == IsFiniteSet(Address)
BY BridgeAssumption

\* Crediting or debiting one entry of a ledger moves its sum by as much.
LEMMA EntrySum ==
  ASSUME NEW b \in [Address -> Int], NEW a \in Address, NEW n \in Int
  PROVE  /\ SumFunction(b) \in Int
         /\ SumFunction([b EXCEPT ![a] = @ + n]) = SumFunction(b) + n
         /\ SumFunction([b EXCEPT ![a] = @ - n]) = SumFunction(b) - n
<1>1. SumFunction(b) \in Int
  BY AddressesFinite, SumType
<1>2. SumFunction([b EXCEPT ![a] = @ + n]) = SumFunction(b) + n
  BY AddressesFinite, SumAdd, ZenonT(60)
<1>3. SumFunction([b EXCEPT ![a] = @ - n]) = SumFunction(b) - n
  BY AddressesFinite, SumSub, ZenonT(60)
<1> QED
  BY <1>1, <1>2, <1>3

\* A sum of balances within i128 bounds each of them.
LEMMA BalancesFit ==
  ASSUME NEW b \in [Address -> Nat], SumFunction(b) <= MaxI128
  PROVE  b \in [Address -> 0 .. MaxI128]
<1>1. /\ SumFunction(b) \in Nat
      /\ \A a \in Address : b[a] <= SumFunction(b)
  BY AddressesFinite, SumBoundsEntry
<1>2. \A a \in Address : b[a] \in 0 .. MaxI128
  BY <1>1, BridgeAssumption
<1> QED
  BY <1>2

\* Minting adds to the sum what it adds to a balance.
LEMMA MintEffect ==
  ASSUME TypeOK, NEW to \in Address, NEW n \in Nat, TokenMint(to, n)
  PROVE  /\ balances' \in [Address -> 0 .. MaxI128]
         /\ SumFunction(balances') = SumFunction(balances) + n
         /\ SumFunction(balances') <= MaxI128
         /\ totalAssets' = totalAssets /\ burned' = burned
<1>1. balances \in [Address -> Nat] /\ balances \in [Address -> Int]
  BY BridgeAssumption DEF TypeOK
<1>2. balances' = [balances EXCEPT ![to] = @ + n]
  BY DEF TokenMint
<1>3. SumFunction(balances') = SumFunction(balances) + n
  <2>1. n \in Int
    OBVIOUS
  <2>2. SumFunction([balances EXCEPT ![to] = @ + n]) = SumFunction(balances) + n
    BY <1>1, <2>1, EntrySum
  <2> QED
    BY <1>2, <2>2
<1>4. SumFunction(balances') <= MaxI128
  BY <1>3 DEF TokenMint, FitsI128
<1>5. balances' \in [Address -> Nat]
  BY <1>1, <1>2
<1>6. balances' \in [Address -> 0 .. MaxI128]
  BY <1>4, <1>5, BalancesFit
<1> QED
  BY <1>3, <1>4, <1>6 DEF TokenMint

\* Taking shares off a balance that has them takes them off the sum.
LEMMA DebitEffect ==
  ASSUME TypeOK, SupplyFits, NEW from \in Address, NEW n \in Nat,
         n <= balances[from], balances' = [balances EXCEPT ![from] = @ - n]
  PROVE  /\ balances' \in [Address -> 0 .. MaxI128]
         /\ SumFunction(balances') = SumFunction(balances) - n
         /\ SumFunction(balances') <= MaxI128
<1>1. balances \in [Address -> Nat] /\ balances \in [Address -> Int]
  BY BridgeAssumption DEF TypeOK
<1>2. SumFunction(balances') = SumFunction(balances) - n
  <2>1. n \in Int
    OBVIOUS
  <2>2. SumFunction([balances EXCEPT ![from] = @ - n]) = SumFunction(balances) - n
    BY <1>1, <2>1, EntrySum
  <2> QED
    BY <2>2
<1>3. SumFunction(balances) \in Int
  BY <1>1, AddressesFinite, SumType
<1>4. SumFunction(balances') <= MaxI128
  BY <1>2, <1>3, BridgeAssumption DEF SupplyFits
<1>5. balances' \in [Address -> Nat]
  BY <1>1
<1>6. balances' \in [Address -> 0 .. MaxI128]
  BY <1>4, <1>5, BalancesFit
<1> QED
  BY <1>2, <1>4, <1>6

\* A transfer, to oneself included, leaves the sum alone.
LEMMA TransferEffect ==
  ASSUME TypeOK, SupplyFits, NEW from \in Address, NEW to \in Address,
         NEW n \in 1 .. balances[from],
         balances' = [[balances EXCEPT ![from] = @ - n] EXCEPT ![to] = @ + n]
  PROVE  /\ balances' \in [Address -> 0 .. MaxI128]
         /\ SumFunction(balances') = SumFunction(balances)
<1> DEFINE rest == [balances EXCEPT ![from] = @ - n]
<1>1. balances \in [Address -> Nat] /\ balances \in [Address -> Int]
  BY BridgeAssumption, SMTT(30) DEF TypeOK
<1>2. n \in Nat /\ n \in Int /\ n <= balances[from]
  BY <1>1
<1>3. rest \in [Address -> Nat] /\ rest \in [Address -> Int]
  BY <1>1, <1>2
<1>4. SumFunction(rest) = SumFunction(balances) - n
  BY <1>1, <1>2, EntrySum
<1>5. SumFunction(balances) \in Int
  BY <1>1, AddressesFinite, SumType
<1>6. balances' = [rest EXCEPT ![to] = @ + n]
  OBVIOUS
<1> HIDE DEF rest
<1>7. SumFunction(balances') = SumFunction(rest) + n
  <2>1. SumFunction([rest EXCEPT ![to] = @ + n]) = SumFunction(rest) + n
    BY <1>2, <1>3, EntrySum
  <2> QED
    BY <1>6, <2>1
<1>8. SumFunction(balances') = SumFunction(balances)
  BY <1>2, <1>4, <1>5, <1>7
<1>9. balances' \in [Address -> Nat]
  BY <1>2, <1>3, <1>6
<1>10. balances' \in [Address -> 0 .. MaxI128]
  BY <1>8, <1>9, BalancesFit DEF SupplyFits
<1> QED
  BY <1>8, <1>10

-------------------------------------------------------------------------------
(* Deposits and withdrawals counted *)

\* The summands of Deposited when the payloads of P are processed
DepositsOf(P) ==
  [p \in Payload |-> IF p \in P /\ p.type = "deposit" THEN p.shares ELSE 0]

LEMMA DepositsAreCounts ==
  ASSUME NEW P
  PROVE  DepositsOf(P) \in [Payload -> Nat] /\ DepositsOf(P) \in [Payload -> Int]
<1>1. \A p \in Payload :
        (IF p \in P /\ p.type = "deposit" THEN p.shares ELSE 0) \in Nat
  BY PayloadShape
<1> QED
  BY <1>1 DEF DepositsOf

LEMMA PayloadsFinite == IsFiniteSet(Payload)
BY BridgeAssumption

LEMMA DepositedType == Deposited \in Nat
<1>1. SumFunction(DepositsOf(processed)) \in Nat
  BY PayloadsFinite, DepositsAreCounts, SumBoundsEntry
<1> QED
  BY <1>1 DEF Deposited, DepositsOf

\* A deposit is counted when its payload is processed, since it was not before.
LEMMA DepositedGrows ==
  ASSUME NEW m \in Message, AcceptDeposit(m)
  PROVE  Deposited' = Deposited + m.payload.shares
<1> DEFINE p == m.payload
           f == DepositsOf(processed)
<1>1. /\ p \in Payload /\ p.type = "deposit" /\ p.shares \in Nat
      /\ p \notin processed /\ processed' = processed \cup {p}
  BY MessageShape, PayloadShape DEF AcceptDeposit, Accept, Unprocessed, MarkProcessed
<1> HIDE DEF p
<1>2. f \in [Payload -> Int] /\ f[p] = 0
  BY <1>1, DepositsAreCounts DEF DepositsOf
<1>3. DepositsOf(processed') = [f EXCEPT ![p] = p.shares]
  BY <1>1 DEF DepositsOf
<1> HIDE DEF f
<1>4. p.shares \in Int /\ SumFunction(f) \in Int
  BY <1>1, <1>2, PayloadsFinite, SumType
<1>5. SumFunction([f EXCEPT ![p] = p.shares]) = SumFunction(f) + (p.shares - f[p])
  BY <1>1, <1>2, <1>4, PayloadsFinite, SumUpdate, ZenonT(60)
<1>6. SumFunction([f EXCEPT ![p] = p.shares]) = SumFunction(f) + p.shares
  BY <1>2, <1>4, <1>5
<1>7. Deposited = SumFunction(f) /\ Deposited' = SumFunction(DepositsOf(processed'))
  BY DEF Deposited, DepositsOf, f
<1> QED
  BY <1>3, <1>6, <1>7 DEF p

\* A yield report is none.
LEMMA DepositedStays ==
  ASSUME NEW m \in Message, AcceptYieldUpdate(m)
  PROVE  Deposited' = Deposited
<1>1. processed' = processed \cup {m.payload} /\ m.payload.type = "yield"
  BY DEF AcceptYieldUpdate, Accept, MarkProcessed
<1>2. DepositsOf(processed') = DepositsOf(processed)
  BY <1>1 DEF DepositsOf
<1>3. /\ Deposited = SumFunction(DepositsOf(processed))
      /\ Deposited' = SumFunction(DepositsOf(processed'))
  BY DEF Deposited, DepositsOf
<1> QED
  BY <1>2, <1>3

Withdrawals == [to : Key, shares : Nat, nonce : Nat \X Nat, destination : Source]

LEMMA SharesOfWithdrawal ==
  ASSUME NEW w \in Withdrawals
  PROVE  w.shares \in Nat /\ w.shares \in Int
BY DEF Withdrawals

\* The entries of a log of withdrawals, and the finite set of their numbers
LEMMA LogEntries ==
  ASSUME NEW s \in Seq(Withdrawals)
  PROVE  /\ Len(s) \in Nat /\ DOMAIN s = 1 .. Len(s)
         /\ IsFiniteSet(1 .. Len(s))
         /\ [i \in 1 .. Len(s) |-> s[i].shares] \in [1 .. Len(s) -> Nat]
         /\ [i \in 1 .. Len(s) |-> s[i].shares] \in [1 .. Len(s) -> Int]
<1>1. /\ Len(s) \in Nat /\ DOMAIN s = 1 .. Len(s)
      /\ \A i \in 1 .. Len(s) : s[i] \in Withdrawals
  OBVIOUS
<1>2. \A i \in 1 .. Len(s) : s[i].shares \in Nat /\ s[i].shares \in Int
  BY <1>1, SharesOfWithdrawal
<1>3. 1 \in Int /\ Len(s) \in Int
  BY <1>1
<1>4. IsFiniteSet(1 .. Len(s))
  BY <1>3, FS_Interval
<1> QED
  BY <1>1, <1>2, <1>4

\* The shares of a log
SharesOf(s) == [i \in 1 .. Len(s) |-> s[i].shares]

LEMMA LogAppend ==
  ASSUME NEW s \in Seq(Withdrawals), NEW w \in Withdrawals
  PROVE  /\ Append(s, w) \in Seq(Withdrawals)
         /\ SumFunction(SharesOf(Append(s, w))) = SumFunction(SharesOf(s)) + w.shares
<1> DEFINE t == Append(s, w)
           last == Len(s) + 1
           h == SharesOf(t)
<1>1. /\ t \in Seq(Withdrawals) /\ Len(t) = last
      /\ t[last] = w
      /\ \A i \in 1 .. Len(s) : t[i] = s[i]
  OBVIOUS
<1>2. Len(s) \in Nat
  BY LogEntries
<1>3. last \in 1 .. last /\ (1 .. last) \ {last} = 1 .. Len(s)
  BY <1>2
<1>4. IsFiniteSet(1 .. last) /\ h \in [1 .. last -> Int]
  BY <1>1, LogEntries DEF SharesOf
<1>5. h = [i \in 1 .. last |-> t[i].shares]
  BY <1>1 DEF SharesOf
<1>6. h[last] = w.shares
  BY <1>1, <1>3, <1>5
<1>7. [i \in (1 .. last) \ {last} |-> h[i]] = SharesOf(s)
  <2>1. \A i \in 1 .. Len(s) : i \in 1 .. last
    BY <1>2
  <2>2. \A i \in 1 .. Len(s) : h[i] = s[i].shares
    <3> HIDE DEF t, h, last
    <3> QED
      BY <1>1, <1>5, <2>1
  <2> HIDE DEF h, t, last
  <2> QED
    BY <1>3, <2>2 DEF SharesOf
<1> HIDE DEF h, last, t
<1>8. SumFunction(h) = SumFunction([i \in (1 .. last) \ {last} |-> h[i]]) + h[last]
  BY <1>3, <1>4, SumRemove
<1>9. SumFunction(h) = SumFunction(SharesOf(s)) + w.shares
  BY <1>6, <1>7, <1>8
<1> QED
  BY <1>1, <1>9 DEF h, t

LEMMA OutboxLog ==
  ASSUME TypeOK
  PROVE  /\ outbox \in Seq(Withdrawals)
         /\ Withdrawn = SumFunction(SharesOf(outbox))
<1>1. outbox \in Seq(Withdrawals)
  BY DEF TypeOK, Withdrawals
<1>2. DOMAIN outbox = 1 .. Len(outbox)
  BY <1>1, LogEntries
<1> QED
  BY <1>1, <1>2 DEF Withdrawn, SharesOf

LEMMA WithdrawnType ==
  ASSUME TypeOK
  PROVE  Withdrawn \in Nat
<1>1. /\ IsFiniteSet(1 .. Len(outbox))
      /\ SharesOf(outbox) \in [1 .. Len(outbox) -> Nat]
  BY OutboxLog, LogEntries DEF SharesOf
<1>2. SumFunction(SharesOf(outbox)) \in Nat
  BY <1>1, SumBoundsEntry
<1> QED
  BY <1>2, OutboxLog

\* A withdrawal is counted when it is sent.
LEMMA WithdrawnGrows ==
  ASSUME TypeOK, NEW w \in Withdrawals, outbox' = Append(outbox, w)
  PROVE  /\ outbox' \in Seq(Withdrawals)
         /\ Withdrawn' = Withdrawn + w.shares
<1>1. outbox \in Seq(Withdrawals) /\ Withdrawn = SumFunction(SharesOf(outbox))
  BY OutboxLog
<1>2. /\ outbox' \in Seq(Withdrawals)
      /\ SumFunction(SharesOf(outbox')) = SumFunction(SharesOf(outbox)) + w.shares
  BY <1>1, LogAppend
<1>3. DOMAIN outbox' = 1 .. Len(outbox')
  BY <1>2, LogEntries
<1>4. Withdrawn' = SumFunction(SharesOf(outbox'))
  BY <1>3 DEF Withdrawn, SharesOf
<1> QED
  BY <1>1, <1>2, <1>4

\* What an epoch's counter records is added to the sum over the epochs.
LEMMA CounterGrows ==
  ASSUME NEW c \in [0 .. MaxLedger -> Nat], NEW e \in 0 .. MaxLedger, NEW n \in Nat
  PROVE  /\ [c EXCEPT ![e] = @ + n] \in [0 .. MaxLedger -> Nat]
         /\ SumFunction([c EXCEPT ![e] = @ + n]) = SumFunction(c) + n
<1>1. c \in [0 .. MaxLedger -> Int] /\ n \in Int
  OBVIOUS
<1>2. SumFunction([c EXCEPT ![e] = @ + n]) = SumFunction(c) + n
  BY <1>1, EpochsFinite, SumAdd, ZenonT(60)
<1>3. [c EXCEPT ![e] = @ + n] \in [0 .. MaxLedger -> Nat]
  <2>1. c[e] + n \in Nat
    OBVIOUS
  <2> QED
    BY <2>1
<1> QED
  BY <1>2, <1>3

-------------------------------------------------------------------------------
(* Messages and the payloads they carry *)

\* What accepting a message does to the set of executed messages of a payload: its
\* own, which had none, now has this one.
LEMMA AcceptApplied ==
  ASSUME TypeOK, AppliedThroughOneMessage, NEW m \in Message, Accept(m)
  PROVE  AppliedThroughOneMessage'
<1> DEFINE Executed(p) == {x \in Message : status[x] = "executed" /\ x.payload = p}
           ExecutedNext(p) == {x \in Message : status'[x] = "executed" /\ x.payload = p}
<1>1. /\ status \in [Message -> {"unknown", "approved", "executed"}]
      /\ status' = [status EXCEPT ![m] = "executed"]
      /\ m.payload \notin processed /\ processed' = processed \cup {m.payload}
  BY DEF TypeOK, Accept, Validate, Unprocessed, MarkProcessed
<1>2. /\ \A p \in processed : Cardinality(Executed(p)) = 1
      /\ \A x \in Message : status[x] = "executed" => x.payload \in processed
  BY DEF AppliedThroughOneMessage
<1>3. ASSUME NEW p \in processed
      PROVE  Cardinality(ExecutedNext(p)) = 1
  <2>1. p # m.payload
    BY <1>1
  <2>2. ExecutedNext(p) = Executed(p)
    BY <1>1, <2>1
  <2> QED
    BY <1>2, <2>2
<1>4. Cardinality(ExecutedNext(m.payload)) = 1
  <2>1. ExecutedNext(m.payload) = {m}
    BY <1>1, <1>2
  <2>2. Cardinality({m}) = 1
    BY FS_Singleton
  <2> QED
    BY <2>1, <2>2
<1>5. \A p \in processed' : Cardinality(ExecutedNext(p)) = 1
  <2> HIDE DEF ExecutedNext
  <2> QED
    BY <1>1, <1>3, <1>4
<1>6. \A x \in Message : status'[x] = "executed" => x.payload \in processed'
  BY <1>1, <1>2
<1> QED
  BY <1>5, <1>6 DEF AppliedThroughOneMessage

\* An approval executes nothing.
LEMMA ApproveApplied ==
  ASSUME TypeOK, AppliedThroughOneMessage, NEW m \in Message, GatewayApprove(m)
  PROVE  AppliedThroughOneMessage'
<1>1. /\ status \in [Message -> {"unknown", "approved", "executed"}]
      /\ status[m] = "unknown" /\ status' = [status EXCEPT ![m] = "approved"]
      /\ processed' = processed
  BY DEF TypeOK, GatewayApprove
<1>2. \A x \in Message : status'[x] = "executed" <=> status[x] = "executed"
  BY <1>1
<1>3. ASSUME NEW p
      PROVE  {x \in Message : status'[x] = "executed" /\ x.payload = p} =
             {x \in Message : status[x] = "executed" /\ x.payload = p}
  BY <1>2
<1> QED
  BY <1>1, <1>2, <1>3 DEF AppliedThroughOneMessage

-------------------------------------------------------------------------------
(* The invariant *)

\* At construction nothing was minted, sent or applied.
LEMMA InitInv == Init => Inv
<1> SUFFICES ASSUME Init
             PROVE  Inv
  OBVIOUS
<1>1. TypeOK
  <2>1. /\ MaxI128 \in Nat /\ MaxLedger \in Nat /\ DefaultEpoch \in Nat \ {0}
    BY BridgeAssumption
  <2>2. outbox \in Seq([to : Key, shares : Nat, nonce : Nat \X Nat,
                        destination : Source])
    BY DEF Init
  <2>3. limits \in [mint : Nat, burn : Nat, duration : Nat \ {0}]
    BY <2>1 DEF Init
  <2>4. ledger \in 0 .. MaxLedger /\ totalAssets \in 0 .. MaxI128 /\ burned \in Nat
    BY <2>1 DEF Init
  <2>5. balances \in [Address -> 0 .. MaxI128]
    <3>1. 0 \in 0 .. MaxI128
      BY <2>1
    <3> QED
      BY <3>1 DEF Init
  <2>6. epochMints \in [0 .. MaxLedger -> Nat] /\ epochBurns \in [0 .. MaxLedger -> Nat]
    BY DEF Init
  <2>7. /\ recipients \in [Key -> Address \cup {NoAddress}]
        /\ status \in [Message -> {"unknown", "approved", "executed"}]
        /\ processed \subseteq Payload
    BY DEF Init
  <2>8. /\ admin \in Operator /\ source \in Source
        /\ paused \in BOOLEAN /\ withdrawalsEnabled \in BOOLEAN
    BY DEF Init
  <2> QED
    BY <2>2, <2>3, <2>4, <2>5, <2>6, <2>7, <2>8 DEF TypeOK
<1>2. SumFunction(balances) = 0
  <2>1. balances \in [Address -> Int] /\ \A a \in Address : balances[a] = 0
    BY DEF Init
  <2> QED
    BY <2>1, AddressesFinite, SumZero
<1>3. SumFunction(epochMints) = 0 /\ SumFunction(epochBurns) = 0
  <2>1. /\ epochMints \in [0 .. MaxLedger -> Int]
        /\ \A e \in 0 .. MaxLedger : epochMints[e] = 0
        /\ epochBurns = epochMints
    BY DEF Init
  <2> QED
    BY <2>1, EpochsFinite, SumZero
<1>4. Deposited = 0
  <2>1. \A p \in Payload : DepositsOf(processed)[p] = 0
    BY DEF Init, DepositsOf
  <2>2. SumFunction(DepositsOf(processed)) = 0
    BY <2>1, PayloadsFinite, DepositsAreCounts, SumZero
  <2> QED
    BY <2>2 DEF Deposited, DepositsOf
<1>5. Withdrawn = 0
  <2>1. outbox = <<>> /\ Len(outbox) = 0
    BY DEF Init
  <2>2. /\ IsFiniteSet(1 .. Len(outbox))
        /\ SharesOf(outbox) \in [1 .. Len(outbox) -> Int]
    BY <1>1, OutboxLog, LogEntries DEF SharesOf
  <2>3. \A i \in 1 .. Len(outbox) : SharesOf(outbox)[i] = 0
    BY <2>1
  <2>4. SumFunction(SharesOf(outbox)) = 0
    BY <2>2, <2>3, SumZero
  <2> QED
    BY <1>1, <2>4, OutboxLog
<1>6. SupplyFits /\ SupplyBacked /\ CountersComplete
  BY <1>2, <1>3, <1>4, <1>5, BridgeAssumption
     DEF Init, SupplyFits, SupplyBacked, CountersComplete
<1>7. AppliedThroughOneMessage
  BY DEF Init, AppliedThroughOneMessage
<1> QED
  BY <1>1, <1>6, <1>7 DEF Inv

\* A step that touches none of the books keeps what is said about them.
LEMMA BooksKept ==
  ASSUME Inv, TypeOK', UNCHANGED books
  PROVE  Inv'
BY DEF Inv, books, SupplyFits, SupplyBacked, CountersComplete,
       AppliedThroughOneMessage, Deposited, Withdrawn

\* A deposit is minted, counted in its epoch and marked as processed.
LEMMA DepositInv ==
  ASSUME Inv, NEW m \in Message, ProcessDeposit(m)
  PROVE  Inv'
<1> DEFINE n == m.payload.shares
           to == Recipient(m.payload.to)
<1>1. TypeOK /\ AcceptDeposit(m) /\ TokenMint(to, n)
  BY DEF Inv, ProcessDeposit
<1>2. m.payload \in Payload /\ m.payload.to \in Key /\ n \in Nat
  BY <1>1, MessageShape, PayloadShape DEF AcceptDeposit
<1>3. to \in Address
  BY <1>1, <1>2, BridgeAssumption DEF Recipient, TypeOK
<1> HIDE DEF n, to
<1>4. /\ balances' \in [Address -> 0 .. MaxI128]
      /\ SumFunction(balances') = SumFunction(balances) + n
      /\ SumFunction(balances') <= MaxI128
      /\ totalAssets' = totalAssets /\ burned' = burned
  BY <1>1, <1>2, <1>3, MintEffect
<1>5. /\ epochMints' = [epochMints EXCEPT ![Epoch] = @ + n]
      /\ UNCHANGED <<settings, recipients, epochBurns, ledger, outbox>>
  BY <1>1 DEF AcceptDeposit, RecordMint, n
<1>6. /\ epochMints' \in [0 .. MaxLedger -> Nat]
      /\ SumFunction(epochMints') = SumFunction(epochMints) + n
  BY <1>1, <1>2, <1>5, EpochHasCounters, CounterGrows DEF TypeOK
<1>7. /\ processed' \subseteq Payload
      /\ status' \in [Message -> {"unknown", "approved", "executed"}]
  BY <1>1, <1>2 DEF AcceptDeposit, Accept, Validate, MarkProcessed, TypeOK
<1>8. TypeOK'
  BY <1>1, <1>4, <1>5, <1>6, <1>7 DEF TypeOK, settings
<1>9. Deposited' = Deposited + n /\ Withdrawn' = Withdrawn
  BY <1>1, <1>5, DepositedGrows DEF n, Withdrawn
<1>10. /\ SumFunction(balances) + burned = Deposited - Withdrawn
       /\ SumFunction(epochMints) = Deposited /\ SumFunction(epochBurns) = Withdrawn
  BY DEF Inv, SupplyBacked, CountersComplete
<1>11. /\ SumFunction(balances) \in Int /\ burned \in Int
       /\ Deposited \in Int /\ Withdrawn \in Int
  <2>1. balances \in [Address -> Int]
    BY <1>1, BridgeAssumption DEF TypeOK
  <2> QED
    BY <1>1, <2>1, AddressesFinite, SumType, DepositedType, WithdrawnType DEF TypeOK
<1>12. SupplyBacked'
  BY <1>2, <1>4, <1>9, <1>10, <1>11 DEF SupplyBacked
<1>13. CountersComplete'
  BY <1>5, <1>6, <1>9, <1>10 DEF CountersComplete
<1>14. AppliedThroughOneMessage'
  BY <1>1, AcceptApplied DEF Inv, AcceptDeposit
<1> QED
  BY <1>4, <1>8, <1>12, <1>13, <1>14 DEF Inv, SupplyFits

\* A yield report moves the assets only.
LEMMA YieldInv ==
  ASSUME Inv, NEW m \in Message, ProcessYieldUpdate(m)
  PROVE  Inv'
<1>1. TypeOK /\ AcceptYieldUpdate(m) /\ TokenReport(m.payload.assets)
  BY DEF Inv, ProcessYieldUpdate
<1>2. m.payload \in Payload /\ m.payload.assets \in 0 .. MaxI128
  BY <1>1, MessageShape, PayloadShape, BridgeAssumption DEF AcceptYieldUpdate, FitsI128
<1>3. /\ UNCHANGED <<settings, recipients, counters, ledger, outbox>>
      /\ UNCHANGED <<balances, burned>>
      /\ totalAssets' = m.payload.assets
  BY <1>1 DEF AcceptYieldUpdate, TokenReport
<1>4. /\ processed' \subseteq Payload
      /\ status' \in [Message -> {"unknown", "approved", "executed"}]
  BY <1>1, <1>2 DEF AcceptYieldUpdate, Accept, Validate, MarkProcessed, TypeOK
<1>5. TypeOK'
  BY <1>1, <1>2, <1>3, <1>4 DEF TypeOK, settings, counters
<1>6. Deposited' = Deposited /\ Withdrawn' = Withdrawn
  BY <1>1, <1>3, DepositedStays DEF Withdrawn
<1>7. SupplyFits' /\ SupplyBacked' /\ CountersComplete'
  BY <1>3, <1>6 DEF Inv, SupplyFits, SupplyBacked, CountersComplete, counters
<1>8. AppliedThroughOneMessage'
  BY <1>1, AcceptApplied DEF Inv, AcceptYieldUpdate
<1> QED
  BY <1>5, <1>7, <1>8 DEF Inv

\* A withdrawal is burned, counted in its epoch and sent.
LEMMA WithdrawalInv ==
  ASSUME Inv, NEW a \in Address, NEW n \in Amount, NEW k \in Key,
         InitiateWithdrawal(a, n, k)
  PROVE  Inv'
<1> DEFINE w == [to |-> k, shares |-> n, nonce |-> Nonce, destination |-> source]
<1>1. TypeOK /\ SupplyFits /\ SendWithdrawal(n, k) /\ TokenBurn(a, n)
  BY DEF Inv, InitiateWithdrawal
<1>2. n \in Nat
  BY <1>1, BridgeAssumption DEF SendWithdrawal
<1>3. Epoch \in 0 .. MaxLedger /\ epochBurns \in [0 .. MaxLedger -> Nat]
  BY <1>1, EpochHasCounters DEF TypeOK
<1>4. Nonce \in Nat \X Nat
  <2> DEFINE burns == epochBurns[Epoch]
  <2>1. burns \in Nat
    BY <1>3
  <2>2. ledger \in Nat
    BY <1>1, BridgeAssumption DEF TypeOK
  <2> HIDE DEF burns
  <2>3. (IF burns > MaxU64 THEN MaxU64 ELSE burns) \in Nat
    BY <2>1, BridgeAssumption
  <2>4. Nonce = <<ledger, IF burns > MaxU64 THEN MaxU64 ELSE burns>>
    BY DEF Nonce, burns
  <2> QED
    BY <2>2, <2>3, <2>4
<1>5. w \in Withdrawals /\ w.shares = n
  BY <1>1, <1>2, <1>4 DEF Withdrawals, TypeOK
<1>6. /\ outbox' = Append(outbox, w)
      /\ epochBurns' = [epochBurns EXCEPT ![Epoch] = @ + n]
      /\ UNCHANGED <<settings, processed, recipients, epochMints, ledger, status>>
  BY <1>1 DEF SendWithdrawal, RecordBurn
<1>7. /\ n <= balances[a] /\ balances' = [balances EXCEPT ![a] = @ - n]
      /\ UNCHANGED <<totalAssets, burned>>
  BY <1>1 DEF TokenBurn
<1> HIDE DEF w
<1>8. /\ balances' \in [Address -> 0 .. MaxI128]
      /\ SumFunction(balances') = SumFunction(balances) - n
      /\ SumFunction(balances') <= MaxI128
  BY <1>1, <1>2, <1>7, DebitEffect
<1>9. /\ epochBurns' \in [0 .. MaxLedger -> Nat]
      /\ SumFunction(epochBurns') = SumFunction(epochBurns) + n
  BY <1>2, <1>3, <1>6, CounterGrows
<1>10. outbox' \in Seq(Withdrawals) /\ Withdrawn' = Withdrawn + n
  BY <1>1, <1>5, <1>6, WithdrawnGrows
<1>11. TypeOK'
  BY <1>1, <1>6, <1>7, <1>8, <1>9, <1>10 DEF TypeOK, settings, Withdrawals
<1>12. Deposited' = Deposited
  BY <1>6 DEF Deposited
<1>13. /\ SumFunction(balances) + burned = Deposited - Withdrawn
       /\ SumFunction(epochMints) = Deposited /\ SumFunction(epochBurns) = Withdrawn
  BY DEF Inv, SupplyBacked, CountersComplete
<1>14. /\ SumFunction(balances) \in Int /\ burned \in Int
       /\ Deposited \in Int /\ Withdrawn \in Int
  <2>1. balances \in [Address -> Int]
    BY <1>1, BridgeAssumption DEF TypeOK
  <2> QED
    BY <1>1, <2>1, AddressesFinite, SumType, DepositedType, WithdrawnType DEF TypeOK
<1>15. SupplyBacked'
  BY <1>2, <1>7, <1>8, <1>10, <1>12, <1>13, <1>14 DEF SupplyBacked
<1>16. CountersComplete'
  BY <1>6, <1>9, <1>10, <1>12, <1>13 DEF CountersComplete
<1>17. AppliedThroughOneMessage'
  BY <1>6 DEF Inv, AppliedThroughOneMessage
<1> QED
  BY <1>8, <1>11, <1>15, <1>16, <1>17 DEF Inv, SupplyFits

\* A transfer between holders keeps the sum of what they hold.
LEMMA TransferInv ==
  ASSUME Inv, NEW a \in Address, NEW b \in Address, NEW n \in Amount,
         HolderTransfers(a, b, n)
  PROVE  Inv'
<1>1. TypeOK /\ SupplyFits
  BY DEF Inv
<1>2. /\ n \in 1 .. balances[a]
      /\ balances' = [[balances EXCEPT ![a] = @ - n] EXCEPT ![b] = @ + n]
      /\ UNCHANGED <<settings, processed, recipients, counters, ledger, status, outbox,
                     totalAssets, burned>>
  BY DEF HolderTransfers
<1>3. /\ balances' \in [Address -> 0 .. MaxI128]
      /\ SumFunction(balances') = SumFunction(balances)
  BY <1>1, <1>2, TransferEffect
<1>4. TypeOK'
  BY <1>1, <1>2, <1>3 DEF TypeOK, settings, counters
<1> QED
  BY <1>2, <1>3, <1>4
     DEF Inv, SupplyFits, SupplyBacked, CountersComplete, AppliedThroughOneMessage,
         Deposited, Withdrawn, counters

\* What a holder burns on the token is no withdrawal, and stays on the books.
LEMMA HolderBurnInv ==
  ASSUME Inv, NEW a \in Address, NEW n \in Amount, HolderBurns(a, n)
  PROVE  Inv'
<1>1. TypeOK /\ SupplyFits
  BY DEF Inv
<1>2. /\ n \in 1 .. balances[a]
      /\ balances' = [balances EXCEPT ![a] = @ - n]
      /\ burned' = burned + n
      /\ totalAssets' \in 0 .. totalAssets
      /\ UNCHANGED <<settings, processed, recipients, counters, ledger, status, outbox>>
  BY DEF HolderBurns
<1>3. n \in Nat /\ n <= balances[a]
  BY <1>1, <1>2, BridgeAssumption DEF TypeOK
<1>4. /\ balances' \in [Address -> 0 .. MaxI128]
      /\ SumFunction(balances') = SumFunction(balances) - n
      /\ SumFunction(balances') <= MaxI128
  BY <1>1, <1>2, <1>3, DebitEffect
<1>5. burned' \in Nat /\ totalAssets' \in 0 .. MaxI128
  BY <1>1, <1>2, <1>3, BridgeAssumption DEF TypeOK
<1>6. TypeOK'
  BY <1>1, <1>2, <1>4, <1>5 DEF TypeOK, settings, counters
<1>7. SumFunction(balances) \in Int /\ burned \in Int
  <2>1. balances \in [Address -> Int]
    BY <1>1, BridgeAssumption DEF TypeOK
  <2> QED
    BY <1>1, <2>1, AddressesFinite, SumType DEF TypeOK
<1>8. SumFunction(balances') + burned' = SumFunction(balances) + burned
  BY <1>2, <1>3, <1>4, <1>7
<1>9. Deposited' = Deposited /\ Withdrawn' = Withdrawn
  BY <1>2 DEF Deposited, Withdrawn
<1> QED
  BY <1>2, <1>4, <1>6, <1>8, <1>9
     DEF Inv, SupplyFits, SupplyBacked, CountersComplete, AppliedThroughOneMessage,
         counters

\* Every step keeps the books.
LEMMA NextInv == Inv /\ [Next]_vars => Inv'
<1> SUFFICES ASSUME Inv, [Next]_vars
             PROVE  Inv'
  OBVIOUS
<1>0. TypeOK
  BY DEF Inv
<1>1. ASSUME NEW m \in Message, ProcessDeposit(m)
      PROVE  Inv'
  BY <1>1, DepositInv
<1>2. ASSUME NEW m \in Message, ProcessYieldUpdate(m)
      PROVE  Inv'
  BY <1>2, YieldInv
<1>3. ASSUME NEW a \in Address, NEW k \in Key, RegisterRecipient(a, k)
      PROVE  Inv'
  <2>1. TypeOK'
    BY <1>0, <1>3 DEF RegisterRecipient, TypeOK, settings, counters, token
  <2> QED
    BY <1>3, <2>1, BooksKept DEF RegisterRecipient, books, counters, token
<1>4. ASSUME NEW a \in Address, NEW n \in Amount, NEW k \in Key,
             InitiateWithdrawal(a, n, k)
      PROVE  Inv'
  BY <1>4, WithdrawalInv
<1>5. ASSUME NEW l \in Limit, SetRateLimits(l)
      PROVE  Inv'
  <2>1. limits' \in [mint : Nat, burn : Nat, duration : Nat \ {0}]
    <3>1. l \in [mint : Int, burn : Int, duration : Nat]
      BY BridgeAssumption
    <3> QED
      BY <1>5, <3>1 DEF SetRateLimits
  <2>2. TypeOK'
    BY <1>0, <1>5, <2>1 DEF SetRateLimits, TypeOK, counters, token
  <2> QED
    BY <1>5, <2>2, BooksKept DEF SetRateLimits, books, counters, token
<1>6. ASSUME NEW b \in BOOLEAN, Pause(b)
      PROVE  Inv'
  <2>1. TypeOK'
    BY <1>0, <1>6 DEF Pause, TypeOK, counters, token
  <2> QED
    BY <1>6, <2>1, BooksKept DEF Pause, books, counters, token
<1>7. ASSUME NEW b \in BOOLEAN, SetWithdrawalsEnabled(b)
      PROVE  Inv'
  <2>1. TypeOK'
    BY <1>0, <1>7 DEF SetWithdrawalsEnabled, TypeOK, counters, token
  <2> QED
    BY <1>7, <2>1, BooksKept DEF SetWithdrawalsEnabled, books, counters, token
<1>8. ASSUME NEW s \in Source, SetSourceConfig(s)
      PROVE  Inv'
  <2>1. TypeOK'
    BY <1>0, <1>8 DEF SetSourceConfig, TypeOK, counters, token
  <2> QED
    BY <1>8, <2>1, BooksKept DEF SetSourceConfig, books, counters, token
<1>9. ASSUME NEW a \in Operator, SetAdmin(a)
      PROVE  Inv'
  <2>1. TypeOK'
    BY <1>0, <1>9 DEF SetAdmin, TypeOK, counters, token
  <2> QED
    BY <1>9, <2>1, BooksKept DEF SetAdmin, books, counters, token
<1>10. CASE CloseLedger
  <2>1. ledger' \in 0 .. MaxLedger
    BY <1>0, <1>10, BridgeAssumption DEF CloseLedger, TypeOK
  <2>2. TypeOK'
    BY <1>0, <1>10, <2>1 DEF CloseLedger, TypeOK, settings, counters, token
  <2> QED
    BY <1>10, <2>2, BooksKept DEF CloseLedger, books, counters, token
<1>11. ASSUME NEW m \in Message, GatewayApprove(m)
       PROVE  Inv'
  <2>1. TypeOK'
    BY <1>0, <1>11 DEF GatewayApprove, TypeOK, settings, counters, token
  <2>2. AppliedThroughOneMessage'
    BY <1>11, ApproveApplied DEF Inv
  <2> QED
    BY <1>11, <2>1, <2>2
       DEF Inv, GatewayApprove, SupplyFits, SupplyBacked, CountersComplete, Deposited,
           Withdrawn, counters, token
<1>12. ASSUME NEW a \in Address, NEW b \in Address, NEW n \in Amount,
              HolderTransfers(a, b, n)
       PROVE  Inv'
  BY <1>12, TransferInv
<1>13. ASSUME NEW a \in Address, NEW n \in Amount, HolderBurns(a, n)
       PROVE  Inv'
  BY <1>13, HolderBurnInv
<1>14. CASE UNCHANGED vars
  <2>1. TypeOK'
    BY <1>0, <1>14 DEF vars, TypeOK, settings, counters, token
  <2> QED
    BY <1>14, <2>1, BooksKept DEF vars, books, counters, token
<1> QED
  BY <1>1, <1>2, <1>3, <1>4, <1>5, <1>6, <1>7, <1>8, <1>9, <1>10, <1>11, <1>12, <1>13,
     <1>14 DEF Next

LEMMA InvHolds == Spec => []Inv
BY InitInv, NextInv, PTL DEF Spec

-------------------------------------------------------------------------------
(* The theorems *)

\* The variables keep their types: in particular no change of the epoch duration
\* takes current_epoch out of the range its counters are kept for.
THEOREM BridgeTypeOK == Spec => []TypeOK
<1>1. Inv => TypeOK
  BY DEF Inv
<1> QED
  BY <1>1, InvHolds, PTL

\* process_deposit and initiate_withdrawal keep the shares of this chain backed one
\* for one by the other, whatever messages arrive and whatever holders do.
THEOREM BridgeSupplyBacked == Spec => []SupplyBacked
<1>1. Inv => SupplyBacked
  BY DEF Inv
<1> QED
  BY <1>1, InvHolds, PTL

\* check_and_record_mint_limit and check_and_record_burn_limit see every share
\* minted and burned, however the epochs were changed.
THEOREM BridgeCountersComplete == Spec => []CountersComplete
<1>1. Inv => CountersComplete
  BY DEF Inv
<1> QED
  BY <1>1, InvHolds, PTL

\* execute applies a payload through one message, even if the gateway approves it
\* under several ids, and consumes no message without applying it.
THEOREM BridgeAppliedThroughOneMessage == Spec => []AppliedThroughOneMessage
<1>1. Inv => AppliedThroughOneMessage
  BY DEF Inv
<1> QED
  BY <1>1, InvHolds, PTL

\* process_yield_update moves the assets once for each report.
THEOREM BridgeRateMovesOncePerReport == Spec => RateMovesOncePerReport
<1> DEFINE Moved == totalAssets' # totalAssets /\ burned' = burned
           Reported == \E p \in processed' \ processed :
                         p.type = "yield" /\ p.assets = totalAssets'
<1>1. ASSUME Inv, [Next]_vars, Moved
      PROVE  Reported
  <2>1. PICK m \in Message : ProcessYieldUpdate(m)
    <3>1. ASSUME NEW a \in Address, NEW n \in Amount, HolderBurns(a, n)
          PROVE  FALSE
      <4>1. n \in 1 .. balances[a] /\ burned' = burned + n /\ burned \in Nat
        BY <1>1, <3>1 DEF HolderBurns, Inv, TypeOK
      <4>2. n \in Int /\ n >= 1
        BY <1>1, <4>1, BridgeAssumption DEF Inv, TypeOK
      <4> QED
        BY <1>1, <4>1, <4>2
    <3> QED
      BY <1>1, <3>1
         DEF Next, vars, token, ProcessDeposit, TokenMint, RegisterRecipient,
             InitiateWithdrawal, TokenBurn, SetRateLimits, Pause, SetWithdrawalsEnabled,
             SetSourceConfig, SetAdmin, CloseLedger, GatewayApprove, HolderTransfers
  <2> QED
    BY <2>1 DEF ProcessYieldUpdate, AcceptYieldUpdate, Accept, Unprocessed,
                MarkProcessed, TokenReport
<1>2. Inv /\ [Next]_vars => [Moved => Reported]_vars
  BY <1>1
<1> QED
  BY <1>2, InvHolds, PTL DEF Spec, RateMovesOncePerReport

-------------------------------------------------------------------------------
(* Withdrawals told apart *)

\* What makes the nonce tell withdrawals of one ledger apart, as long as the epochs
\* keep their duration: an unsaturated nonce and the shares it was given for are
\* covered by the counter of the ledger it was given in.
CoveredByCounter(w) ==
  LET e == w.nonce[1] \div DefaultEpoch
  IN  /\ e \in 0 .. MaxLedger
      /\ w.nonce[2] < MaxU64 => w.nonce[2] + w.shares <= epochBurns[e]

DurationKept == \A l \in Limit : l.duration = DefaultEpoch

Told(log) ==
  \A i, j \in DOMAIN log :
    log[i] = log[j] /\ log[i].shares > 0 /\ log[i].nonce[2] < MaxU64 => i = j

NonceInv ==
  DurationKept =>
    /\ limits.duration = DefaultEpoch
    /\ \A i \in DOMAIN outbox : CoveredByCounter(outbox[i])
    /\ Told(outbox)

\* A step that sends nothing and sets no limits gives no nonce.
LEMMA NonceKept ==
  ASSUME NonceInv, UNCHANGED <<outbox, epochBurns>>,
         DurationKept => limits'.duration = DefaultEpoch
  PROVE  NonceInv'
BY DEF NonceInv, CoveredByCounter, Told, DurationKept

\* A withdrawal's nonce is above every covered one of its ledger.
LEMMA NonceGiven ==
  ASSUME Inv, NonceInv, NEW a \in Address, NEW n \in Amount, NEW k \in Key,
         InitiateWithdrawal(a, n, k)
  PROVE  NonceInv'
<1> DEFINE Covered(x, c) ==
             LET e == x.nonce[1] \div DefaultEpoch
             IN  /\ e \in 0 .. MaxLedger
                 /\ x.nonce[2] < MaxU64 => x.nonce[2] + x.shares <= c[e]
<1> SUFFICES ASSUME DurationKept
             PROVE  /\ limits'.duration = DefaultEpoch
                    /\ \A i \in DOMAIN outbox' : Covered(outbox'[i], epochBurns')
                    /\ Told(outbox')
  BY DEF NonceInv, DurationKept, Told, CoveredByCounter
<1> DEFINE w == [to |-> k, shares |-> n, nonce |-> Nonce, destination |-> source]
           burns == epochBurns[Epoch]
           last == Len(outbox) + 1
<1>1. TypeOK /\ SendWithdrawal(n, k)
  BY DEF Inv, InitiateWithdrawal
<1>2. n \in Nat
  BY <1>1, BridgeAssumption DEF SendWithdrawal
<1>3. Epoch \in 0 .. MaxLedger /\ epochBurns \in [0 .. MaxLedger -> Nat]
  BY <1>1, EpochHasCounters DEF TypeOK
<1>4. /\ limits.duration = DefaultEpoch
      /\ \A i \in DOMAIN outbox : Covered(outbox[i], epochBurns)
      /\ Told(outbox)
  BY DEF NonceInv, CoveredByCounter
<1>5. Epoch = ledger \div DefaultEpoch
  BY <1>4 DEF Epoch
<1>6. burns \in Nat
  BY <1>3
<1>7. /\ w.shares = n /\ w.nonce[1] = ledger
      /\ w.nonce[2] < MaxU64 => w.nonce[2] = burns
  <2>1. w.nonce[2] = IF burns > MaxU64 THEN MaxU64 ELSE burns
    BY DEF Nonce
  <2>2. w.shares = n /\ w.nonce[1] = ledger
    BY DEF Nonce
  <2> HIDE DEF w, burns
  <2>3. w.nonce[2] < MaxU64 => w.nonce[2] = burns
    BY <1>6, <2>1, BridgeAssumption
  <2> QED
    BY <2>2, <2>3
<1>8. /\ outbox' = Append(outbox, w)
      /\ epochBurns' = [epochBurns EXCEPT ![Epoch] = @ + n]
      /\ limits' = limits
  BY <1>1 DEF SendWithdrawal, RecordBurn, settings
<1> HIDE DEF w
<1>9. /\ DOMAIN outbox = 1 .. Len(outbox) /\ Len(outbox) \in Nat
      /\ DOMAIN outbox' = 1 .. last
      /\ outbox'[last] = w
      /\ \A i \in DOMAIN outbox : outbox'[i] = outbox[i]
  <2>1. outbox \in Seq(Withdrawals)
    BY <1>1, OutboxLog
  <2> QED
    BY <1>8, <2>1
<1>10. \A i \in DOMAIN outbox' : i = last \/ i \in DOMAIN outbox
  BY <1>9
<1>11. \A i \in DOMAIN outbox :
         outbox[i].nonce[2] \in Nat /\ outbox[i].shares \in Nat
  <2>1. outbox \in Seq(Withdrawals)
    BY <1>1, OutboxLog
  <2>2. \A i \in DOMAIN outbox : outbox[i] \in Withdrawals
    BY <2>1
  <2> QED
    BY <2>2 DEF Withdrawals
<1> HIDE DEF last
<1>12. epochBurns'[Epoch] = burns + n
  BY <1>3, <1>8
<1>13. \A e \in 0 .. MaxLedger : epochBurns'[e] \in Nat /\ epochBurns[e] <= epochBurns'[e]
  BY <1>2, <1>3, <1>8
<1>14. ASSUME NEW i \in DOMAIN outbox'
       PROVE  Covered(outbox'[i], epochBurns')
  <2>1. CASE i \in DOMAIN outbox
    <3> DEFINE e == outbox[i].nonce[1] \div DefaultEpoch
               x == outbox[i].nonce[2]
               y == outbox[i].shares
    <3>1. outbox'[i] = outbox[i] /\ x \in Nat /\ y \in Nat
      BY <1>9, <1>11, <2>1
    <3>2. e \in 0 .. MaxLedger /\ (x < MaxU64 => x + y <= epochBurns[e])
      BY <1>4, <2>1
    <3> HIDE DEF e, x, y
    <3>3. epochBurns[e] \in Nat /\ epochBurns'[e] \in Nat /\ epochBurns[e] <= epochBurns'[e]
      BY <1>3, <1>13, <3>2
    <3>4. x < MaxU64 => x + y <= epochBurns'[e]
      BY <3>1, <3>2, <3>3
    <3> QED
      BY <3>1, <3>2, <3>4 DEF e, x, y
  <2>2. CASE i = last
    <3>1. outbox'[i] = w
      BY <1>9, <2>2
    <3>2. w.nonce[1] \div DefaultEpoch = Epoch
      BY <1>5, <1>7
    <3>3. w.nonce[2] < MaxU64 => w.nonce[2] + w.shares <= epochBurns'[Epoch]
      BY <1>2, <1>6, <1>7, <1>12
    <3> QED
      BY <1>3, <3>1, <3>2, <3>3
  <2> QED
    BY <1>10, <2>1, <2>2
<1>15. ASSUME NEW i \in DOMAIN outbox, outbox[i] = w, n > 0, w.nonce[2] < MaxU64
       PROVE  FALSE
  <2>1. w.nonce[2] + w.shares <= epochBurns[w.nonce[1] \div DefaultEpoch]
    BY <1>4, <1>15
  <2>2. burns + n <= burns
    BY <1>5, <1>7, <1>15, <2>1
  <2> QED
    BY <1>2, <1>6, <1>15, <2>2
<1>16. Told(outbox')
  <2>1. ASSUME NEW i \in DOMAIN outbox', NEW j \in DOMAIN outbox', outbox'[i] = outbox'[j],
               outbox'[i].shares > 0, outbox'[i].nonce[2] < MaxU64
        PROVE  i = j
    <3>1. CASE i \in DOMAIN outbox /\ j \in DOMAIN outbox
      BY <1>4, <1>9, <2>1, <3>1 DEF Told
    <3>2. CASE i = last /\ j \in DOMAIN outbox
      BY <1>7, <1>9, <1>15, <2>1, <3>2
    <3>3. CASE i \in DOMAIN outbox /\ j = last
      BY <1>7, <1>9, <1>15, <2>1, <3>3
    <3> QED
      BY <1>10, <3>1, <3>2, <3>3
  <2> QED
    BY <2>1 DEF Told
<1> QED
  BY <1>4, <1>8, <1>14, <1>16

LEMMA InitNonce == Init => NonceInv
<1> SUFFICES ASSUME Init
             PROVE  NonceInv
  OBVIOUS
<1>1. limits.duration = DefaultEpoch /\ DOMAIN outbox = {}
  BY DEF Init
<1> QED
  BY <1>1 DEF NonceInv, Told

LEMMA NextNonce == Inv /\ NonceInv /\ [Next]_vars => NonceInv'
<1> SUFFICES ASSUME Inv, NonceInv, [Next]_vars
             PROVE  NonceInv'
  OBVIOUS
<1>1. ASSUME NEW a \in Address, NEW n \in Amount, NEW k \in Key,
             InitiateWithdrawal(a, n, k)
      PROVE  NonceInv'
  BY <1>1, NonceGiven
<1>2. ASSUME NEW l \in Limit, SetRateLimits(l)
      PROVE  NonceInv'
  <2>1. DurationKept => limits'.duration = DefaultEpoch
    BY <1>2 DEF SetRateLimits, DurationKept
  <2> QED
    BY <1>2, <2>1, NonceKept DEF SetRateLimits, counters
<1>3. CASE UNCHANGED <<outbox, epochBurns, limits>>
  <2>1. DurationKept => limits'.duration = DefaultEpoch
    BY <1>3 DEF NonceInv
  <2> QED
    BY <1>3, <2>1, NonceKept
<1> QED
  BY <1>1, <1>2, <1>3
     DEF Next, vars, settings, counters, token, ProcessDeposit, AcceptDeposit,
         ProcessYieldUpdate, AcceptYieldUpdate, RegisterRecipient, Pause,
         SetWithdrawalsEnabled, SetSourceConfig, SetAdmin, CloseLedger, GatewayApprove,
         HolderTransfers, HolderBurns

\* initiate_withdrawal never sends a payload twice while the epoch duration stays as
\* constructed and the burn counter below u64: the other chain may drop repetitions.
THEOREM BridgeWithdrawalsDistinct == Spec => []WithdrawalsDistinct
<1>1. Init => Inv /\ NonceInv
  BY InitInv, InitNonce
<1>2. Inv /\ NonceInv /\ [Next]_vars => (Inv /\ NonceInv)'
  BY NextInv, NextNonce
<1>3. Inv /\ NonceInv => WithdrawalsDistinct
  BY DEF NonceInv, DurationKept, Told, WithdrawalsDistinct
<1> QED
  BY <1>1, <1>2, <1>3, PTL DEF Spec
===============================================================================
