--------------------------- MODULE HelixBridge_proofs ---------------------------
(***************************************************************************)
(* Theorems about the bridge handler together with its token, for every    *)
(* set of addresses, messages, deployments and amounts.  What is proved of *)
(* the two components is used here, through TP and HP; what remains is that *)
(* each step of the two together is a step of each, or leaves it alone.    *)
(***************************************************************************)
EXTENDS HelixBridge, ArithmeticTheorems

TP == INSTANCE HelixToken_proofs
        WITH admin <- tokenAdmin, vault <- tokenVault, bridge <- tokenBridge,
             allowances <- <<>>, Spender <- {}, Amount <- -MaxI128 .. MaxI128
HP == INSTANCE BridgeHandler_proofs

-------------------------------------------------------------------------------
(* HelixBridge names its parts T and H; the theorems name them TP and HP.  *)
(* Definition by definition they are the same.                             *)

LEMMA TokenConstants == TP!TokenAssumption
<1>1. T!TokenAssumption => TP!TokenAssumption
  BY DEF T!TokenAssumption, TP!TokenAssumption, T!IsFiniteSet, TP!IsFiniteSet
<1> QED
  BY <1>1, BridgedTokenAssumption

LEMMA HandlerConstants == HP!BridgeAssumption
<1>1. H!BridgeAssumption => HP!BridgeAssumption
  BY DEF H!BridgeAssumption, HP!BridgeAssumption, H!IsFiniteSet, HP!IsFiniteSet,
         H!Deposits, HP!Deposits, H!YieldUpdates, HP!YieldUpdates, H!Others, HP!Others
<1> QED
  BY <1>1, BridgedTokenAssumption

LEMMA SameSum ==
  ASSUME NEW f
  PROVE  /\ SumFunction(f) = TP!SumFunction(f)
         /\ SumFunction(f) = HP!SumFunction(f)
         /\ SumFunction(f) = H!SumFunction(f)
BY DEF SumFunction, SumFunctionOnSet, FoldFunctionOnSet, MapThenFoldSet,
       TP!SumFunction, TP!SumFunctionOnSet, TP!FoldFunctionOnSet, TP!MapThenFoldSet,
       HP!SumFunction, HP!SumFunctionOnSet, HP!FoldFunctionOnSet, HP!MapThenFoldSet,
       H!SumFunction, H!SumFunctionOnSet, H!FoldFunctionOnSet, H!MapThenFoldSet

LEMMA SameToken == T!Spec <=> TP!Spec
BY ZenonT(60) DEF T!roles, TP!roles, T!totals, TP!totals, T!vars, TP!vars,
       T!NoAllowance, TP!NoAllowance, T!Allowance, TP!Allowance, T!Init, TP!Init,
       T!Initialized, TP!Initialized, T!RequireAuth, TP!RequireAuth,
       T!FitsI128, TP!FitsI128, T!DivCeil, TP!DivCeil, T!CanMove, TP!CanMove,
       T!MoveBalance, TP!MoveBalance, T!SpendBalance, TP!SpendBalance,
       T!Expired, TP!Expired, T!WriteAllowance, TP!WriteAllowance,
       T!SpendAllowance, TP!SpendAllowance, T!MintShares, TP!MintShares,
       T!BurnShares, TP!BurnShares, T!BurnExternalShares, TP!BurnExternalShares,
       T!Initialize, TP!Initialize, T!VaultMint, TP!VaultMint,
       T!BridgeMint, TP!BridgeMint, T!VaultBurn, TP!VaultBurn,
       T!BridgeBurn, TP!BridgeBurn, T!UpdateExchangeRate, TP!UpdateExchangeRate,
       T!SetAdmin, TP!SetAdmin, T!Approve, TP!Approve, T!Transfer, TP!Transfer,
       T!TransferFrom, TP!TransferFrom, T!Burn, TP!Burn, T!BurnFrom, TP!BurnFrom,
       T!CloseLedger, TP!CloseLedger, T!EvictAllowance, TP!EvictAllowance,
       T!Next, TP!Next, T!Spec, TP!Spec

LEMMA SameHandler == H!Spec <=> HP!Spec
BY ZenonT(60) DEF H!SumFunction, HP!SumFunction, H!SumFunctionOnSet, HP!SumFunctionOnSet,
       H!FoldFunctionOnSet, HP!FoldFunctionOnSet, H!MapThenFoldSet, HP!MapThenFoldSet,
       H!settings, HP!settings, H!counters, HP!counters, H!token, HP!token,
       H!vars, HP!vars, H!Init, HP!Init, H!Epoch, HP!Epoch, H!FitsI128, HP!FitsI128,
       H!Recipient, HP!Recipient, H!Nonce, HP!Nonce, H!Unprocessed, HP!Unprocessed,
       H!MarkProcessed, HP!MarkProcessed, H!RecordMint, HP!RecordMint,
       H!RecordBurn, HP!RecordBurn, H!TokenMint, HP!TokenMint,
       H!TokenBurn, HP!TokenBurn, H!TokenReport, HP!TokenReport,
       H!Validate, HP!Validate, H!Accept, HP!Accept,
       H!AcceptDeposit, HP!AcceptDeposit, H!ProcessDeposit, HP!ProcessDeposit,
       H!AcceptYieldUpdate, HP!AcceptYieldUpdate,
       H!ProcessYieldUpdate, HP!ProcessYieldUpdate,
       H!RegisterRecipient, HP!RegisterRecipient, H!SendWithdrawal, HP!SendWithdrawal,
       H!InitiateWithdrawal, HP!InitiateWithdrawal, H!SetRateLimits, HP!SetRateLimits,
       H!Pause, HP!Pause, H!SetWithdrawalsEnabled, HP!SetWithdrawalsEnabled,
       H!SetSourceConfig, HP!SetSourceConfig, H!SetAdmin, HP!SetAdmin,
       H!CloseLedger, HP!CloseLedger, H!GatewayApprove, HP!GatewayApprove,
       H!HolderTransfers, HP!HolderTransfers, H!HolderBurns, HP!HolderBurns,
       H!Next, HP!Next, H!Spec, HP!Spec

LEMMA SameBurn ==
  ASSUME NEW from, NEW n
  PROVE  T!SpendBalance(from, n) /\ T!BurnExternalShares(n)
           <=> TP!SpendBalance(from, n) /\ TP!BurnExternalShares(n)
BY DEF T!SpendBalance, TP!SpendBalance, T!BurnExternalShares, TP!BurnExternalShares,
       T!FitsI128, TP!FitsI128, T!DivCeil, TP!DivCeil, T!totals, TP!totals

-------------------------------------------------------------------------------
(* Every step of the two is a step of the token, or leaves it alone.       *)

\* What the deposits' recipients, the holders' burns and the token before it is
\* initialized are known to be
Known ==
  /\ recipients \in [Key -> Address \cup {NoAddress}]
  /\ burned \in Nat
  /\ tokenAdmin = NoAddress => totalAssets = 0

LEMMA Constants ==
  /\ IsFiniteSet(Address) /\ NoAddress \notin Address
  /\ Deployment \subseteq [admin : Address, vault : Address, bridge : Address]
  /\ MaxI128 \in Nat \ {0}
  /\ \A n \in Amount : n \in -MaxI128 .. MaxI128 /\ n \in Int
  /\ ContractOf \in [Key -> Address]
  /\ Handler \in Address /\ TokenAdmin \subseteq Address
<1>1. IsFiniteSet(Address) /\ NoAddress \notin Address /\ MaxI128 \in Nat \ {0}
      /\ Deployment \subseteq [admin : Address, vault : Address, bridge : Address]
  BY BridgedTokenAssumption DEF T!TokenAssumption, T!IsFiniteSet, IsFiniteSet
<1>2. ContractOf \in [Key -> Address]
  BY BridgedTokenAssumption DEF H!BridgeAssumption
<1>3. Amount \subseteq -MaxI128 .. MaxI128
  BY BridgedTokenAssumption
<1>4. \A n \in -MaxI128 .. MaxI128 : n \in Int
  OBVIOUS
<1> QED
  BY <1>1, <1>2, <1>3, <1>4, BridgedTokenAssumption

\* A payload that is a deposit names its recipient and a number of shares; one
\* that is a report, a number of assets.
LEMMA PayloadOf ==
  ASSUME NEW m \in Message
  PROVE  /\ m.payload.type = "deposit" => m.payload.to \in Key /\ m.payload.shares \in Nat
         /\ m.payload.type = "yield" => m.payload.assets \in Nat
<1>1. m.payload \in H!Deposits \cup H!YieldUpdates \cup H!Others
  BY BridgedTokenAssumption DEF H!BridgeAssumption
<1>2. CASE m.payload \in H!Deposits
  BY <1>2 DEF H!Deposits
<1>3. CASE m.payload \in H!YieldUpdates
  BY <1>3 DEF H!YieldUpdates
<1>4. CASE m.payload \in H!Others
  BY <1>4 DEF H!Others
<1> QED
  BY <1>1, <1>2, <1>3, <1>4

LEMMA InitKnown == Init => Known
BY DEF Init, H!Init, T!Init, Known

\* A call of the handler that leaves the token alone, on what the invariants read
LEMMA HandlerCallFrame ==
  ASSUME HandlerCall
  PROVE  /\ UNCHANGED <<token, totalAssets, balances, ledger, burned>>
         /\ processed' = processed
         /\ H!Next
<1>1. CASE \E u \in Holder, k \in Key : H!RegisterRecipient(u, k)
  BY <1>1 DEF HandlerCall, H!RegisterRecipient, H!token, H!Next, Holder
<1>2. CASE \E l \in Limit : H!SetRateLimits(l)
  BY <1>2 DEF HandlerCall, H!SetRateLimits, H!token, H!Next
<1>3. CASE \E b \in BOOLEAN : H!Pause(b) \/ H!SetWithdrawalsEnabled(b)
  BY <1>3 DEF HandlerCall, H!Pause, H!SetWithdrawalsEnabled, H!token, H!Next
<1>4. CASE \E s \in Source : H!SetSourceConfig(s)
  BY <1>4 DEF HandlerCall, H!SetSourceConfig, H!token, H!Next
<1>5. CASE \E a \in Operator : H!SetAdmin(a)
  BY <1>5 DEF HandlerCall, H!SetAdmin, H!token, H!Next
<1>6. CASE \E m \in Message : H!GatewayApprove(m)
  BY <1>6 DEF HandlerCall, H!GatewayApprove, H!token, H!Next
<1> QED
  BY <1>1, <1>2, <1>3, <1>4, <1>5, <1>6 DEF HandlerCall

LEMMA HandlerCallRecipients ==
  ASSUME Known, HandlerCall
  PROVE  recipients' \in [Key -> Address \cup {NoAddress}]
<1>1. CASE \E u \in Holder, k \in Key : H!RegisterRecipient(u, k)
  BY <1>1 DEF Known, H!RegisterRecipient, Holder
<1>2. CASE UNCHANGED recipients
  BY <1>2 DEF Known
<1> QED
  BY <1>1, <1>2 DEF HandlerCall, H!SetRateLimits, H!Pause, H!SetWithdrawalsEnabled,
                    H!SetSourceConfig, H!SetAdmin, H!GatewayApprove

LEMMA NextKnown == Known /\ [Next]_vars => Known'
<1> SUFFICES ASSUME Known, [Next]_vars
             PROVE  Known'
  OBVIOUS
<1>1. CASE \E m \in Message : ProcessDeposit(m)
  BY <1>1 DEF Known, ProcessDeposit, H!AcceptDeposit, T!BridgeMint, T!MintShares,
              T!roles, AsHandler
<1>2. CASE \E m \in Message : ProcessYieldUpdate(m)
  BY <1>2 DEF Known, ProcessYieldUpdate, H!AcceptYieldUpdate, T!UpdateExchangeRate,
              T!Initialized, T!roles, AsHandler
<1>3. CASE \E u \in Holder, n \in Amount, k \in Key : InitiateWithdrawal(u, n, k)
  BY <1>3 DEF Known, InitiateWithdrawal, H!SendWithdrawal, T!BridgeBurn, T!BurnShares,
              T!roles, AsHandler
<1>4. CASE HandlerCall
  BY <1>4, HandlerCallFrame, HandlerCallRecipients DEF Known, token
<1>5. CASE TokenCall
  <2>1. recipients' = recipients /\ burned' = burned
    BY <1>5 DEF TokenCall, handler
  <2>2. CASE \E d \in Deployment : T!Initialize(d)
    BY <2>1, <2>2 DEF Known, T!Initialize
  <2>3. CASE \E a \in TokenAdmin : T!SetAdmin(a)
    BY <2>1, <2>3, Constants DEF Known, T!SetAdmin, T!totals
  <2>4. CASE \E from \in Holder, to \in Address, n \in Amount : T!Transfer(from, to, n)
    BY <2>1, <2>4 DEF Known, T!Transfer, T!roles, T!totals
  <2> QED
    BY <1>5, <2>2, <2>3, <2>4 DEF TokenCall
<1>6. CASE \E u \in Holder, n \in Amount : Burn(u, n)
  <2>1. PICK u \in Holder, n \in Amount : Burn(u, n)
    BY <1>6
  <2>2. n \in Nat
    BY <2>1, Constants DEF Burn, T!Burn
  <2>3. /\ T!Initialized /\ recipients' = recipients
        /\ tokenAdmin' = tokenAdmin /\ burned' = burned + n
    BY <2>1 DEF Burn, T!Burn, T!roles, handler
  <2> QED
    BY <2>2, <2>3 DEF Known, T!Initialized
<1>7. CASE CloseLedger
  BY <1>7 DEF Known, CloseLedger, H!CloseLedger, token, H!token
<1>8. CASE UNCHANGED vars
  BY <1>8 DEF Known, vars, handler, token
<1> QED
  BY <1>1, <1>2, <1>3, <1>4, <1>5, <1>6, <1>7, <1>8 DEF Next

THEOREM BridgeKnown == Spec => []Known
<1> QED
  BY InitKnown, NextKnown, PTL DEF Spec

LEMMA NextOfToken == Known /\ [Next]_vars => [T!Next]_(T!vars)
<1> SUFFICES ASSUME Known, [Next]_vars
             PROVE  T!Next \/ UNCHANGED T!vars
  OBVIOUS
<1>1. CASE \E m \in Message : ProcessDeposit(m)
  <2>1. PICK m \in Message : ProcessDeposit(m)
    BY <1>1
  <2> DEFINE to == H!Recipient(m.payload.to)
             n == m.payload.shares
  <2>2. m.payload.to \in Key /\ n \in Nat
    BY <2>1, PayloadOf DEF ProcessDeposit, H!AcceptDeposit
  <2>3. to \in Address
    BY <2>2, Constants DEF Known, H!Recipient
  <2>4. n \in -MaxI128 .. MaxI128
    <3>1. n <= MaxI128
      BY <2>1 DEF ProcessDeposit, H!AcceptDeposit, H!FitsI128
    <3> HIDE DEF n
    <3> QED
      BY <2>2, <3>1, Constants
  <2>5. T!BridgeMint(to, n)
    BY <2>1 DEF ProcessDeposit
  <2> HIDE DEF to, n
  <2> QED
    BY <2>3, <2>4, <2>5 DEF T!Next
<1>2. CASE \E m \in Message : ProcessYieldUpdate(m)
  <2>1. PICK m \in Message : ProcessYieldUpdate(m)
    BY <1>2
  <2> DEFINE n == m.payload.assets
  <2>2. n \in Nat /\ n <= MaxI128
    BY <2>1, PayloadOf DEF ProcessYieldUpdate, H!AcceptYieldUpdate, H!FitsI128
  <2>3. T!UpdateExchangeRate(n)
    BY <2>1 DEF ProcessYieldUpdate
  <2> HIDE DEF n
  <2>4. n \in -MaxI128 .. MaxI128
    BY <2>2, Constants
  <2> QED
    BY <2>3, <2>4 DEF T!Next
<1>3. CASE \E u \in Holder, n \in Amount, k \in Key : InitiateWithdrawal(u, n, k)
  <2>1. PICK u \in Holder, n \in Amount, k \in Key : InitiateWithdrawal(u, n, k)
    BY <1>3
  <2>2. u \in Address /\ n \in -MaxI128 .. MaxI128 /\ T!BridgeBurn(u, n)
    BY <2>1, Constants DEF Holder, InitiateWithdrawal
  <2> QED
    BY <2>2 DEF T!Next
<1>4. CASE HandlerCall
  BY <1>4, HandlerCallFrame DEF token, T!vars, T!roles, T!totals
<1>5. CASE TokenCall
  <2>2. CASE \E d \in Deployment : T!Initialize(d)
    BY <2>2 DEF T!Next
  <2>3. CASE \E a \in TokenAdmin : T!SetAdmin(a)
    BY <2>3, Constants DEF T!Next
  <2>4. CASE \E from \in Holder, to \in Address, n \in Amount : T!Transfer(from, to, n)
    BY <2>4, Constants DEF T!Next, Holder
  <2> QED
    BY <1>5, <2>2, <2>3, <2>4 DEF TokenCall
<1>6. CASE \E u \in Holder, n \in Amount : Burn(u, n)
  BY <1>6, Constants DEF Burn, Holder, T!Next
<1>7. CASE CloseLedger
  <2>1. T!CloseLedger
    BY <1>7 DEF CloseLedger, H!CloseLedger, H!token, token, T!CloseLedger, T!roles, T!totals
  <2> QED
    BY <2>1 DEF T!Next
<1>8. CASE UNCHANGED vars
  BY <1>8 DEF vars, token, T!vars, T!roles, T!totals
<1> QED
  BY <1>1, <1>2, <1>3, <1>4, <1>5, <1>6, <1>7, <1>8 DEF Next

\* The handler and the token together behave, on the token's state, as the token:
\* everything proved of it for whatever bridge calls it holds with this one.
THEOREM BridgeImplementsToken == Spec => T!Spec
<1>1. Init => T!Init
  BY DEF Init
<1> QED
  BY <1>1, NextOfToken, BridgeKnown, PTL DEF Spec, T!Spec

-------------------------------------------------------------------------------
(* Every step of the two is a step of the handler, or leaves it alone.     *)

\* What is proved of the token holds here.
THEOREM BridgeTokenInvariant == Spec => []TP!Inv
<1> QED
  BY BridgeImplementsToken, SameToken, TokenConstants, TP!TokenInvariant, PTL

\* The token's balances, and what a holder's burn does to its totals
LEMMA TokenFacts ==
  ASSUME TP!Inv
  PROVE  /\ totalShares \in Nat /\ totalAssets \in 0 .. MaxI128
         /\ balances \in [Address -> 0 .. MaxI128]
         /\ totalShares = SumFunction(balances)
<1>1. totalShares = TP!SumFunction(balances)
  BY DEF TP!Inv, TP!SharesConserved
<1>2. totalShares = SumFunction(balances)
  BY <1>1, SameSum
<1> QED
  BY <1>2, Constants DEF TP!Inv, TP!TypeOK

LEMMA HolderBurnEffect ==
  ASSUME TP!Inv, NEW u \in Holder, NEW n \in Amount, T!Burn(u, n)
  PROVE  /\ n \in Nat /\ n <= balances[u]
         /\ balances' = [balances EXCEPT ![u] = @ - n]
         /\ totalAssets' \in 0 .. totalAssets
         /\ n = 0 => UNCHANGED <<balances, totalAssets>>
<1>1. n \in Nat /\ u \in Address
  BY Constants DEF T!Burn, Holder
<1>2. T!SpendBalance(u, n) /\ T!BurnExternalShares(n)
  BY DEF T!Burn
<1>3. TP!SpendBalance(u, n) /\ TP!BurnExternalShares(n)
  BY <1>2, SameBurn
<1>4. totalAssets' \in 0 .. totalAssets
  BY <1>1, <1>3, TokenConstants, TP!BurnExternalEffect
<1>5. n <= balances[u] /\ balances' = [balances EXCEPT ![u] = @ - n]
  BY <1>2 DEF T!SpendBalance
<1>6. ASSUME n = 0
      PROVE  UNCHANGED <<balances, totalAssets>>
  <2>1. totalAssets' = totalAssets
    BY <1>2, <1>6 DEF T!BurnExternalShares, T!totals
  <2>2. balances \in [Address -> 0 .. MaxI128]
    BY TokenFacts
  <2>3. [balances EXCEPT ![u] = @ - 0] = balances
    BY <1>1, <2>2, Constants
  <2> QED
    BY <1>5, <1>6, <2>1, <2>3
<1> QED
  BY <1>1, <1>4, <1>5, <1>6

LEMMA NextOfHandler == Known /\ TP!Inv /\ [Next]_vars => [H!Next]_(H!vars)
<1> SUFFICES ASSUME Known, TP!Inv, [Next]_vars
             PROVE  H!Next \/ UNCHANGED H!vars
  OBVIOUS
<1>1. CASE \E m \in Message : ProcessDeposit(m)
  <2>1. PICK m \in Message : ProcessDeposit(m)
    BY <1>1
  <2>2. H!AcceptDeposit(m)
    BY <2>1 DEF ProcessDeposit
  <2>3. H!TokenMint(H!Recipient(m.payload.to), m.payload.shares)
    <3>1. T!MintShares(H!Recipient(m.payload.to), m.payload.shares) /\ burned' = burned
      BY <2>1 DEF ProcessDeposit, T!BridgeMint, AsHandler
    <3>2. totalShares = H!SumFunction(balances)
      BY TokenFacts, SameSum
    <3> QED
      BY <3>1, <3>2 DEF T!MintShares, T!FitsI128, H!TokenMint, H!FitsI128
  <2>4. H!ProcessDeposit(m)
    BY <2>2, <2>3 DEF H!ProcessDeposit
  <2> QED
    BY <2>4 DEF H!Next
<1>2. CASE \E m \in Message : ProcessYieldUpdate(m)
  BY <1>2 DEF ProcessYieldUpdate, T!UpdateExchangeRate, AsHandler, H!TokenReport,
              H!ProcessYieldUpdate, H!Next
<1>3. CASE \E u \in Holder, n \in Amount, k \in Key : InitiateWithdrawal(u, n, k)
  BY <1>3 DEF Holder, InitiateWithdrawal, T!BridgeBurn, T!BurnShares, T!SpendBalance,
              AsHandler, H!TokenBurn, H!InitiateWithdrawal, H!Next
<1>4. CASE HandlerCall
  BY <1>4, HandlerCallFrame
<1>5. CASE TokenCall
  <2>1. UNCHANGED <<handler, burned>>
    BY <1>5 DEF TokenCall
  <2>2. CASE \E d \in Deployment : T!Initialize(d)
    BY <2>1, <2>2 DEF Known, T!Initialize, T!Initialized, handler, H!vars, H!settings,
                      H!counters, H!token
  <2>3. CASE \E a \in TokenAdmin : T!SetAdmin(a)
    BY <2>1, <2>3 DEF T!SetAdmin, T!totals, handler, H!vars, H!settings, H!counters, H!token
  <2>4. CASE \E from \in Holder, to \in Address, n \in Amount : T!Transfer(from, to, n)
    <3>1. PICK from \in Holder, to \in Address, n \in Amount : T!Transfer(from, to, n)
      BY <2>4
    <3>2. /\ n <= balances[from] /\ totalAssets' = totalAssets /\ ledger' = ledger
          /\ balances' = [[balances EXCEPT ![from] = @ - n] EXCEPT ![to] = @ + n]
      BY <3>1 DEF T!Transfer, T!MoveBalance, T!CanMove, T!totals
    <3>3. n \in Nat /\ from \in Address /\ balances \in [Address -> Int]
      BY <3>1, Constants, TokenFacts DEF T!Transfer, Holder
    <3>4. CASE n = 0
      <4>1. balances' = balances
        BY <3>2, <3>3, <3>4
      <4> QED
        BY <2>1, <3>2, <4>1 DEF handler, H!vars, H!settings, H!counters, H!token
    <3>5. CASE n # 0
      <4>1. n \in 1 .. balances[from]
        BY <3>2, <3>3, <3>5
      <4>2. H!HolderTransfers(from, to, n)
        BY <2>1, <3>2, <4>1 DEF H!HolderTransfers, handler, H!settings, H!counters
      <4> QED
        BY <3>3, <4>2 DEF H!Next
    <3> QED
      BY <3>4, <3>5
  <2> QED
    BY <1>5, <2>2, <2>3, <2>4 DEF TokenCall
<1>6. CASE \E u \in Holder, n \in Amount : Burn(u, n)
  <2>1. PICK u \in Holder, n \in Amount : Burn(u, n)
    BY <1>6
  <2>2. /\ UNCHANGED <<handler, ledger>> /\ T!Burn(u, n) /\ burned' = burned + n
    BY <2>1 DEF Burn, T!Burn
  <2>3. /\ n \in Nat /\ n <= balances[u]
        /\ balances' = [balances EXCEPT ![u] = @ - n]
        /\ totalAssets' \in 0 .. totalAssets
        /\ n = 0 => UNCHANGED <<balances, totalAssets>>
    BY <2>2, HolderBurnEffect
  <2>4. u \in Address /\ balances[u] \in Nat /\ burned \in Nat
    BY TokenFacts, Constants DEF Known, Holder
  <2>5. CASE n = 0
    BY <2>2, <2>3, <2>4, <2>5 DEF handler, H!vars, H!settings, H!counters, H!token
  <2>6. CASE n # 0
    <3>1. n \in 1 .. balances[u]
      BY <2>3, <2>4, <2>6
    <3>2. H!HolderBurns(u, n)
      BY <2>2, <2>3, <3>1 DEF H!HolderBurns, handler, H!settings, H!counters
    <3> QED
      BY <2>4, <3>2 DEF H!Next
  <2> QED
    BY <2>5, <2>6
<1>7. CASE CloseLedger
  BY <1>7 DEF CloseLedger, H!Next
<1>8. CASE UNCHANGED vars
  BY <1>8 DEF vars, handler, H!vars, H!settings, H!counters, H!token
<1> QED
  BY <1>1, <1>2, <1>3, <1>4, <1>5, <1>6, <1>7, <1>8 DEF Next

\* The handler with its token implements the handler that took the token for a
\* map of balances: every mint it may make, the token lets through.
THEOREM BridgeImplementsHandler == Spec => H!Spec
<1>1. Init => H!Init
  BY DEF Init
<1> QED
  BY <1>1, NextOfHandler, BridgeKnown, BridgeTokenInvariant, PTL DEF Spec, H!Spec

\* The two refinements together
THEOREM BridgeImplementsParts == Spec => ImplementsParts
<1> QED
  BY BridgeImplementsToken, BridgeImplementsHandler DEF ImplementsParts

-------------------------------------------------------------------------------
(* What follows from the parts, and from the parts together                *)

\* initiate_withdrawal tells withdrawals apart with the real token too: the other
\* chain never drops one of them as a replay.
THEOREM BridgeWithdrawalsDistinct == Spec => []WithdrawalsDistinct
<1>1. HP!WithdrawalsDistinct => WithdrawalsDistinct
  BY DEF HP!WithdrawalsDistinct, WithdrawalsDistinct, H!WithdrawalsDistinct
<1>2. Spec => []HP!WithdrawalsDistinct
  BY BridgeImplementsHandler, SameHandler, HandlerConstants, HP!BridgeWithdrawalsDistinct
<1> QED
  BY <1>1, <1>2, PTL

\* The assets on record are what some report said, or what burns left of it.
AssetsReported ==
  totalAssets > 0 =>
    \E p \in processed : p.type = "yield" /\ p.assets \in Nat /\ totalAssets <= p.assets

LEMMA InitReported == Init => AssetsReported
BY DEF Init, T!Init, AssetsReported

\* A payload stays processed; burns only lower the assets.
LEMMA ReportedLasts ==
  ASSUME AssetsReported, processed \subseteq processed', totalAssets \in Nat,
         totalAssets' \in 0 .. totalAssets
  PROVE  AssetsReported'
<1> SUFFICES ASSUME totalAssets' > 0
             PROVE  \E p \in processed' :
                      p.type = "yield" /\ p.assets \in Nat /\ totalAssets' <= p.assets
  BY DEF AssetsReported
<1>1. totalAssets > 0
  OBVIOUS
<1>2. PICK p \in processed : p.type = "yield" /\ p.assets \in Nat /\ totalAssets <= p.assets
  BY <1>1 DEF AssetsReported
<1>3. p \in processed' /\ totalAssets' <= p.assets
  BY <1>2
<1> QED
  BY <1>2, <1>3

LEMMA NextReported ==
  Known /\ TP!Inv /\ AssetsReported /\ [Next]_vars => AssetsReported'
<1> SUFFICES ASSUME Known, TP!Inv, AssetsReported, [Next]_vars
             PROVE  AssetsReported'
  OBVIOUS
<1>0. totalAssets \in Nat /\ totalAssets \in 0 .. totalAssets
  BY TokenFacts, Constants
<1>1. CASE \E m \in Message : ProcessYieldUpdate(m)
  <2>1. PICK m \in Message : ProcessYieldUpdate(m)
    BY <1>1
  <2>2. m.payload.type = "yield" /\ m.payload.assets \in Nat
    BY <2>1, PayloadOf DEF ProcessYieldUpdate, H!AcceptYieldUpdate
  <2>3. m.payload \in processed'
    BY <2>1 DEF ProcessYieldUpdate, H!AcceptYieldUpdate, H!Accept, H!MarkProcessed
  <2>4. totalAssets' = m.payload.assets
    BY <2>1 DEF ProcessYieldUpdate, T!UpdateExchangeRate
  <2> QED
    BY <2>2, <2>3, <2>4 DEF AssetsReported
<1>2. CASE \E m \in Message : ProcessDeposit(m)
  <2>1. processed \subseteq processed' /\ totalAssets' = totalAssets
    BY <1>2 DEF ProcessDeposit, H!AcceptDeposit, H!Accept, H!MarkProcessed,
                T!BridgeMint, T!MintShares
  <2> QED
    BY <1>0, <2>1, ReportedLasts
<1>3. CASE \E u \in Holder, n \in Amount, k \in Key : InitiateWithdrawal(u, n, k)
  <2>1. processed' = processed /\ totalAssets' = totalAssets
    BY <1>3 DEF InitiateWithdrawal, H!SendWithdrawal, T!BridgeBurn, T!BurnShares
  <2> QED
    BY <1>0, <2>1, ReportedLasts
<1>4. CASE HandlerCall
  <2>1. processed' = processed /\ totalAssets' = totalAssets
    BY <1>4, HandlerCallFrame
  <2> QED
    BY <1>0, <2>1, ReportedLasts
<1>5. CASE TokenCall
  <2>1. processed' = processed
    BY <1>5 DEF TokenCall, handler
  <2>2. totalAssets' \in {0, totalAssets}
    BY <1>5 DEF TokenCall, T!Initialize, T!SetAdmin, T!Transfer, T!totals
  <2>3. totalAssets' \in 0 .. totalAssets
    BY <1>0, <2>2
  <2> QED
    BY <1>0, <2>1, <2>3, ReportedLasts
<1>6. CASE \E u \in Holder, n \in Amount : Burn(u, n)
  <2>1. PICK u \in Holder, n \in Amount : Burn(u, n)
    BY <1>6
  <2>2. processed' = processed /\ T!Burn(u, n)
    BY <2>1 DEF Burn, handler
  <2>3. totalAssets' \in 0 .. totalAssets
    BY <2>2, HolderBurnEffect
  <2> QED
    BY <1>0, <2>2, <2>3, ReportedLasts
<1>7. CASE CloseLedger
  <2>1. processed' = processed /\ totalAssets' = totalAssets
    BY <1>7 DEF CloseLedger, H!CloseLedger, H!token
  <2> QED
    BY <1>0, <2>1, ReportedLasts
<1>8. CASE UNCHANGED vars
  <2>1. processed' = processed /\ totalAssets' = totalAssets
    BY <1>8 DEF vars, handler
  <2> QED
    BY <1>0, <2>1, ReportedLasts
<1> QED
  BY <1>1, <1>2, <1>3, <1>4, <1>5, <1>6, <1>7, <1>8 DEF Next

LEMMA QuotesWithinAssets ==
  ASSUME TP!Inv
  PROVE  LET quoted == SumFunction([a \in Address |-> T!AssetsForShares(balances[a])])
         IN  quoted \in Nat /\ (quoted > 0 => quoted <= totalAssets)
<1> DEFINE quote == [a \in Address |-> T!AssetsForShares(balances[a])]
           quoted == SumFunction(quote)
<1>1. /\ IsFiniteSet(Address) /\ balances \in [Address -> Nat]
      /\ totalShares \in Nat /\ totalAssets \in Nat
  BY TokenFacts, Constants
<1>2. quote = [a \in Address |-> TP!AssetsForShares(balances[a])]
  BY DEF T!AssetsForShares, TP!AssetsForShares
<1>3. quote \in [Address -> Nat]
  <2>1. ASSUME NEW a \in Address
        PROVE  TP!AssetsForShares(balances[a]) \in Nat
    BY <1>1, TokenConstants, TP!QuoteBounds
  <2> QED
    BY <1>2, <2>1
<1>4. CASE totalShares = 0
  <2>1. \A a \in Address : quote[a] = 0
    BY <1>4 DEF T!AssetsForShares
  <2>2. quote \in [Address -> Int]
    BY <1>3
  <2> HIDE DEF quote
  <2>3. quoted = 0
    BY <1>1, <2>1, <2>2, SumZero
  <2> QED
    BY <2>3 DEF quote
<1>5. CASE totalShares # 0
  <2>1. quoted \in Nat
    <3> HIDE DEF quote
    <3> QED
      BY <1>1, <1>3, SumBoundsEntry
  <2>2. TP!QuotesCovered
    BY TokenConstants, TP!InvQuotesCovered
  <2>3. TP!SumFunction(quote) <= totalAssets
    BY <1>1, <1>2, <1>5, <2>2 DEF TP!QuotesCovered
  <2>4. quoted <= totalAssets
    BY <2>3, SameSum
  <2> QED
    BY <2>1, <2>4
<1> QED
  BY <1>4, <1>5

\* Deposits, withdrawals and burns between two yield reports cannot make the rate
\* promise more than some report did, whatever they add up to.
THEOREM BridgeQuotesWithinReports == Spec => []QuotesWithinReports
<1>1. Spec => []AssetsReported
  BY InitReported, NextReported, BridgeKnown, BridgeTokenInvariant, PTL DEF Spec
<1>2. TP!Inv /\ AssetsReported => QuotesWithinReports
  <2> SUFFICES ASSUME TP!Inv, AssetsReported
               PROVE  QuotesWithinReports
    OBVIOUS
  <2> DEFINE quoted == SumFunction([a \in Address |-> T!AssetsForShares(balances[a])])
  <2>1. quoted \in Nat /\ (quoted > 0 => quoted <= totalAssets)
    BY QuotesWithinAssets
  <2> HIDE DEF quoted
  <2>2. ASSUME quoted > 0
        PROVE  \E p \in processed : p.type = "yield" /\ quoted <= p.assets
    <3>1. totalAssets \in Nat
      BY TokenFacts, Constants
    <3>2. PICK p \in processed :
                 p.type = "yield" /\ p.assets \in Nat /\ totalAssets <= p.assets
      BY <2>1, <2>2, <3>1 DEF AssetsReported
    <3> QED
      BY <2>1, <2>2, <3>1, <3>2
  <2> QED
    BY <2>2 DEF QuotesWithinReports, quoted
<1> QED
  BY <1>1, <1>2, BridgeTokenInvariant, PTL

\* Over both contracts and every bridge they ever accepted: the shares the token
\* has on its books and those burned are what accepted deposits brought less
\* what withdrawals sent back.
TokenBacked == totalShares + burned = H!Deposited - H!Withdrawn

\* No order of deposits, withdrawals, transfers, burns, pauses, changes of source
\* and settings of the token's roles lets its own count of shares leave what the
\* bridge brought in.
THEOREM BridgeTokenBacked == Spec => []TokenBacked
<1>1. HP!SupplyBacked /\ TP!Inv => TokenBacked
  <2>1. HP!Deposited = H!Deposited /\ HP!Withdrawn = H!Withdrawn
    BY SameSum DEF HP!Deposited, H!Deposited, HP!Withdrawn, H!Withdrawn
  <2>2. TP!Inv => totalShares = SumFunction(balances)
    BY SameSum DEF TP!Inv, TP!SharesConserved
  <2> QED
    BY <2>1, <2>2, SameSum DEF HP!SupplyBacked, TokenBacked
<1>2. Spec => []HP!SupplyBacked
  BY BridgeImplementsHandler, SameHandler, HandlerConstants, HP!BridgeSupplyBacked
<1> QED
  BY <1>1, <1>2, BridgeTokenInvariant, PTL
===============================================================================
