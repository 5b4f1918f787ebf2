--------------------------- MODULE HelixVault_proofs ---------------------------
(***************************************************************************)
(* Theorems about HelixVault, for any users, assets, configurations,       *)
(* prices, exchange rates and interest.                                    *)
(***************************************************************************)
EXTENDS HelixVault, ArithmeticTheorems

\* The accounting invariants carry one another through a step: TotalDeposits is
\* a natural number because it is a sum of shares, and the custody follows it.
\* update_config and initialize admit only valid configurations, and the totals
\* that initialize sets to zero were zero before.
Inv ==
  /\ TypeOK
  /\ DepositsAccounted
  /\ CustodyCoversDeposits
  /\ TreasuryAccounted
  /\ BorrowsWithinDebts
  /\ Initialized => ValidConfig(config)
  /\ ~ Initialized => totalDeposits = 0 /\ totalBorrows = 0

-------------------------------------------------------------------------------
(* Arithmetic *)

\* A debt within max_ltv of the collateral value V has a health factor above
\* one when liq_threshold exceeds max_ltv by at least one basis point.
LEMMA MarginIsHealthy ==
  ASSUME NEW V \in Nat, NEW B \in Nat \ {0}, NEW ltv \in 1 .. B,
         NEW liq \in Nat, ltv < liq, NEW owed \in Nat \ {0},
         owed <= (V * ltv) \div B
  PROVE  (V * liq) \div owed > B
<1>1. owed * B <= V * ltv
  <2>1. V * ltv \in Nat
    OBVIOUS
  <2> QED
    BY <2>1, QuotientBound
<1>2. owed <= V
  <2>1. V * ltv <= V * B
    BY MulMonotone
  <2>2. owed * B <= V * B
    BY <1>1, <2>1
  <2>3. V + 1 <= owed => (V + 1) * B <= owed * B
    BY MulMonotone
  <2>4. (V + 1) * B = V * B + B
    OBVIOUS
  <2>5. owed * B \in Nat /\ V * B \in Nat
    OBVIOUS
  <2> QED
    BY <2>2, <2>3, <2>4, <2>5
<1>3. V * (ltv + 1) <= V * liq
  BY MulMonotone
<1>4. V * (ltv + 1) = V * ltv + V /\ (B + 1) * owed = owed * B + owed
  OBVIOUS
<1>5. V * ltv \in Nat /\ owed * B \in Nat /\ V * liq \in Nat
  OBVIOUS
<1>6. (B + 1) * owed <= V * liq
  BY <1>1, <1>2, <1>3, <1>4, <1>5
<1>7. B + 1 <= (V * liq) \div owed
  BY <1>5, <1>6, QuotientBound
<1>8. (V * liq) \div owed \in Nat
  BY <1>5
<1> QED
  BY <1>7, <1>8

\* Interest is never negative.
LEMMA AccruedDebtType ==
  ASSUME TypeOK, NEW u \in User
  PROVE  AccruedDebt(u) \in Nat /\ debt[u] <= AccruedDebt(u)
<1> DEFINE t == now - lastUpdate[u]
           x == debt[u] * config.interest_rate
           y == SecondsPerYear * BpsDenominator
<1>1. debt[u] \in Nat /\ config.interest_rate \in Nat /\ t \in Nat
  BY VaultAssumption DEF TypeOK, PoolConfig
<1>2. y \in Nat \ {0}
  BY VaultAssumption
<1>3. x \in Nat
  BY <1>1
<1>4. AccruedDebt(u) = debt[u] + (x * t) \div y
  BY DEF AccruedDebt
<1> HIDE DEF t, x, y
<1>5. x * t \in Nat
  BY <1>1, <1>3
<1>6. (x * t) \div y \in Nat
  BY <1>2, <1>5
<1> QED
  BY <1>1, <1>4, <1>6

-------------------------------------------------------------------------------
(* The pieces of a step *)

LEMMA PositionEffect ==
  ASSUME TypeOK, NEW u \in User, NEW n \in Nat, NEW owed \in Nat,
         StorePosition(u, n, owed), now' = now
  PROVE  /\ shares' \in [User -> Nat]
         /\ debt' \in [User -> Nat]
         /\ lastUpdate' \in [User -> 0 .. now']
         /\ SumFunction(shares') = SumFunction(shares) + (n - shares[u])
         /\ SumFunction(debt') = SumFunction(debt) + (owed - debt[u])
<1>1. IsFiniteSet(User) /\ n \in Int /\ owed \in Int
  BY VaultAssumption
<1>2. shares \in [User -> Int] /\ debt \in [User -> Int]
  BY DEF TypeOK
<1>3. /\ shares' = [shares EXCEPT ![u] = n]
      /\ debt' = [debt EXCEPT ![u] = owed]
  BY DEF StorePosition
<1>4. shares' \in [User -> Nat] /\ debt' \in [User -> Nat]
  BY <1>3 DEF TypeOK
<1>5. lastUpdate' \in [User -> 0 .. now']
  BY VaultAssumption DEF StorePosition, TypeOK
<1>6. SumFunction([shares EXCEPT ![u] = n]) = SumFunction(shares) + (n - shares[u])
  BY <1>1, <1>2, SumUpdate, ZenonT(60)
<1>7. SumFunction([debt EXCEPT ![u] = owed]) = SumFunction(debt) + (owed - debt[u])
  BY <1>1, <1>2, SumUpdate, ZenonT(60)
<1> QED
  BY <1>3, <1>4, <1>5, <1>6, <1>7

LEMMA CollateralInEffect ==
  ASSUME TypeOK, NEW a \in Asset, NEW n \in Nat, CollateralIn(a, n)
  PROVE  /\ custody' \in [Asset -> Nat]
         /\ SumFunction(custody') = SumFunction(custody) + n
<1>1. IsFiniteSet(Asset) /\ n \in Int /\ custody \in [Asset -> Int]
  BY VaultAssumption DEF TypeOK
<1>2. custody' = [custody EXCEPT ![a] = @ + n]
  BY DEF CollateralIn, ExactDelta
<1>3. SumFunction([custody EXCEPT ![a] = @ + n]) = SumFunction(custody) + n
  BY <1>1, SumAdd, ZenonT(60)
<1>4. custody' \in [Asset -> Nat]
  BY <1>2 DEF TypeOK
<1> QED
  BY <1>2, <1>3, <1>4

LEMMA CollateralOutEffect ==
  ASSUME TypeOK, NEW a \in Asset, NEW n \in Nat, CollateralOut(a, n)
  PROVE  /\ custody' \in [Asset -> Nat]
         /\ SumFunction(custody') = SumFunction(custody) - n
<1>1. IsFiniteSet(Asset) /\ n \in Int /\ custody \in [Asset -> Int]
  BY VaultAssumption DEF TypeOK
<1>2. n <= custody[a] /\ custody' = [custody EXCEPT ![a] = @ - n]
  BY DEF CollateralOut, ExactDelta
<1>3. SumFunction([custody EXCEPT ![a] = @ - n]) = SumFunction(custody) - n
  BY <1>1, SumSub, ZenonT(60)
<1>4. custody' \in [Asset -> Nat]
  BY <1>2 DEF TypeOK
<1> QED
  BY <1>2, <1>3, <1>4

LEMMA TreasuryEffect ==
  ASSUME TypeOK, NEW n \in Nat
  PROVE  /\ TreasuryIn(n) => treasury' = treasury + n /\ treasury' \in Nat
         /\ TreasuryOut(n) => treasury' = treasury - n /\ treasury' \in Nat
<1>1. treasury \in Nat
  BY DEF TypeOK
<1>2. TreasuryIn(n) => treasury' = treasury + n
  BY DEF TreasuryIn, ExactDelta
<1>3. TreasuryOut(n) => n <= treasury /\ treasury' = treasury - n
  BY DEF TreasuryOut, ExactDelta
<1> QED
  BY <1>1, <1>2, <1>3

\* What every entry point that touches a position has in common: the shares move
\* with the deposits and the custody, lent tokens with the treasury, and the
\* borrow total rises by no more than the debt.
LEMMA AccountingStep ==
  ASSUME Inv, NEW u \in User, NEW n \in Nat, NEW owed \in Nat, Initialized,
         StorePosition(u, n, owed),
         totalDeposits' = totalDeposits + (n - shares[u]),
         custody' \in [Asset -> Nat],
         SumFunction(custody') = SumFunction(custody) + (n - shares[u]),
         treasury' \in Nat,
         totalBorrows' \in Int,
         treasury' + totalBorrows' = treasury + totalBorrows,
         totalBorrows' - totalBorrows <= owed - debt[u],
         UNCHANGED <<governance, world>>
  PROVE  Inv'
<1> USE DEF Inv
<1>1. now' = now
  BY DEF world
<1>2. /\ shares' \in [User -> Nat]
      /\ debt' \in [User -> Nat]
      /\ lastUpdate' \in [User -> 0 .. now']
      /\ SumFunction(shares') = SumFunction(shares) + (n - shares[u])
      /\ SumFunction(debt') = SumFunction(debt) + (owed - debt[u])
  BY <1>1, PositionEffect
<1>3. shares[u] \in Nat /\ debt[u] \in Nat
  BY DEF TypeOK
<1>4. SumFunction(shares') \in Nat /\ SumFunction(debt) \in Int
  <2>1. IsFiniteSet(User)
    BY VaultAssumption
  <2>2. debt \in [User -> Int]
    BY DEF TypeOK
  <2>3. SumFunction(shares') \in Nat
    BY <1>2, <2>1, SumBoundsEntry
  <2> QED
    BY <2>1, <2>2, <2>3, SumType
<1>5. DepositsAccounted'
  BY <1>2 DEF DepositsAccounted
<1>6. CustodyCoversDeposits'
  BY DEF CustodyCoversDeposits
<1>7. TreasuryAccounted'
  BY DEF TreasuryAccounted, world
<1>8. BorrowsWithinDebts'
  <2>1. totalBorrows \in Int /\ totalBorrows <= SumFunction(debt)
    BY DEF TypeOK, BorrowsWithinDebts
  <2> QED
    BY <1>2, <1>3, <1>4, <2>1 DEF BorrowsWithinDebts
<1>9. TypeOK'
  <2>1. totalDeposits' \in Nat
    BY <1>4, <1>5 DEF DepositsAccounted
  <2> QED
    BY <1>2, <2>1 DEF TypeOK, governance, world
<1>10. Initialized' /\ ValidConfig(config)'
  BY DEF governance, Initialized, ValidConfig
<1> QED
  BY <1>5, <1>6, <1>7, <1>8, <1>9, <1>10

-------------------------------------------------------------------------------
(* The entry points that touch a position *)

LEMMA InitInv == Init => Inv
<1> SUFFICES ASSUME Init
             PROVE  Inv
  OBVIOUS
<1> USE DEF Init
<1>1. IsFiniteSet(User) /\ IsFiniteSet(Asset)
  BY VaultAssumption
<1>2. SumFunction(shares) = 0 /\ SumFunction(debt) = 0 /\ SumFunction(custody) = 0
  BY <1>1, SumZero
<1>3. TypeOK
  <2>1. config \in PoolConfig
    BY DEF PoolConfig, NoConfig
  <2>2. funded \in 0 .. MaxFunds /\ now \in 0 .. MaxTime
    BY VaultAssumption
  <2>3. supported \in Seq(Asset)
    OBVIOUS
  <2>4. roles \subseteq Operator \X Nat
    OBVIOUS
  <2>5. 0 \in Nat /\ 0 \in Int /\ 0 \in 0 .. now
    OBVIOUS
  <2>6. /\ shares \in [User -> Nat] /\ debt \in [User -> Nat]
        /\ lastUpdate \in [User -> 0 .. now]
        /\ custody \in [Asset -> Nat] /\ price \in [Asset -> Nat]
        /\ priceTime \in [Asset -> Nat]
    BY <2>5
  <2> QED
    BY <2>1, <2>2, <2>3, <2>4, <2>5, <2>6 DEF TypeOK
<1>4. /\ DepositsAccounted /\ CustodyCoversDeposits
      /\ TreasuryAccounted /\ BorrowsWithinDebts
  BY <1>2 DEF DepositsAccounted, CustodyCoversDeposits, TreasuryAccounted,
              BorrowsWithinDebts
<1>5. ~ Initialized
  BY DEF Initialized
<1> QED
  BY <1>3, <1>4, <1>5 DEF Inv

LEMMA DepositStep ==
  ASSUME Inv, NEW u \in User, NEW a \in Asset, NEW n \in Amount, Deposit(u, a, n)
  PROVE  Inv'
<1>1. TypeOK /\ shares[u] \in Nat /\ debt[u] \in Nat /\ treasury \in Nat
  BY DEF Inv, TypeOK
<1>2. n \in Nat /\ Initialized
  BY VaultAssumption DEF Deposit, Open
<1>3. DebtAtDeposit(u) \in Nat /\ debt[u] <= DebtAtDeposit(u)
  BY <1>1, AccruedDebtType DEF DebtAtDeposit
<1>4. /\ custody' \in [Asset -> Nat]
      /\ SumFunction(custody') = SumFunction(custody) + n
  BY <1>1, <1>2, CollateralInEffect DEF Deposit
<1>5. StorePosition(u, shares[u] + n, DebtAtDeposit(u))
  BY DEF Deposit
<1>6. totalDeposits' = totalDeposits + n
  BY DEF Deposit, DepositsRise
<1>7. UNCHANGED <<governance, world>> /\ treasury' = treasury
      /\ totalBorrows' = totalBorrows
  BY DEF Deposit
<1>8. totalBorrows \in Int
  BY DEF Inv, TypeOK
<1>9. shares[u] + n \in Nat /\ n = (shares[u] + n) - shares[u]
  BY <1>1, <1>2
<1>10. totalBorrows' - totalBorrows <= DebtAtDeposit(u) - debt[u]
  BY <1>1, <1>3, <1>7, <1>8
<1> QED
  BY <1>1, <1>2, <1>3, <1>4, <1>5, <1>6, <1>7, <1>8, <1>9, <1>10, AccountingStep

LEMMA WithdrawStep ==
  ASSUME Inv, NEW u \in User, NEW a \in Asset, NEW n \in Amount, Withdraw(u, a, n)
  PROVE  Inv'
<1>1. /\ TypeOK /\ shares[u] \in Nat /\ debt[u] \in Nat /\ treasury \in Nat
      /\ totalDeposits \in Nat /\ totalBorrows \in Int
  BY DEF Inv, TypeOK
<1>2. n \in Nat /\ Initialized /\ n <= shares[u]
  BY VaultAssumption DEF Withdraw, Open
<1>3. AccruedDebt(u) \in Nat /\ debt[u] <= AccruedDebt(u)
  BY <1>1, AccruedDebtType
<1>4. /\ custody' \in [Asset -> Nat]
      /\ SumFunction(custody') = SumFunction(custody) - n
  BY <1>1, <1>2, CollateralOutEffect DEF Withdraw
<1>5. StorePosition(u, shares[u] - n, AccruedDebt(u))
  BY DEF Withdraw
<1>6. totalDeposits' = totalDeposits + ((shares[u] - n) - shares[u])
  BY <1>1, <1>2 DEF Withdraw, DepositsFall
<1>7. SumFunction(custody') = SumFunction(custody) + ((shares[u] - n) - shares[u])
  <2>1. SumFunction(custody) = totalDeposits
    BY DEF Inv, CustodyCoversDeposits
  <2> QED
    BY <1>1, <1>2, <1>4, <2>1
<1>8. UNCHANGED <<governance, world>> /\ treasury' = treasury
      /\ totalBorrows' = totalBorrows
  BY DEF Withdraw
<1>9. shares[u] - n \in Nat
  BY <1>1, <1>2
<1>10. totalBorrows' - totalBorrows <= AccruedDebt(u) - debt[u]
  BY <1>1, <1>3, <1>8
<1> QED
  BY <1>1, <1>2, <1>3, <1>4, <1>5, <1>6, <1>7, <1>8, <1>9, <1>10, AccountingStep

LEMMA BorrowStep ==
  ASSUME Inv, NEW u \in User, NEW n \in Amount, Borrow(u, n)
  PROVE  Inv'
<1>1. /\ TypeOK /\ shares[u] \in Nat /\ debt[u] \in Nat /\ treasury \in Nat
      /\ totalDeposits \in Nat /\ totalBorrows \in Int
      /\ custody \in [Asset -> Nat]
  BY DEF Inv, TypeOK
<1>2. n \in Nat /\ Initialized
  BY VaultAssumption DEF Borrow, Open
<1>3. AccruedDebt(u) \in Nat /\ debt[u] <= AccruedDebt(u)
  BY <1>1, AccruedDebtType
<1>4. treasury' = treasury - n /\ treasury' \in Nat
  BY <1>1, <1>2, TreasuryEffect DEF Borrow
<1>5. StorePosition(u, shares[u], AccruedDebt(u) + n)
  BY DEF Borrow
<1>6. totalBorrows' = totalBorrows + n
  BY DEF Borrow, BorrowsRise
<1>7. UNCHANGED <<governance, world, custody, totalDeposits>>
  BY DEF Borrow
<1>8. SumFunction(custody) = totalDeposits
  BY DEF Inv, CustodyCoversDeposits
<1>9. /\ totalDeposits' = totalDeposits + (shares[u] - shares[u])
      /\ SumFunction(custody') = SumFunction(custody) + (shares[u] - shares[u])
  BY <1>1, <1>7, <1>8
<1>10. /\ AccruedDebt(u) + n \in Nat
       /\ totalBorrows' - totalBorrows <= (AccruedDebt(u) + n) - debt[u]
       /\ totalBorrows' \in Int
       /\ treasury' + totalBorrows' = treasury + totalBorrows
  BY <1>1, <1>2, <1>3, <1>4, <1>6
<1> QED
  BY <1>1, <1>2, <1>4, <1>5, <1>7, <1>9, <1>10, AccountingStep

LEMMA CapBounds ==
  ASSUME NEW n \in Nat, NEW limit \in Nat
  PROVE  Cap(n, limit) \in Nat /\ Cap(n, limit) <= limit
BY DEF Cap

LEMMA RepayStep ==
  ASSUME Inv, NEW u \in User, NEW n \in Amount, Repay(u, n)
  PROVE  Inv'
<1> DEFINE paid == Cap(n, AccruedDebt(u))
<1>1. /\ TypeOK /\ shares[u] \in Nat /\ debt[u] \in Nat /\ treasury \in Nat
      /\ totalDeposits \in Nat /\ totalBorrows \in Int
      /\ custody \in [Asset -> Nat]
  BY DEF Inv, TypeOK
<1>2. n \in Nat /\ Initialized
  BY VaultAssumption DEF Repay
<1>3. AccruedDebt(u) \in Nat /\ debt[u] <= AccruedDebt(u)
  BY <1>1, AccruedDebtType
<1>4. paid \in Nat /\ paid <= AccruedDebt(u)
  BY <1>2, <1>3, CapBounds
<1>5. /\ StorePosition(u, shares[u], AccruedDebt(u) - paid)
      /\ totalBorrows' = totalBorrows - paid
      /\ IF paid > 0 THEN TreasuryIn(paid) ELSE UNCHANGED treasury
      /\ UNCHANGED <<governance, world, custody, totalDeposits>>
  BY DEF Repay, BorrowsFall
<1> HIDE DEF paid
<1>6. treasury' = treasury + paid /\ treasury' \in Nat
  BY <1>1, <1>4, <1>5, TreasuryEffect
<1>7. SumFunction(custody) = totalDeposits
  BY DEF Inv, CustodyCoversDeposits
<1>8. /\ totalDeposits' = totalDeposits + (shares[u] - shares[u])
      /\ SumFunction(custody') = SumFunction(custody) + (shares[u] - shares[u])
      /\ custody' \in [Asset -> Nat]
      /\ UNCHANGED <<governance, world>>
  BY <1>1, <1>5, <1>7
<1>9. /\ AccruedDebt(u) - paid \in Nat
      /\ totalBorrows' - totalBorrows <= (AccruedDebt(u) - paid) - debt[u]
      /\ totalBorrows' \in Int
      /\ treasury' + totalBorrows' = treasury + totalBorrows
  BY <1>1, <1>3, <1>4, <1>5, <1>6
<1> QED
  BY <1>1, <1>2, <1>5, <1>6, <1>8, <1>9, AccountingStep

LEMMA PrimaryType ==
  ASSUME TypeOK, supported # <<>>
  PROVE  Primary \in Asset
BY DEF TypeOK, Primary

LEMMA LiquidateStep ==
  ASSUME Inv, NEW l \in Operator, NEW u \in User, NEW n \in Amount,
         Liquidate(l, u, n)
  PROVE  Inv'
<1> DEFINE paid   == Cap(n, RepayCap(u))
           seized == SharesToSeize(paid)
<1>1. /\ TypeOK /\ shares[u] \in Nat /\ debt[u] \in Nat /\ treasury \in Nat
      /\ totalDeposits \in Nat /\ totalBorrows \in Int
  BY DEF Inv, TypeOK
<1>2. n \in Nat /\ Initialized /\ supported # <<>>
  BY VaultAssumption DEF Liquidate, Open
<1>3. AccruedDebt(u) \in Nat /\ debt[u] <= AccruedDebt(u)
  BY <1>1, AccruedDebtType
<1>4. paid \in Nat /\ paid <= AccruedDebt(u)
  <2>1. RepayCap(u) \in Nat /\ RepayCap(u) <= AccruedDebt(u)
    BY <1>3 DEF RepayCap
  <2> QED
    BY <1>2, <1>3, <2>1, CapBounds
<1>5. /\ StorePosition(u, shares[u] - seized, AccruedDebt(u) - paid)
      /\ totalDeposits' = totalDeposits - seized
      /\ totalBorrows' = totalBorrows - paid
      /\ TreasuryIn(paid)
      /\ seized \in 1 .. shares[u]
      /\ CollateralOut(Primary, seized)
      /\ UNCHANGED <<governance, world>>
  BY DEF Liquidate, BorrowsFall, DepositsFall
<1> HIDE DEF paid, seized
<1>6. treasury' = treasury + paid /\ treasury' \in Nat
  BY <1>1, <1>4, <1>5, TreasuryEffect
<1>7. seized \in Nat /\ Primary \in Asset
  BY <1>1, <1>2, <1>5, PrimaryType
<1>8. /\ custody' \in [Asset -> Nat]
      /\ SumFunction(custody') = SumFunction(custody) - seized
  BY <1>1, <1>5, <1>7, CollateralOutEffect
<1>9. SumFunction(custody) = totalDeposits
  BY DEF Inv, CustodyCoversDeposits
<1>10. /\ totalDeposits' = totalDeposits + ((shares[u] - seized) - shares[u])
       /\ SumFunction(custody') = SumFunction(custody)
                                    + ((shares[u] - seized) - shares[u])
       /\ shares[u] - seized \in Nat
  BY <1>1, <1>5, <1>7, <1>8, <1>9
<1>11. /\ AccruedDebt(u) - paid \in Nat
       /\ totalBorrows' - totalBorrows <= (AccruedDebt(u) - paid) - debt[u]
       /\ totalBorrows' \in Int
       /\ treasury' + totalBorrows' = treasury + totalBorrows
  BY <1>1, <1>3, <1>4, <1>5, <1>6
<1> QED
  BY <1>1, <1>2, <1>5, <1>6, <1>8, <1>10, <1>11, AccountingStep

-------------------------------------------------------------------------------
(* Governance and the world *)

\* Governance leaves the books alone: only its own types are at stake.
LEMMA GovernanceStep ==
  ASSUME Inv, UNCHANGED <<positions, book, world>>, Initialized,
         admin' = admin, supported' \in Seq(Asset), paused' \in BOOLEAN,
         roles' \subseteq Operator \X Nat,
         config' \in PoolConfig, ValidConfig(config')
  PROVE  Inv'
<1> USE DEF Inv, positions, book, world
<1>1. TypeOK'
  BY DEF TypeOK
<1>2. DepositsAccounted' /\ CustodyCoversDeposits'
  BY DEF DepositsAccounted, CustodyCoversDeposits
<1>3. TreasuryAccounted' /\ BorrowsWithinDebts'
  BY DEF TreasuryAccounted, BorrowsWithinDebts
<1>4. Initialized' /\ ValidConfig(config)'
  BY DEF Initialized, ValidConfig
<1> QED
  BY <1>1, <1>2, <1>3, <1>4

LEMMA InitializeStep ==
  ASSUME Inv, NEW d \in Deployment, Initialize(d)
  PROVE  Inv'
<1>1. ~ Initialized /\ totalDeposits = 0 /\ totalBorrows = 0
  BY DEF Inv, Initialize
<1>2. /\ totalDeposits' = totalDeposits /\ totalBorrows' = totalBorrows
      /\ UNCHANGED <<positions, custody, treasury, world>>
  BY <1>1 DEF Initialize
<1>3. d.admin \in Operator /\ d.oracle \in Operator /\ d.config \in PoolConfig
  BY VaultAssumption
<1>4. /\ admin' = d.admin /\ config' = d.config /\ supported' = <<>>
      /\ paused' = FALSE /\ ValidConfig(d.config)
  BY DEF Initialize
<1>5. roles' \subseteq Operator \X Nat
  <2>1. roles \subseteq Operator \X Nat
    BY DEF Inv, TypeOK
  <2> QED
    BY <1>3, <2>1 DEF Initialize, ADMIN_ROLE, PAUSER_ROLE
<1>6. TypeOK'
  <2>1. supported' \in Seq(Asset) /\ paused' \in BOOLEAN
    <3>1. <<>> \in Seq(Asset)
      OBVIOUS
    <3>2. supported' = <<>> /\ paused' = FALSE
      BY <1>4
    <3> QED
      BY <3>1, <3>2
  <2>2. admin' \in Operator \cup {NoAddress} /\ config' \in PoolConfig
    BY <1>3, <1>4
  <2>3. /\ UNCHANGED <<shares, debt, lastUpdate, custody, treasury>>
        /\ UNCHANGED <<funded, now, price, priceTime, rate>>
        /\ UNCHANGED <<totalDeposits, totalBorrows>>
    BY <1>2 DEF positions, world
  <2>4. TypeOK
    BY DEF Inv
  <2> QED
    BY <1>5, <2>1, <2>2, <2>3, <2>4 DEF TypeOK
<1>7. /\ DepositsAccounted' /\ CustodyCoversDeposits'
      /\ TreasuryAccounted' /\ BorrowsWithinDebts'
  BY <1>2 DEF Inv, DepositsAccounted, CustodyCoversDeposits, TreasuryAccounted,
              BorrowsWithinDebts, positions, world
<1>8. Initialized' /\ ValidConfig(config)'
  BY <1>3, <1>4, VaultAssumption DEF Initialized, ValidConfig
<1> QED
  BY <1>6, <1>7, <1>8 DEF Inv

LEMMA SetPausedStep ==
  ASSUME Inv, NEW o \in Operator, NEW b \in BOOLEAN, SetPaused(o, b)
  PROVE  Inv'
<1>1. /\ Initialized /\ paused' \in BOOLEAN
      /\ UNCHANGED <<admin, config, supported, roles, positions, book, world>>
  BY DEF SetPaused
<1> QED
  BY <1>1, GovernanceStep DEF Inv, TypeOK

LEMMA UpdateConfigStep ==
  ASSUME Inv, NEW c \in Config, UpdateConfig(c)
  PROVE  Inv'
<1>1. /\ Initialized /\ config' = c /\ ValidConfig(c)
      /\ UNCHANGED <<admin, supported, paused, roles, positions, book, world>>
  BY DEF UpdateConfig
<1>2. c \in PoolConfig
  BY VaultAssumption
<1> QED
  BY <1>1, <1>2, GovernanceStep DEF Inv, TypeOK

LEMMA SupportedAssetStep ==
  ASSUME Inv, NEW a \in Asset, AddSupportedAsset(a) \/ RemoveSupportedAsset(a)
  PROVE  Inv'
<1>1. /\ Initialized
      /\ UNCHANGED <<admin, config, paused, roles, positions, book, world>>
  BY DEF AddSupportedAsset, RemoveSupportedAsset
<1>2. supported \in Seq(Asset)
  BY DEF Inv, TypeOK
<1>3. supported' \in Seq(Asset)
  <2>1. CASE AddSupportedAsset(a)
    BY <1>2, <2>1 DEF AddSupportedAsset
  <2>2. CASE RemoveSupportedAsset(a)
    <3>1. ASSUME NEW i \in DOMAIN supported
          PROVE  SubSeq(supported, 1, i - 1)
                   \o SubSeq(supported, i + 1, Len(supported)) \in Seq(Asset)
      <4>1. i \in 1 .. Len(supported) /\ Len(supported) \in Nat
        BY <1>2
      <4>2. SubSeq(supported, 1, i - 1) \in Seq(Asset)
        BY <1>2, <4>1
      <4>3. SubSeq(supported, i + 1, Len(supported)) \in Seq(Asset)
        BY <1>2, <4>1
      <4> QED
        BY <4>2, <4>3
    <3> QED
      BY <1>2, <2>2, <3>1 DEF RemoveSupportedAsset
  <2> QED
    BY <2>1, <2>2
<1> QED
  BY <1>1, <1>3, GovernanceStep DEF Inv, TypeOK

LEMMA RoleStep ==
  ASSUME Inv, NEW g \in Grantable, GrantRole(g[1], g[2]) \/ RevokeRole(g[1], g[2])
  PROVE  Inv'
<1>1. /\ Initialized
      /\ UNCHANGED <<admin, config, supported, paused, positions, book, world>>
  BY DEF GrantRole, RevokeRole
<1>2. roles' \subseteq Operator \X Nat
  <2>1. roles \subseteq Operator \X Nat /\ <<g[1], g[2]>> \in Operator \X Nat
    BY VaultAssumption DEF Inv, TypeOK
  <2> QED
    BY <2>1 DEF GrantRole, RevokeRole
<1> QED
  BY <1>1, <1>2, GovernanceStep DEF Inv, TypeOK

\* Time, prices, rates and supplies of tokens move the world.
LEMMA WorldStep ==
  ASSUME Inv, UNCHANGED <<governance, positions, totalDeposits, totalBorrows, custody>>,
         treasury' \in Nat, TreasuryAccounted',
         funded' \in 0 .. MaxFunds, now' \in 0 .. MaxTime, now <= now',
         price' \in [Asset -> Nat], priceTime' \in [Asset -> Nat],
         rate' \in [Asset -> Rate]
  PROVE  Inv'
<1> USE DEF Inv, governance, positions
<1>0. MaxTime \in Nat /\ MaxFunds \in Nat
  BY VaultAssumption
<1>1. now \in Nat /\ now' \in Nat
  BY VaultAssumption DEF TypeOK
<1>2. lastUpdate' \in [User -> 0 .. now']
  BY <1>1 DEF TypeOK
<1>3. TypeOK'
  BY <1>2 DEF TypeOK
<1>4. DepositsAccounted' /\ CustodyCoversDeposits' /\ BorrowsWithinDebts'
  BY DEF DepositsAccounted, CustodyCoversDeposits, BorrowsWithinDebts
<1>5. (Initialized => ValidConfig(config))'
  BY DEF Initialized, ValidConfig
<1>6. (~ Initialized => totalDeposits = 0 /\ totalBorrows = 0)'
  BY DEF Initialized
<1> QED
  BY <1>3, <1>4, <1>5, <1>6

LEMMA FundStep ==
  ASSUME Inv, NEW n \in Amount, Fund(n)
  PROVE  Inv'
<1>1. /\ treasury \in Nat /\ funded \in 0 .. MaxFunds /\ now \in 0 .. MaxTime
      /\ n \in Int /\ MaxFunds \in Nat /\ MaxTime \in Nat
  BY VaultAssumption DEF Inv, TypeOK
<1>2. /\ n > 0 /\ funded + n <= MaxFunds
      /\ funded' = funded + n /\ treasury' = treasury + n
      /\ UNCHANGED <<governance, positions, totalDeposits, totalBorrows, custody>>
      /\ UNCHANGED <<now, price, priceTime, rate>>
  BY DEF Fund
<1>3. /\ treasury' \in Nat
      /\ funded' \in 0 .. MaxFunds /\ now' \in 0 .. MaxTime /\ now <= now'
  BY <1>1, <1>2
<1>4. TreasuryAccounted'
  <2>1. treasury + totalBorrows = funded /\ totalBorrows \in Int
    BY DEF Inv, TypeOK, TreasuryAccounted
  <2>2. (treasury + n) + totalBorrows = funded + n
    BY <1>1, <2>1
  <2> QED
    BY <1>2, <2>2 DEF TreasuryAccounted
<1>5. /\ price' \in [Asset -> Nat] /\ priceTime' \in [Asset -> Nat]
      /\ rate' \in [Asset -> Rate]
  BY <1>2 DEF Inv, TypeOK
<1> QED
  BY <1>2, <1>3, <1>4, <1>5, WorldStep

LEMMA ClockStep ==
  ASSUME Inv,
         \/ Tick
         \/ \E p \in [Asset -> Price], t \in [Asset -> PriceTime] : OracleAnswers(p, t)
         \/ \E a \in Asset, r \in Rate : RateChange(a, r)
  PROVE  Inv'
<1>1. /\ TypeOK /\ now \in 0 .. MaxTime /\ MaxTime \in Nat
      /\ treasury \in Nat /\ funded \in 0 .. MaxFunds /\ MaxFunds \in Nat
  BY VaultAssumption DEF Inv, TypeOK
<1>2. /\ UNCHANGED <<governance, positions, totalDeposits, totalBorrows, custody>>
      /\ UNCHANGED <<treasury, funded>>
  BY DEF Tick, OracleAnswers, RateChange, book
<1>3. treasury' \in Nat /\ funded' \in 0 .. MaxFunds
  BY <1>1, <1>2
<1>4. TreasuryAccounted'
  BY <1>2 DEF Inv, TreasuryAccounted
<1> DEFINE Typed ==
      /\ now' \in 0 .. MaxTime /\ now <= now'
      /\ price' \in [Asset -> Nat] /\ priceTime' \in [Asset -> Nat]
      /\ rate' \in [Asset -> Rate]
<1>5. Typed
  <2>1. CASE Tick
    <3>1. now' = now + 1 /\ now < MaxTime /\ UNCHANGED <<priceTime, rate>>
      BY <2>1 DEF Tick
    <3>2. PICK gone \in SUBSET Asset :
            price' = [a \in Asset |-> IF a \in gone THEN 0 ELSE price[a]]
      BY <2>1 DEF Tick
    <3>3. price' \in [Asset -> Nat]
      BY <1>1, <3>2 DEF TypeOK
    <3> QED
      BY <1>1, <3>1, <3>3 DEF TypeOK
  <2>2. ASSUME NEW p \in [Asset -> Price], NEW t \in [Asset -> PriceTime],
               OracleAnswers(p, t)
        PROVE  Typed
    <3>1. price' = p /\ priceTime' = t /\ now' = now /\ rate' = rate
      BY <2>2 DEF OracleAnswers
    <3>2. p \in [Asset -> Nat] /\ t \in [Asset -> Nat]
      BY VaultAssumption
    <3> QED
      BY <1>1, <3>1, <3>2 DEF TypeOK
  <2>3. ASSUME NEW a \in Asset, NEW r \in Rate, RateChange(a, r)
        PROVE  Typed
    <3>1. rate' = [rate EXCEPT ![a] = r] /\ UNCHANGED <<now, price, priceTime>>
      BY <2>3 DEF RateChange
    <3> QED
      BY <1>1, <3>1 DEF TypeOK
  <2> QED
    BY <2>1, <2>2, <2>3
<1> QED
  BY <1>2, <1>3, <1>4, <1>5, WorldStep

-------------------------------------------------------------------------------
(* The invariant and its consequences *)

LEMMA NextInv == Inv /\ [Next]_vars => Inv'
<1> SUFFICES ASSUME Inv, [Next]_vars
             PROVE  Inv'
  OBVIOUS
<1>1. ASSUME NEW d \in Deployment, Initialize(d)
      PROVE  Inv'
  BY <1>1, InitializeStep
<1>2. ASSUME NEW u \in User, NEW a \in Asset, NEW n \in Amount, Deposit(u, a, n)
      PROVE  Inv'
  BY <1>2, DepositStep
<1>3. ASSUME NEW u \in User, NEW a \in Asset, NEW n \in Amount, Withdraw(u, a, n)
      PROVE  Inv'
  BY <1>3, WithdrawStep
<1>4. ASSUME NEW u \in User, NEW n \in Amount, Borrow(u, n)
      PROVE  Inv'
  BY <1>4, BorrowStep
<1>5. ASSUME NEW u \in User, NEW n \in Amount, Repay(u, n)
      PROVE  Inv'
  BY <1>5, RepayStep
<1>6. ASSUME NEW l \in Operator, NEW u \in User, NEW n \in Amount, Liquidate(l, u, n)
      PROVE  Inv'
  BY <1>6, LiquidateStep
<1>7. ASSUME NEW o \in Operator, NEW b \in BOOLEAN, SetPaused(o, b)
      PROVE  Inv'
  BY <1>7, SetPausedStep
<1>8. ASSUME NEW c \in Config, UpdateConfig(c)
      PROVE  Inv'
  BY <1>8, UpdateConfigStep
<1>9. ASSUME NEW a \in Asset, AddSupportedAsset(a) \/ RemoveSupportedAsset(a)
      PROVE  Inv'
  BY <1>9, SupportedAssetStep
<1>10. ASSUME NEW g \in Grantable, GrantRole(g[1], g[2]) \/ RevokeRole(g[1], g[2])
       PROVE  Inv'
  BY <1>10, RoleStep
<1>11. ASSUME NEW n \in Amount, Fund(n)
       PROVE  Inv'
  BY <1>11, FundStep
<1>12. ASSUME \/ Tick
              \/ \E p \in [Asset -> Price], t \in [Asset -> PriceTime] : OracleAnswers(p, t)
              \/ \E a \in Asset, r \in Rate : RateChange(a, r)
       PROVE  Inv'
  BY <1>12, ClockStep
<1>13. ASSUME UNCHANGED vars
       PROVE  Inv'
  BY <1>13 DEF vars, governance, positions, book, world, Inv, TypeOK,
               DepositsAccounted, CustodyCoversDeposits, TreasuryAccounted,
               BorrowsWithinDebts, Initialized, ValidConfig
<1> QED
  BY <1>1, <1>2, <1>3, <1>4, <1>5, <1>6, <1>7, <1>8, <1>9, <1>10, <1>11, <1>12,
     <1>13 DEF Next

\* The inductive invariant holds in every reachable state.
THEOREM VaultInvariant == Spec => []Inv
<1>1. Init => Inv
  BY InitInv
<1>2. Inv /\ [Next]_vars => Inv'
  BY NextInv
<1> QED
  BY <1>1, <1>2, PTL DEF Spec

\* Amounts keep their signs and the clock its order, through every entry point.
THEOREM VaultTypeOK == Spec => []TypeOK
<1>1. Inv => TypeOK
  BY DEF Inv
<1> QED
  BY <1>1, VaultInvariant, PTL

\* DataKey::TotalDeposits is the sum of the positions' shares.
THEOREM VaultDepositsAccounted == Spec => []DepositsAccounted
<1>1. Inv => DepositsAccounted
  BY DEF Inv
<1> QED
  BY <1>1, VaultInvariant, PTL

\* The collateral the vault holds is exactly what it owes to its positions, with
\* tokens that short their transfers too: the exact-delta checks refuse them.
THEOREM VaultCustodyCoversDeposits == Spec => []CustodyCoversDeposits
<1>1. Inv => CustodyCoversDeposits
  BY DEF Inv
<1> QED
  BY <1>1, VaultInvariant, PTL

\* DataKey::TotalBorrows is what left the treasury and has not come back.
THEOREM VaultTreasuryAccounted == Spec => []TreasuryAccounted
<1>1. Inv => TreasuryAccounted
  BY DEF Inv
<1> QED
  BY <1>1, VaultInvariant, PTL

\* DataKey::TotalBorrows never exceeds the debts recorded in the positions.
THEOREM VaultBorrowsWithinDebts == Spec => []BorrowsWithinDebts
<1>1. Inv => BorrowsWithinDebts
  BY DEF Inv
<1> QED
  BY <1>1, VaultInvariant, PTL

-------------------------------------------------------------------------------
(* Nobody leaves their own position liquidatable *)

LEMMA CollateralValueType ==
  ASSUME TypeOK, NEW a \in Asset, NEW n \in Nat
  PROVE  CollateralValue(a, n) \in Nat
<1>1. /\ rate[a] \in Nat \X Nat /\ price[a] \in Nat /\ PriceScalar \in Nat \ {0}
  BY VaultAssumption DEF TypeOK
<1>2. AssetsForShares(a, n) \in Nat
  <2>1. rate[a][1] \in Nat /\ rate[a][2] \in Nat
    BY <1>1
  <2> DEFINE x == n * rate[a][1]
             y == rate[a][2]
  <2>2. x \in Nat
    BY <2>1
  <2>3. AssetsForShares(a, n) = IF y = 0 THEN 0 ELSE x \div y
    BY DEF AssetsForShares
  <2> HIDE DEF x, y
  <2>4. y \in Nat
    BY <2>1 DEF y
  <2> QED
    BY <2>2, <2>3, <2>4
<1> DEFINE v == AssetsForShares(a, n) * price[a]
<1>3. v \in Nat
  BY <1>1, <1>2
<1>4. CollateralValue(a, n) = IF n = 0 THEN 0 ELSE v \div PriceScalar
  BY DEF CollateralValue
<1> HIDE DEF v
<1> QED
  BY <1>1, <1>3, <1>4

\* Health is computed from the world, the config and the two numbers given.
LEMMA SameHealth ==
  ASSUME UNCHANGED <<governance, world>>, NEW u \in User,
         NEW n, NEW owed, shares'[u] = n, debt'[u] = owed
  PROVE  HealthFactor(Primary, shares[u], debt[u])' = HealthFactor(Primary, n, owed)
<1>1. /\ supported' = supported /\ config' = config
      /\ price' = price /\ rate' = rate
  BY DEF governance, world
<1> QED
  BY <1>1 DEF HealthFactor, CollateralValue, AssetsForShares, Primary

LEMMA WithdrawStaysHealthy ==
  ASSUME Inv, NEW w \in User, NEW a \in Asset, NEW n \in Amount, Withdraw(w, a, n)
  PROVE  StaysHealthy
<1>1. TypeOK
  BY DEF Inv
<1>2. /\ Supported = {Primary} \/ Len(supported) # 1
  BY <1>1 DEF Supported, Primary, TypeOK
<1>3. /\ StorePosition(w, shares[w] - n, AccruedDebt(w))
      /\ WithdrawalHealthy(w, a, n)
      /\ a \in Supported
      /\ UNCHANGED <<governance, world>>
  BY DEF Withdraw
<1>4. /\ shares' = [shares EXCEPT ![w] = shares[w] - n]
      /\ debt' = [debt EXCEPT ![w] = AccruedDebt(w)]
  BY <1>3 DEF StorePosition
<1>5. SUFFICES ASSUME NEW u \in User,
                      shares'[u] < shares[u] \/ debt'[u] > debt[u],
                      debt'[u] > 0,
                      Len(supported) = 1
               PROVE  HealthFactor(Primary, shares[u], debt[u])' > BpsDenominator
  BY DEF StaysHealthy
<1>6. u = w
  BY <1>1, <1>4, <1>5 DEF TypeOK
<1>7. shares'[u] = shares[u] - n /\ debt'[u] = AccruedDebt(u)
  BY <1>1, <1>4, <1>6 DEF TypeOK
<1>8. HealthFactor(Primary, shares[u], debt[u])'
        = HealthFactor(Primary, shares[u] - n, AccruedDebt(u))
  BY <1>3, <1>7, SameHealth
<1>9. a = Primary
  BY <1>2, <1>3, <1>5
<1>10. HealthFactor(a, shares[u] - n, AccruedDebt(u)) > BpsDenominator
  BY <1>3, <1>5, <1>6, <1>7 DEF WithdrawalHealthy
<1> QED
  BY <1>8, <1>9, <1>10

LEMMA BorrowStaysHealthy ==
  ASSUME Inv, NEW w \in User, NEW n \in Amount, Borrow(w, n)
  PROVE  StaysHealthy
<1> DEFINE owed == AccruedDebt(w) + n
           V    == CollateralValue(Primary, shares[w])
<1>1. TypeOK /\ Initialized /\ supported # <<>> /\ n \in Nat /\ n > 0
  BY VaultAssumption DEF Inv, Borrow, Open
<1>2. /\ StorePosition(w, shares[w], owed)
      /\ owed <= (V * config.max_ltv) \div BpsDenominator
      /\ UNCHANGED <<governance, world>>
  BY DEF Borrow, MaxBorrow
<1>3. /\ V \in Nat
      /\ owed \in Nat \ {0}
      /\ config.max_ltv \in 1 .. BpsDenominator
      /\ config.liq_threshold \in Nat
      /\ BpsDenominator \in Nat \ {0}
  <2>1. V \in Nat
    BY <1>1, PrimaryType, CollateralValueType DEF TypeOK
  <2>2. owed \in Nat \ {0}
    BY <1>1, AccruedDebtType
  <2> QED
    BY <1>1, <2>1, <2>2, VaultAssumption DEF Inv, ValidConfig, TypeOK, PoolConfig
<1>4. HealthFactor(Primary, shares[w], owed) = (V * config.liq_threshold) \div owed
  BY DEF HealthFactor
<1>5. /\ shares' = [shares EXCEPT ![w] = shares[w]]
      /\ debt' = [debt EXCEPT ![w] = owed]
  BY <1>2 DEF StorePosition
<1> HIDE DEF owed, V
<1>6. config.max_ltv < config.liq_threshold
        => HealthFactor(Primary, shares[w], owed) > BpsDenominator
  BY <1>2, <1>3, <1>4, MarginIsHealthy
<1>7. SUFFICES ASSUME NEW u \in User,
                      shares'[u] < shares[u] \/ debt'[u] > debt[u],
                      config.max_ltv < config.liq_threshold
               PROVE  HealthFactor(Primary, shares[u], debt[u])' > BpsDenominator
  BY DEF StaysHealthy
<1>8. u = w
  BY <1>1, <1>5, <1>7, SMTT(30) DEF TypeOK
<1>9. shares'[u] = shares[w] /\ debt'[u] = owed
  BY <1>1, <1>5, <1>8 DEF TypeOK
<1>10. HealthFactor(Primary, shares[u], debt[u])'
         = HealthFactor(Primary, shares[w], owed)
  BY <1>2, <1>9, SameHealth
<1> QED
  BY <1>6, <1>7, <1>10

\* Every other step pays no user out.
LEMMA OthersPayNothingOut ==
  ASSUME Inv, [Next]_vars,
         ~ \E u \in User, a \in Asset, n \in Amount : Withdraw(u, a, n),
         ~ \E u \in User, n \in Amount : Borrow(u, n)
  PROVE  ~ PaysOut
<1>1. /\ totalDeposits \in Nat /\ treasury \in Nat /\ TypeOK
      /\ ~ Initialized => totalDeposits = 0
  BY DEF Inv, TypeOK
<1>2. CASE \E d \in Deployment : Initialize(d)
  BY <1>1, <1>2 DEF Initialize, PaysOut
<1>3. ASSUME NEW u \in User, NEW a \in Asset, NEW n \in Amount, Deposit(u, a, n)
      PROVE  ~ PaysOut
  <2>1. totalDeposits' = totalDeposits + n /\ n > 0 /\ n \in Int
        /\ treasury' = treasury
    BY <1>3, VaultAssumption DEF Deposit, DepositsRise
  <2> QED
    BY <1>1, <2>1 DEF PaysOut
<1>4. ASSUME NEW u \in User, NEW n \in Amount, Repay(u, n)
      PROVE  ~ PaysOut
  <2>1. AccruedDebt(u) \in Nat /\ n \in Nat
    BY <1>1, <1>4, AccruedDebtType, VaultAssumption DEF Repay
  <2>2. Cap(n, AccruedDebt(u)) \in Nat
    BY <2>1, CapBounds
  <2>3. /\ totalDeposits' = totalDeposits
        /\ \/ treasury' = treasury
           \/ treasury' = treasury + Cap(n, AccruedDebt(u))
    BY <1>1, <1>4, <2>2, TreasuryEffect DEF Repay
  <2> QED
    BY <1>1, <2>2, <2>3 DEF PaysOut
<1>5. ASSUME NEW l \in Operator, NEW u \in User, NEW n \in Amount, Liquidate(l, u, n)
      PROVE  ~ PaysOut
  <2> DEFINE paid == Cap(n, RepayCap(u))
  <2>1. AccruedDebt(u) \in Nat /\ n \in Nat
    BY <1>1, <1>5, AccruedDebtType, VaultAssumption DEF Liquidate
  <2>2. RepayCap(u) \in Nat
    BY <2>1 DEF RepayCap
  <2>3. paid \in Nat
    BY <2>1, <2>2, CapBounds
  <2>4. paid > 0 /\ TreasuryIn(paid)
    BY <1>5 DEF Liquidate
  <2> HIDE DEF paid
  <2>5. treasury' = treasury + paid
    BY <1>1, <2>3, <2>4, TreasuryEffect
  <2> QED
    BY <1>1, <2>3, <2>4, <2>5 DEF PaysOut
<1>6. ASSUME NEW n \in Amount, Fund(n)
      PROVE  ~ PaysOut
  <2>1. /\ treasury' = treasury + n /\ n > 0 /\ n \in Int
        /\ totalDeposits' = totalDeposits
    BY <1>6, VaultAssumption DEF Fund
  <2> QED
    BY <1>1, <2>1 DEF PaysOut
<1>7. CASE UNCHANGED book
  BY <1>1, <1>7 DEF PaysOut, book
<1>8. ASSUME \/ \E o \in Operator, b \in BOOLEAN : SetPaused(o, b)
             \/ \E c \in Config : UpdateConfig(c)
             \/ \E a \in Asset : AddSupportedAsset(a)
             \/ \E a \in Asset : RemoveSupportedAsset(a)
             \/ \E g \in Grantable : GrantRole(g[1], g[2])
             \/ \E g \in Grantable : RevokeRole(g[1], g[2])
             \/ Tick
             \/ \E p \in [Asset -> Price], t \in [Asset -> PriceTime] : OracleAnswers(p, t)
             \/ \E a \in Asset, r \in Rate : RateChange(a, r)
             \/ UNCHANGED vars
      PROVE  UNCHANGED book
  BY <1>8, Zenon DEF SetPaused, UpdateConfig, AddSupportedAsset, RemoveSupportedAsset,
    GrantRole, RevokeRole, Tick, OracleAnswers, RateChange, vars
<1> QED
  BY <1>2, <1>3, <1>4, <1>5, <1>6, <1>7, <1>8 DEF Next

\* A borrower who keeps to max_ltv, or withdraws within the health check, is not
\* liquidatable afterwards, provided max_ltv lies below liq_threshold and the
\* vault has one collateral token.  The code ensures neither; see
\* validate_config and primary_supported_asset.
THEOREM VaultUserStepsStayHealthy == Spec => UserStepsStayHealthy
<1>1. Inv /\ [Next]_vars => [StaysHealthy]_vars
  <2> SUFFICES ASSUME Inv, [Next]_vars
               PROVE  StaysHealthy
    OBVIOUS
  <2>1. ASSUME NEW u \in User, NEW a \in Asset, NEW n \in Amount, Withdraw(u, a, n)
        PROVE  StaysHealthy
    BY <2>1, WithdrawStaysHealthy
  <2>2. ASSUME NEW u \in User, NEW n \in Amount, Borrow(u, n)
        PROVE  StaysHealthy
    BY <2>2, BorrowStaysHealthy
  <2>3. CASE ~ PaysOut
    BY <2>3 DEF StaysHealthy
  <2> QED
    BY <2>1, <2>2, <2>3, OthersPayNothingOut
<1> QED
  BY <1>1, VaultInvariant, PTL DEF Spec, UserStepsStayHealthy

-------------------------------------------------------------------------------
(* A liquidation is fair *)

\* A quotient of a dividend within k divisors is within k.
LEMMA QuotientWithin ==
  ASSUME NEW x \in Nat, NEW y \in Nat \ {0}, NEW k \in Nat, x <= k * y
  PROVE  x \div y \in Nat /\ x \div y <= k
<1>1. x \div y \in Nat
  OBVIOUS
<1>2. ASSUME k + 1 <= x \div y
      PROVE  FALSE
  <2>1. (k + 1) * y <= x
    BY <1>2, QuotientBound
  <2>2. (k + 1) * y = k * y + y /\ k * y \in Nat
    OBVIOUS
  <2> QED
    BY <2>1, <2>2
<1> QED
  BY <1>1, <1>2

\* SharesToSeize rounds in the borrower's favour at each of its divisions: what
\* is seized is worth no more than the payment and its bonus.
LEMMA SeizedWithinPayment ==
  ASSUME TypeOK, supported # <<>>, price[Primary] > 0, NEW paid \in Nat,
         SharesToSeize(paid) > 0
  PROVE  AssetsForShares(Primary, SharesToSeize(paid)) * price[Primary]
           <= (paid + (paid * config.liq_bonus) \div BpsDenominator) * PriceScalar
<1> DEFINE p  == price[Primary]
           r1 == rate[Primary][1]
           r2 == rate[Primary][2]
           X  == (paid + (paid * config.liq_bonus) \div BpsDenominator) * PriceScalar
           seized == SharesToSeize(paid)
<1>1. Primary \in Asset
  BY PrimaryType
<1>2. p \in Nat \ {0} /\ r1 \in Nat /\ r2 \in Nat
  <2>1. rate[Primary] \in Nat \X Nat /\ price[Primary] \in Nat
    BY <1>1, VaultAssumption DEF TypeOK
  <2> QED
    BY <2>1
<1>3. X \in Nat
  <2>1. config.liq_bonus \in Nat /\ PriceScalar \in Nat /\ BpsDenominator \in Nat \ {0}
    BY VaultAssumption DEF TypeOK, PoolConfig
  <2>2. paid * config.liq_bonus \in Nat
    BY <2>1
  <2> DEFINE b == paid * config.liq_bonus
  <2> HIDE DEF b
  <2>3. b \div BpsDenominator \in Nat
    BY <2>1, <2>2 DEF b
  <2>4. paid + b \div BpsDenominator \in Nat
    BY <2>3
  <2> QED
    BY <2>1, <2>4 DEF b
<1>4. seized = IF r1 = 0 THEN 0 ELSE ((X \div p) * r2) \div r1
  BY DEF SharesToSeize, SharesForAssets
<1>5. AssetsForShares(Primary, seized) = IF r2 = 0 THEN 0 ELSE (seized * r1) \div r2
  BY DEF AssetsForShares
<1> HIDE DEF p, r1, r2, X, seized
<1>6. X \div p \in Nat
  BY <1>2, <1>3
<1>7. (X \div p) * p <= X /\ (X \div p) * p \in Nat
  BY <1>2, <1>3, <1>6, QuotientBound
<1> DEFINE Y == X \div p
<1>8. Y \in Nat /\ Y * p <= X /\ Y * p \in Nat
  BY <1>6, <1>7
<1>9. r1 # 0 /\ seized = (Y * r2) \div r1
  <2>1. seized > 0
    BY DEF seized
  <2> QED
    BY <1>4, <2>1
<1> HIDE DEF Y
<1>10. Y * r2 \in Nat
  BY <1>2, <1>8
<1>11. seized \in Nat /\ seized * r1 <= Y * r2 /\ seized * r1 \in Nat
  <2>1. (Y * r2) \div r1 \in Nat
    BY <1>2, <1>9, <1>10
  <2> QED
    BY <1>2, <1>9, <1>10, <2>1, QuotientBound
<1> DEFINE q == AssetsForShares(Primary, seized)
<1>12. q \in Nat /\ q <= Y
  <2>1. CASE r2 = 0
    BY <1>5, <1>8, <2>1
  <2>2. CASE r2 # 0
    BY <1>2, <1>5, <1>8, <1>11, <2>2, QuotientWithin
  <2> QED
    BY <2>1, <2>2
<1> HIDE DEF q
<1>13. q * p <= Y * p
  BY <1>2, <1>8, <1>12, MulMonotone
<1>14. q * p \in Nat
  BY <1>2, <1>12
<1>15. q * p <= X
  BY <1>3, <1>8, <1>13, <1>14
<1> QED
  BY <1>15 DEF q, p, X, seized

\* What a liquidation takes and leaves
LEMMA LiquidateEffect ==
  ASSUME Inv, NEW l \in Operator, NEW u \in User, NEW n \in Amount,
         Liquidate(l, u, n)
  PROVE  \E paid \in Nat, seized \in 1 .. shares[u] :
           /\ paid <= AccruedDebt(u) /\ 2 * paid <= AccruedDebt(u)
           /\ seized = SharesToSeize(paid)
           /\ treasury' = treasury + paid
           /\ totalDeposits' = totalDeposits - seized
           /\ StorePosition(u, shares[u] - seized, AccruedDebt(u) - paid)
<1> DEFINE paid   == Cap(n, RepayCap(u))
           seized == SharesToSeize(paid)
<1>1. TypeOK /\ n \in Nat
  <2>1. n \in Int /\ n > 0
    BY VaultAssumption DEF Liquidate
  <2> QED
    BY <2>1 DEF Inv
<1>2. AccruedDebt(u) \in Nat
  BY <1>1, AccruedDebtType
<1>3. RepayCap(u) \in Nat /\ 2 * RepayCap(u) <= AccruedDebt(u)
  BY <1>2 DEF RepayCap
<1>4. paid \in Nat /\ paid <= RepayCap(u)
  BY <1>1, <1>3, CapBounds
<1>5. /\ StorePosition(u, shares[u] - seized, AccruedDebt(u) - paid)
      /\ totalDeposits' = totalDeposits - seized
      /\ TreasuryIn(paid)
      /\ seized \in 1 .. shares[u]
  BY DEF Liquidate, DepositsFall
<1>6. treasury' = treasury + paid
  BY <1>1, <1>4, <1>5, TreasuryEffect
<1>7. paid <= AccruedDebt(u) /\ 2 * paid <= AccruedDebt(u)
  <2> HIDE DEF paid
  <2> QED
    BY <1>2, <1>3, <1>4
<1> HIDE DEF paid
<1> QED
  BY <1>4, <1>5, <1>6, <1>7

\* What LiquidationIsFair says of one step
FairStep ==
  treasury' > treasury /\ totalDeposits' < totalDeposits =>
    LET asset  == Primary
        paid   == treasury' - treasury
        seized == totalDeposits - totalDeposits'
    IN  \E u \in User :
          /\ shares' = [shares EXCEPT ![u] = @ - seized]
          /\ debt' = [debt EXCEPT ![u] = AccruedDebt(u) - paid]
          /\ 2 * paid <= AccruedDebt(u)
          /\ HealthFactor(asset, shares[u], AccruedDebt(u)) <= BpsDenominator
          /\ AssetsForShares(asset, seized) * price[asset]
               <= (paid + (paid * config.liq_bonus) \div BpsDenominator)
                    * PriceScalar

LEMMA LiquidateFair ==
  ASSUME Inv, NEW l \in Operator, NEW u \in User, NEW n \in Amount,
         Liquidate(l, u, n)
  PROVE  FairStep
<1>1. PICK paid \in Nat, seized \in 1 .. shares[u] :
        /\ 2 * paid <= AccruedDebt(u)
        /\ seized = SharesToSeize(paid)
        /\ treasury' = treasury + paid
        /\ totalDeposits' = totalDeposits - seized
        /\ StorePosition(u, shares[u] - seized, AccruedDebt(u) - paid)
  BY LiquidateEffect
<1>2. /\ TypeOK /\ treasury \in Nat /\ totalDeposits \in Nat /\ shares[u] \in Nat
      /\ shares \in [User -> Nat]
  BY DEF Inv, TypeOK
<1>3. seized \in Nat /\ seized > 0
  BY <1>2
<1>4. treasury' - treasury = paid /\ totalDeposits - totalDeposits' = seized
  BY <1>1, <1>2, <1>3
<1>5. /\ shares' = [shares EXCEPT ![u] = @ - seized]
      /\ debt' = [debt EXCEPT ![u] = AccruedDebt(u) - paid]
  BY <1>1 DEF StorePosition
<1>6. /\ supported # <<>> /\ price[Primary] > 0
      /\ HealthFactor(Primary, shares[u], AccruedDebt(u)) <= BpsDenominator
  BY DEF Liquidate, PriceUsable
<1>7. AssetsForShares(Primary, seized) * price[Primary]
        <= (paid + (paid * config.liq_bonus) \div BpsDenominator) * PriceScalar
  BY <1>1, <1>2, <1>3, <1>6, SeizedWithinPayment
<1> QED
  BY <1>1, <1>4, <1>5, <1>6, <1>7 DEF FairStep

\* Only a liquidation brings borrow tokens in and takes collateral out.
LEMMA NextFair == Inv /\ [Next]_vars => FairStep
<1> SUFFICES ASSUME Inv, [Next]_vars, treasury' > treasury,
                    totalDeposits' < totalDeposits
             PROVE  FairStep
  BY DEF FairStep
<1>0. /\ TypeOK /\ treasury \in Nat /\ totalDeposits \in Nat
      /\ ~ Initialized => totalDeposits = 0
  BY DEF Inv, TypeOK
<1>1. ASSUME NEW l \in Operator, NEW u \in User, NEW n \in Amount, Liquidate(l, u, n)
      PROVE  FairStep
  BY <1>1, LiquidateFair
<1>2. ASSUME NEW u \in User, NEW a \in Asset, NEW n \in Amount,
             Deposit(u, a, n) \/ Withdraw(u, a, n)
      PROVE  FairStep
  BY <1>0, <1>2 DEF Deposit, Withdraw
<1>3. ASSUME NEW n \in Amount,
             Fund(n) \/ \E u \in User : Borrow(u, n) \/ Repay(u, n)
      PROVE  FairStep
  BY <1>0, <1>3 DEF Borrow, Repay, Fund
<1>4. ASSUME NEW d \in Deployment, Initialize(d)
      PROVE  FairStep
  BY <1>0, <1>4 DEF Initialize
<1>5. ASSUME \/ \E o \in Operator, b \in BOOLEAN : SetPaused(o, b)
             \/ \E c \in Config : UpdateConfig(c)
             \/ \E a \in Asset : AddSupportedAsset(a)
             \/ \E a \in Asset : RemoveSupportedAsset(a)
             \/ \E g \in Grantable : GrantRole(g[1], g[2])
             \/ \E g \in Grantable : RevokeRole(g[1], g[2])
             \/ Tick
             \/ \E p \in [Asset -> Price], t \in [Asset -> PriceTime] : OracleAnswers(p, t)
             \/ \E a \in Asset, r \in Rate : RateChange(a, r)
             \/ UNCHANGED vars
      PROVE  UNCHANGED book
  BY <1>5, Zenon DEF SetPaused, UpdateConfig, AddSupportedAsset, RemoveSupportedAsset,
    GrantRole, RevokeRole, Tick, OracleAnswers, RateChange, vars
<1>6. CASE UNCHANGED book
  BY <1>0, <1>6 DEF book
<1> QED
  BY <1>1, <1>2, <1>3, <1>4, <1>5, <1>6 DEF Next

\* A liquidation touches one position that its accrued debt has made unhealthy,
\* settles at most half of that debt, and takes no more collateral than payment and
\* bonus are worth at the oracle's price, whatever the exchange rate and rounding.
THEOREM VaultLiquidationIsFair == Spec => LiquidationIsFair
<1>1. Inv /\ [Next]_vars => [FairStep]_vars
  BY NextFair
<1> QED
  BY <1>1, VaultInvariant, PTL DEF Spec, LiquidationIsFair, FairStep

-------------------------------------------------------------------------------
(* A debt falls by payments alone *)

\* Interest for a longer time is no less, and for no time it is nothing.
LEMMA InterestGrows ==
  ASSUME NEW x \in Nat, NEW y \in Nat \ {0}, NEW t \in Nat, NEW later \in Nat,
         t <= later
  PROVE  (x * t) \div y <= (x * later) \div y /\ (x * 0) \div y = 0
<1>1. x * t \in Nat /\ x * later \in Nat /\ x * t <= x * later /\ x * 0 = 0
  BY MulMonotone
<1> DEFINE p == x * t
           q == x * later
<1>2. p \in Nat /\ q \in Nat /\ p <= q
  BY <1>1
<1> HIDE DEF p, q
<1>3. p \div y \in Nat /\ q \div y \in Nat
  BY <1>2
<1>4. (p \div y) * y <= p /\ (p \div y) * y \in Nat
  BY <1>2, <1>3, QuotientBound
<1>5. p \div y <= q \div y
  BY <1>2, <1>3, <1>4, QuotientBound
<1>6. 0 \div y = 0
  OBVIOUS
<1> QED
  BY <1>1, <1>5, <1>6 DEF p, q

\* A touched position owes what was stored; nobody else's debt has moved.
LEMMA AccruedAfterStore ==
  ASSUME TypeOK, NEW u \in User, NEW n \in Nat, NEW owed \in Nat,
         StorePosition(u, n, owed), config' = config, now' = now
  PROVE  /\ AccruedDebt(u)' = owed
         /\ \A w \in User : w # u => AccruedDebt(w)' = AccruedDebt(w)
<1> DEFINE y == SecondsPerYear * BpsDenominator
           rt == config.interest_rate
<1>1. /\ rt \in Nat /\ now \in Nat /\ y \in Nat \ {0}
      /\ debt \in [User -> Nat] /\ lastUpdate \in [User -> 0 .. now]
  BY VaultAssumption DEF TypeOK, PoolConfig
<1>2. /\ debt' = [debt EXCEPT ![u] = owed]
      /\ lastUpdate' = [lastUpdate EXCEPT ![u] = IF n = 0 /\ owed = 0 THEN 0 ELSE now]
  BY DEF StorePosition
<1>3. AccruedDebt(u)' = debt'[u] + (debt'[u] * rt * (now - lastUpdate'[u])) \div y
  BY DEF AccruedDebt
<1>4. /\ debt'[u] = owed
      /\ lastUpdate'[u] = IF n = 0 /\ owed = 0 THEN 0 ELSE now
  BY <1>1, <1>2
<1>5. ASSUME NEW w \in User, w # u
      PROVE  AccruedDebt(w)' = AccruedDebt(w)
  <2>1. debt'[w] = debt[w] /\ lastUpdate'[w] = lastUpdate[w]
    BY <1>1, <1>2, <1>5
  <2> QED
    BY <2>1 DEF AccruedDebt
<1> HIDE DEF y, rt
<1>6. ASSUME owed = 0
      PROVE  AccruedDebt(u)' = owed
  <2>1. AccruedDebt(u)' = 0 + (0 * rt * (now - lastUpdate'[u])) \div y
    BY <1>3, <1>4, <1>6
  <2>2. now - lastUpdate'[u] \in Int
    BY <1>1, <1>4
  <2>3. 0 * rt * (now - lastUpdate'[u]) = 0
    BY <1>1, <2>2
  <2>4. 0 \div y = 0
    BY <1>1
  <2> QED
    BY <1>6, <2>1, <2>3, <2>4
<1>7. ASSUME owed # 0
      PROVE  AccruedDebt(u)' = owed
  <2>1. now - lastUpdate'[u] = 0
    BY <1>1, <1>4, <1>7
  <2>2. AccruedDebt(u)' = owed + (owed * rt * 0) \div y
    BY <1>3, <1>4, <2>1
  <2>3. owed * rt \in Nat
    BY <1>1
  <2>4. (owed * rt * 0) \div y = 0
    BY <1>1, <2>3, InterestGrows
  <2> QED
    BY <2>2, <2>4
<1> QED
  BY <1>5, <1>6, <1>7

\* Nothing accrues where nothing is owed.
LEMMA NothingAccrues ==
  ASSUME TypeOK, NEW u \in User, debt[u] = 0
  PROVE  AccruedDebt(u) = 0
<1> DEFINE y == SecondsPerYear * BpsDenominator
           t == now - lastUpdate[u]
<1>1. config.interest_rate \in Nat /\ t \in Int /\ y \in Nat \ {0}
  BY VaultAssumption DEF TypeOK, PoolConfig
<1>2. AccruedDebt(u) = 0 + (0 * config.interest_rate * t) \div y
  BY DEF AccruedDebt
<1> HIDE DEF y, t
<1>3. 0 * config.interest_rate * t = 0 /\ 0 \div y = 0
  BY <1>1
<1> QED
  BY <1>2, <1>3

\* What DebtFallsOnlyByPayment says of one step
DebtFallIsPaid ==
  config' = config =>
    \A u \in User :
      \/ AccruedDebt(u)' >= AccruedDebt(u)
      \/ treasury' - treasury = AccruedDebt(u) - AccruedDebt(u)'

\* A step that stores one position and takes paid for what its debt falls by
LEMMA StoreIsPaid ==
  ASSUME TypeOK, NEW u \in User, NEW n \in Nat, NEW owed \in Nat,
         StorePosition(u, n, owed), config' = config, now' = now,
         \/ owed >= AccruedDebt(u)
         \/ treasury' - treasury = AccruedDebt(u) - owed
  PROVE  DebtFallIsPaid
<1>1. /\ AccruedDebt(u)' = owed
      /\ \A w \in User : w # u => AccruedDebt(w)' = AccruedDebt(w)
  BY AccruedAfterStore
<1>2. ASSUME NEW w \in User
      PROVE  \/ AccruedDebt(w)' >= AccruedDebt(w)
             \/ treasury' - treasury = AccruedDebt(w) - AccruedDebt(w)'
  <2>1. CASE w = u
    BY <1>1, <2>1
  <2>2. CASE w # u
    <3>1. AccruedDebt(w)' = AccruedDebt(w) /\ AccruedDebt(w) \in Nat
      BY <1>1, <2>2, AccruedDebtType
    <3> QED
      BY <3>1
  <2> QED
    BY <2>1, <2>2
<1> QED
  BY <1>2 DEF DebtFallIsPaid

\* A step that touches no position lets interest accrue, or nothing.
LEMMA WaitingAccrues ==
  ASSUME TypeOK, UNCHANGED positions, now <= now', now' \in Nat
  PROVE  DebtFallIsPaid
<1> SUFFICES ASSUME config' = config, NEW u \in User
             PROVE  AccruedDebt(u)' >= AccruedDebt(u)
  BY DEF DebtFallIsPaid
<1> DEFINE y == SecondsPerYear * BpsDenominator
           x == debt[u] * config.interest_rate
           t == now - lastUpdate[u]
           later == now' - lastUpdate[u]
<1>1. debt[u] \in Nat /\ config.interest_rate \in Nat /\ lastUpdate[u] \in 0 .. now
      /\ now \in Nat
  BY VaultAssumption DEF TypeOK, PoolConfig
<1>2. x \in Nat /\ y \in Nat \ {0} /\ t \in Nat /\ later \in Nat /\ t <= later
  BY <1>1, VaultAssumption
<1>3. AccruedDebt(u) = debt[u] + (x * t) \div y
  BY DEF AccruedDebt
<1>4. AccruedDebt(u)' = debt[u] + (x * later) \div y
  BY DEF AccruedDebt, positions
<1> HIDE DEF x, y, t, later
<1>5. (x * t) \div y <= (x * later) \div y
  BY <1>2, InterestGrows
<1>6. x * t \in Nat /\ x * later \in Nat
  BY <1>2
<1>7. (x * t) \div y \in Nat /\ (x * later) \div y \in Nat
  BY <1>2, <1>6
<1> QED
  BY <1>1, <1>3, <1>4, <1>5, <1>7

LEMMA NextDebtFallIsPaid == Inv /\ [Next]_vars => DebtFallIsPaid
<1> SUFFICES ASSUME Inv, [Next]_vars
             PROVE  DebtFallIsPaid
  OBVIOUS
<1>0. /\ TypeOK /\ shares \in [User -> Nat] /\ treasury \in Nat
      /\ now \in Nat /\ Amount \subseteq Int
  BY VaultAssumption DEF Inv, TypeOK
<1>1. ASSUME NEW u \in User, NEW a \in Asset, NEW n \in Amount, Deposit(u, a, n)
      PROVE  DebtFallIsPaid
  <2>1. n > 0 /\ n \in Int /\ StorePosition(u, shares[u] + n, DebtAtDeposit(u))
        /\ config' = config /\ now' = now
    BY <1>0, <1>1 DEF Deposit, governance, world
  <2>2. AccruedDebt(u) \in Nat /\ debt[u] \in Nat
    BY <1>0, AccruedDebtType DEF TypeOK
  <2>3. DebtAtDeposit(u) = AccruedDebt(u)
    BY <1>0, <2>2, NothingAccrues DEF DebtAtDeposit
  <2>4. shares[u] + n \in Nat
    BY <1>0, <2>1
  <2>5. AccruedDebt(u) >= AccruedDebt(u)
    BY <2>2
  <2> QED
    BY <1>0, <2>1, <2>2, <2>3, <2>4, <2>5, StoreIsPaid
<1>2. ASSUME NEW u \in User, NEW a \in Asset, NEW n \in Amount, Withdraw(u, a, n)
      PROVE  DebtFallIsPaid
  <2>1. n > 0 /\ n \in Int /\ n <= shares[u]
        /\ StorePosition(u, shares[u] - n, AccruedDebt(u))
        /\ config' = config /\ now' = now
    BY <1>0, <1>2 DEF Withdraw, governance, world
  <2>2. AccruedDebt(u) \in Nat
    BY <1>0, AccruedDebtType
  <2>3. shares[u] - n \in Nat
    BY <1>0, <2>1
  <2>4. AccruedDebt(u) >= AccruedDebt(u)
    BY <2>2
  <2> QED
    BY <1>0, <2>1, <2>2, <2>3, <2>4, StoreIsPaid
<1>3. ASSUME NEW u \in User, NEW n \in Amount, Borrow(u, n)
      PROVE  DebtFallIsPaid
  <2>1. n > 0 /\ n \in Int /\ StorePosition(u, shares[u], AccruedDebt(u) + n)
        /\ config' = config /\ now' = now
    BY <1>0, <1>3 DEF Borrow, governance, world
  <2>2. AccruedDebt(u) \in Nat /\ shares[u] \in Nat
    BY <1>0, AccruedDebtType
  <2>3. AccruedDebt(u) + n \in Nat /\ AccruedDebt(u) + n >= AccruedDebt(u)
    BY <2>1, <2>2
  <2> QED
    BY <1>0, <2>1, <2>2, <2>3, StoreIsPaid
<1>4. ASSUME NEW u \in User, NEW n \in Amount, Repay(u, n)
      PROVE  DebtFallIsPaid
  <2> DEFINE paid == Cap(n, AccruedDebt(u))
  <2>1. n > 0 /\ n \in Int /\ StorePosition(u, shares[u], AccruedDebt(u) - paid)
        /\ (IF paid > 0 THEN TreasuryIn(paid) ELSE UNCHANGED treasury)
        /\ config' = config /\ now' = now
    BY <1>0, <1>4 DEF Repay, governance, world
  <2>2. AccruedDebt(u) \in Nat /\ shares[u] \in Nat /\ n \in Nat
    BY <1>0, <2>1, AccruedDebtType
  <2>3. paid \in Nat /\ paid <= AccruedDebt(u)
    BY <2>2, CapBounds
  <2> HIDE DEF paid
  <2>4. treasury' = treasury + paid
    BY <1>0, <2>1, <2>3, TreasuryEffect
  <2>5. AccruedDebt(u) - paid \in Nat
        /\ treasury' - treasury = AccruedDebt(u) - (AccruedDebt(u) - paid)
    BY <1>0, <2>2, <2>3, <2>4
  <2> QED
    BY <1>0, <2>1, <2>2, <2>5, StoreIsPaid
<1>5. ASSUME NEW l \in Operator, NEW u \in User, NEW n \in Amount, Liquidate(l, u, n)
      PROVE  DebtFallIsPaid
  <2>1. PICK paid \in Nat, seized \in 1 .. shares[u] :
          /\ paid <= AccruedDebt(u) /\ treasury' = treasury + paid
          /\ StorePosition(u, shares[u] - seized, AccruedDebt(u) - paid)
    BY <1>5, LiquidateEffect
  <2>2. AccruedDebt(u) \in Nat /\ shares[u] \in Nat
    BY <1>0, AccruedDebtType
  <2>3. shares[u] - seized \in Nat /\ AccruedDebt(u) - paid \in Nat
        /\ treasury' - treasury = AccruedDebt(u) - (AccruedDebt(u) - paid)
    BY <1>0, <2>1, <2>2
  <2>4. config' = config /\ now' = now
    BY <1>5 DEF Liquidate, governance, world
  <2> QED
    BY <1>0, <2>1, <2>3, <2>4, StoreIsPaid
<1>6. ASSUME \/ \E d \in Deployment : Initialize(d)
             \/ \E o \in Operator, b \in BOOLEAN : SetPaused(o, b)
             \/ \E c \in Config : UpdateConfig(c)
             \/ \E a \in Asset : AddSupportedAsset(a)
             \/ \E a \in Asset : RemoveSupportedAsset(a)
             \/ \E g \in Grantable : GrantRole(g[1], g[2])
             \/ \E g \in Grantable : RevokeRole(g[1], g[2])
             \/ \E n \in Amount : Fund(n)
             \/ Tick
             \/ \E p \in [Asset -> Price], t \in [Asset -> PriceTime] : OracleAnswers(p, t)
             \/ \E a \in Asset, r \in Rate : RateChange(a, r)
             \/ UNCHANGED vars
      PROVE  UNCHANGED positions /\ (now' = now \/ now' = now + 1)
  BY <1>6, Zenon DEF Initialize, SetPaused, UpdateConfig, AddSupportedAsset,
    RemoveSupportedAsset, GrantRole, RevokeRole, Fund, Tick, OracleAnswers, RateChange,
    world, vars
<1>7. ASSUME UNCHANGED positions /\ (now' = now \/ now' = now + 1)
      PROVE  DebtFallIsPaid
  <2>1. now <= now' /\ now' \in Nat
    BY <1>0, <1>7
  <2> QED
    BY <1>0, <1>7, <2>1, WaitingAccrues
<1> QED
  BY <1>1, <1>2, <1>3, <1>4, <1>5, <1>6, <1>7 DEF Next

\* As long as the config stands, a debt with its interest falls only by as many
\* borrow tokens as repay or liquidate brings into the vault: deposits and
\* withdrawals accrue it, and no clock restart forgives any of it.
THEOREM VaultDebtFallsOnlyByPayment == Spec => DebtFallsOnlyByPayment
<1>1. Inv /\ [Next]_vars => [DebtFallIsPaid]_vars
  BY NextDebtFallIsPaid
<1> QED
  BY <1>1, VaultInvariant, PTL DEF Spec, DebtFallsOnlyByPayment, DebtFallIsPaid

\* Interest is reckoned from natural numbers: no position was touched after now.
LEMMA InterestTerms ==
  ASSUME Inv, NEW u \in User
  PROVE  /\ debt[u] \in Nat /\ config.interest_rate \in Nat
         /\ now - lastUpdate[u] \in Nat
<1>1. debt[u] \in Nat
  BY DEF Inv, TypeOK
<1>2. config.interest_rate \in Nat
  BY DEF Inv, TypeOK, PoolConfig
<1>3. now \in Nat /\ lastUpdate[u] \in 0 .. now
  BY VaultAssumption DEF Inv, TypeOK
<1>4. now - lastUpdate[u] \in Nat
  BY <1>3
<1> QED
  BY <1>1, <1>2, <1>4

\* Whoever touches a position forgives less than one unit of its interest by
\* rounding, and all of it when less than one unit has accrued: debts touched often
\* enough do not grow.
THEOREM VaultTouchForgivesLessThanOne ==
  ASSUME Inv, NEW u \in User, NEW interest, NEW earned, NEW unit,
         interest = AccruedDebt(u) - debt[u],
         earned = debt[u] * config.interest_rate * (now - lastUpdate[u]),
         unit = SecondsPerYear * BpsDenominator
  PROVE  /\ interest * unit <= earned /\ earned < (interest + 1) * unit
         /\ earned < unit <=> interest = 0
<1>1. /\ debt[u] \in Nat /\ config.interest_rate \in Nat
      /\ now - lastUpdate[u] \in Nat
  BY InterestTerms
<1>2. unit \in Nat \ {0}
  BY VaultAssumption
<1>3. earned \in Nat
  <2> DEFINE x == debt[u] * config.interest_rate
             t == now - lastUpdate[u]
  <2>1. x \in Nat /\ t \in Nat /\ earned = x * t
    BY <1>1
  <2> HIDE DEF x, t
  <2> QED
    BY <2>1
<1>4. AccruedDebt(u) = debt[u] + earned \div unit
  BY DEF AccruedDebt
<1>5. earned \div unit \in Nat
  BY <1>2, <1>3
<1>6. interest = earned \div unit /\ interest \in Nat
  BY <1>1, <1>4, <1>5
<1>7. interest * unit <= earned
  BY <1>2, <1>3, <1>6, QuotientBound
<1>8. earned < (interest + 1) * unit
  <2>1. interest + 1 \in Nat /\ ~ (interest + 1 <= earned \div unit)
    BY <1>6
  <2>2. ~ ((interest + 1) * unit <= earned)
    BY <1>2, <1>3, <2>1, QuotientBound
  <2>3. (interest + 1) * unit \in Nat
    BY <1>2, <2>1
  <2> QED
    BY <1>3, <2>2, <2>3
<1>9. earned < unit <=> interest = 0
  <2>1. 1 <= interest <=> 1 * unit <= earned
    BY <1>2, <1>3, <1>6, QuotientBound
  <2> QED
    BY <1>2, <1>3, <1>6, <2>1
<1> QED
  BY <1>7, <1>8, <1>9

-------------------------------------------------------------------------------
(* What TotalBorrows leaves out                                            *)

\* What a step does to the two: it writes one debt anew and counts in the total
\* what is lent or paid, but not the interest, or leaves both alone.
BooksMove ==
  \/ /\ debt' = debt /\ totalBorrows' = totalBorrows
  \/ \E u \in User, owed \in Nat :
       /\ debt' = [debt EXCEPT ![u] = owed]
       /\ totalBorrows' = totalBorrows + (owed - AccruedDebt(u))

LEMMA NextBooksMove == Inv /\ [Next]_vars => BooksMove
<1> SUFFICES ASSUME Inv, [Next]_vars
             PROVE  BooksMove
  OBVIOUS
<1>0. TypeOK /\ totalBorrows \in Int /\ Amount \subseteq Int
  BY VaultAssumption DEF Inv, TypeOK
<1>1. ASSUME NEW u \in User, NEW a \in Asset, NEW n \in Amount, Deposit(u, a, n)
      PROVE  BooksMove
  <2>1. debt' = [debt EXCEPT ![u] = DebtAtDeposit(u)] /\ totalBorrows' = totalBorrows
    BY <1>1 DEF Deposit, StorePosition
  <2>2. AccruedDebt(u) \in Nat /\ debt[u] \in Nat
    BY <1>0, AccruedDebtType DEF TypeOK
  <2>3. DebtAtDeposit(u) = AccruedDebt(u)
    BY <1>0, <2>2, NothingAccrues DEF DebtAtDeposit
  <2>4. totalBorrows' = totalBorrows + (DebtAtDeposit(u) - AccruedDebt(u))
    BY <1>0, <2>1, <2>2, <2>3
  <2> QED
    BY <2>1, <2>2, <2>3, <2>4 DEF BooksMove
<1>2. ASSUME NEW u \in User, NEW a \in Asset, NEW n \in Amount, Withdraw(u, a, n)
      PROVE  BooksMove
  <2>1. debt' = [debt EXCEPT ![u] = AccruedDebt(u)] /\ totalBorrows' = totalBorrows
    BY <1>2 DEF Withdraw, StorePosition
  <2>2. AccruedDebt(u) \in Nat
    BY <1>0, AccruedDebtType
  <2>3. totalBorrows' = totalBorrows + (AccruedDebt(u) - AccruedDebt(u))
    BY <1>0, <2>1, <2>2
  <2> QED
    BY <2>1, <2>2, <2>3 DEF BooksMove
<1>3. ASSUME NEW u \in User, NEW n \in Amount, Borrow(u, n)
      PROVE  BooksMove
  <2>1. /\ debt' = [debt EXCEPT ![u] = AccruedDebt(u) + n]
        /\ totalBorrows' = totalBorrows + n
        /\ n > 0
    BY <1>3 DEF Borrow, StorePosition, BorrowsRise
  <2>2. AccruedDebt(u) \in Nat /\ n \in Int
    BY <1>0, AccruedDebtType
  <2>3. /\ AccruedDebt(u) + n \in Nat
        /\ totalBorrows' = totalBorrows + ((AccruedDebt(u) + n) - AccruedDebt(u))
    BY <1>0, <2>1, <2>2
  <2> QED
    BY <2>1, <2>3 DEF BooksMove
<1>4. ASSUME NEW u \in User, NEW paid \in Nat, paid <= AccruedDebt(u),
             debt' = [debt EXCEPT ![u] = AccruedDebt(u) - paid],
             totalBorrows' = totalBorrows - paid
      PROVE  BooksMove
  <2>1. AccruedDebt(u) \in Nat
    BY <1>0, AccruedDebtType
  <2>2. /\ AccruedDebt(u) - paid \in Nat
        /\ totalBorrows' = totalBorrows + ((AccruedDebt(u) - paid) - AccruedDebt(u))
    BY <1>0, <1>4, <2>1
  <2> QED
    BY <1>4, <2>2 DEF BooksMove
<1>5. ASSUME NEW u \in User, NEW n \in Amount, Repay(u, n)
      PROVE  BooksMove
  <2> DEFINE paid == Cap(n, AccruedDebt(u))
  <2>1. /\ debt' = [debt EXCEPT ![u] = AccruedDebt(u) - paid]
        /\ totalBorrows' = totalBorrows - paid
        /\ n > 0
    BY <1>5 DEF Repay, StorePosition, BorrowsFall
  <2>2. AccruedDebt(u) \in Nat /\ n \in Nat
    BY <1>0, <2>1, AccruedDebtType
  <2>3. paid \in Nat /\ paid <= AccruedDebt(u)
    BY <2>2, CapBounds
  <2> HIDE DEF paid
  <2> QED
    BY <1>4, <2>1, <2>3
<1>6. ASSUME NEW l \in Operator, NEW u \in User, NEW n \in Amount, Liquidate(l, u, n)
      PROVE  BooksMove
  <2> DEFINE paid == Cap(n, RepayCap(u))
  <2>1. /\ debt' = [debt EXCEPT ![u] = AccruedDebt(u) - paid]
        /\ totalBorrows' = totalBorrows - paid
        /\ n > 0
    BY <1>6 DEF Liquidate, StorePosition, BorrowsFall
  <2>2. AccruedDebt(u) \in Nat /\ n \in Nat
    BY <1>0, <2>1, AccruedDebtType
  <2>3. RepayCap(u) \in Nat /\ RepayCap(u) <= AccruedDebt(u)
    BY <2>2 DEF RepayCap
  <2>4. paid \in Nat /\ paid <= RepayCap(u)
    BY <2>2, <2>3, CapBounds
  <2> HIDE DEF paid
  <2>5. paid <= AccruedDebt(u)
    BY <2>2, <2>3, <2>4
  <2> QED
    BY <1>4, <2>1, <2>4, <2>5
<1>7. ASSUME NEW d \in Deployment, Initialize(d)
      PROVE  BooksMove
  BY <1>7 DEF Initialize, Inv, BooksMove, positions
<1>8. ASSUME \/ \E o \in Operator, b \in BOOLEAN : SetPaused(o, b)
             \/ \E c \in Config : UpdateConfig(c)
             \/ \E a \in Asset : AddSupportedAsset(a)
             \/ \E a \in Asset : RemoveSupportedAsset(a)
             \/ \E g \in Grantable : GrantRole(g[1], g[2])
             \/ \E g \in Grantable : RevokeRole(g[1], g[2])
             \/ \E n \in Amount : Fund(n)
             \/ Tick
             \/ \E p \in [Asset -> Price], t \in [Asset -> PriceTime] : OracleAnswers(p, t)
             \/ \E a \in Asset, r \in Rate : RateChange(a, r)
             \/ UNCHANGED vars
      PROVE  BooksMove
  <2>1. debt' = debt /\ totalBorrows' = totalBorrows
    BY <1>8, Zenon DEF SetPaused, UpdateConfig, AddSupportedAsset,
      RemoveSupportedAsset, GrantRole, RevokeRole, Fund, Tick, OracleAnswers,
      RateChange, positions, book, vars
  <2> QED
    BY <2>1 DEF BooksMove
<1> QED
  BY <1>1, <1>2, <1>3, <1>5, <1>6, <1>7, <1>8 DEF Next

\* The gap widens by the interest of the debt that a step writes anew.
LEMMA GapWidens ==
  ASSUME TypeOK, NEW u \in User, NEW owed \in Nat,
         debt' = [debt EXCEPT ![u] = owed],
         totalBorrows' = totalBorrows + (owed - AccruedDebt(u))
  PROVE  /\ InterestGap \in Int
         /\ InterestGap' = InterestGap + (AccruedDebt(u) - debt[u])
<1>1. /\ IsFiniteSet(User) /\ debt \in [User -> Int] /\ owed \in Int
      /\ debt[u] \in Nat /\ totalBorrows \in Int
  BY VaultAssumption DEF TypeOK
<1>2. AccruedDebt(u) \in Nat
  BY AccruedDebtType
<1>3. SumFunction([debt EXCEPT ![u] = owed]) = SumFunction(debt) + (owed - debt[u])
  BY <1>1, SumUpdate, ZenonT(60)
<1>4. SumFunction(debt) \in Int
  BY <1>1, SumType
<1>5. SumFunction(debt') = SumFunction(debt) + (owed - debt[u])
  BY <1>3
<1> QED
  BY <1>1, <1>2, <1>4, <1>5 DEF InterestGap

\* Interest is added to debts and never to TotalBorrows, but taken off it with every
\* payment, and nothing ever makes up for it: from the first interest written, the
\* total stays below the debts on record, whatever is lent, repaid or liquidated.
THEOREM VaultInterestGapNeverCloses == Spec => InterestGapNeverCloses
<1>1. ASSUME Inv, [Next]_vars
      PROVE  InterestGap' >= InterestGap
  <2>1. TypeOK
    BY <1>1 DEF Inv
  <2>2. CASE debt' = debt /\ totalBorrows' = totalBorrows
    <3>1. IsFiniteSet(User) /\ debt \in [User -> Int] /\ totalBorrows \in Int
      BY <2>1, VaultAssumption DEF TypeOK
    <3>2. SumFunction(debt) \in Int
      BY <3>1, SumType
    <3> QED
      BY <2>2, <3>1, <3>2 DEF InterestGap
  <2>3. ASSUME NEW u \in User, NEW owed \in Nat,
               debt' = [debt EXCEPT ![u] = owed],
               totalBorrows' = totalBorrows + (owed - AccruedDebt(u))
        PROVE  InterestGap' >= InterestGap
    <3>1. /\ InterestGap \in Int
          /\ InterestGap' = InterestGap + (AccruedDebt(u) - debt[u])
      BY <2>1, <2>3, GapWidens
    <3>2. debt[u] \in Nat /\ AccruedDebt(u) \in Nat /\ debt[u] <= AccruedDebt(u)
      BY <2>1, AccruedDebtType DEF TypeOK
    <3> QED
      BY <3>1, <3>2
  <2>4. BooksMove
    BY <1>1, NextBooksMove
  <2> QED
    BY <2>2, <2>3, <2>4 DEF BooksMove
<1>2. Inv /\ [Next]_vars => [InterestGap' >= InterestGap]_vars
  BY <1>1
<1> QED
  BY <1>2, VaultInvariant, PTL DEF Spec, InterestGapNeverCloses

\* The configurations a vault without interest is given
NoInterest ==
  /\ \A c \in Config : c.interest_rate = 0
  /\ \A d \in Deployment : d.config.interest_rate = 0

\* TotalBorrows is the sum of the debts, which nothing accrues.
BorrowsExact == config.interest_rate = 0 /\ InterestGap = 0

LEMMA NoInterestAccrues ==
  ASSUME TypeOK, config.interest_rate = 0, NEW u \in User
  PROVE  AccruedDebt(u) = debt[u]
<1> DEFINE y == SecondsPerYear * BpsDenominator
           t == now - lastUpdate[u]
<1>1. debt[u] \in Nat /\ t \in Int /\ y \in Nat \ {0}
  BY VaultAssumption DEF TypeOK
<1>2. AccruedDebt(u) = debt[u] + (debt[u] * 0 * t) \div y
  BY DEF AccruedDebt
<1> HIDE DEF y, t
<1>3. debt[u] * 0 * t = 0 /\ 0 \div y = 0
  BY <1>1
<1> QED
  BY <1>1, <1>2, <1>3

LEMMA ConfigComes ==
  ASSUME [Next]_vars
  PROVE  \/ config' = config
         \/ \E c \in Config : config' = c
         \/ \E d \in Deployment : config' = d.config
<1> QED
  BY Zenon DEF Next, vars, governance, Deposit, Withdraw, Borrow, Repay, Liquidate,
    Initialize, SetPaused, UpdateConfig, AddSupportedAsset, RemoveSupportedAsset,
    GrantRole, RevokeRole, Fund, Tick, OracleAnswers, RateChange

\* What test_repay expects of TotalBorrows holds in every vault that never has an
\* interest rate: interest is all that brings the total and the debts apart.
THEOREM VaultBorrowsClearWithoutInterest ==
  ASSUME NoInterest
  PROVE  Spec => []TotalBorrowsClearsWithDebt
<1>1. Init => BorrowsExact
  <2> SUFFICES ASSUME Init
               PROVE  BorrowsExact
    OBVIOUS
  <2>1. IsFiniteSet(User) /\ debt = [u \in User |-> 0] /\ totalBorrows = 0
    BY VaultAssumption DEF Init
  <2>2. SumFunction(debt) = 0
    BY <2>1, SumZero
  <2>3. config.interest_rate = 0
    BY DEF Init, NoConfig
  <2> QED
    BY <2>1, <2>2, <2>3 DEF BorrowsExact, InterestGap
<1>2. ASSUME Inv, BorrowsExact, [Next]_vars
      PROVE  BorrowsExact'
  <2>1. TypeOK
    BY <1>2 DEF Inv
  <2>2. config'.interest_rate = 0
    BY <1>2, ConfigComes DEF NoInterest, BorrowsExact
  <2>3. ASSUME NEW u \in User, NEW owed \in Nat,
               debt' = [debt EXCEPT ![u] = owed],
               totalBorrows' = totalBorrows + (owed - AccruedDebt(u))
        PROVE  InterestGap' = 0
    <3>1. InterestGap' = InterestGap + (AccruedDebt(u) - debt[u])
      BY <2>1, <2>3, GapWidens
    <3>2. AccruedDebt(u) = debt[u] /\ debt[u] \in Nat /\ InterestGap = 0
      BY <1>2, <2>1, NoInterestAccrues DEF BorrowsExact, TypeOK
    <3> QED
      BY <3>1, <3>2
  <2>4. ASSUME debt' = debt, totalBorrows' = totalBorrows
        PROVE  InterestGap' = 0
    BY <1>2, <2>4 DEF BorrowsExact, InterestGap
  <2>5. BooksMove
    BY <1>2, NextBooksMove
  <2> QED
    BY <2>2, <2>3, <2>4, <2>5 DEF BooksMove, BorrowsExact
<1>3. ASSUME Inv, BorrowsExact
      PROVE  TotalBorrowsClearsWithDebt
  <2>1. IsFiniteSet(User) /\ debt \in [User -> Nat] /\ totalBorrows \in Int
    BY <1>3, VaultAssumption DEF Inv, TypeOK
  <2>2. ASSUME \A u \in User : debt[u] = 0
        PROVE  totalBorrows = 0
    <3>1. SumFunction(debt) = 0
      BY <2>1, <2>2, SumZero
    <3>2. SumFunction(debt) - totalBorrows = 0
      BY <1>3 DEF BorrowsExact, InterestGap
    <3> QED
      BY <2>1, <3>1, <3>2
  <2> QED
    BY <2>2 DEF TotalBorrowsClearsWithDebt
<1> QED
  BY <1>1, <1>2, <1>3, VaultInvariant, PTL DEF Spec

-------------------------------------------------------------------------------
(* What stays possible.  The theorems of this section describe one step by *)
(* the value it gives every variable and show that the step is one of the  *)
(* action: in each state of the invariant that meets the conditions, the   *)
(* action can be taken.                                                    *)

\* The one collateral token of a vault covers every position.
LEMMA OneTokenCovers ==
  ASSUME Inv, NEW a \in Asset, Asset = {a}, NEW u \in User
  PROVE  shares[u] \in Nat /\ custody[a] \in Nat /\ shares[u] <= custody[a]
<1>1. /\ IsFiniteSet(User) /\ IsFiniteSet(Asset)
      /\ shares \in [User -> Nat] /\ custody \in [Asset -> Nat]
  BY VaultAssumption DEF Inv, TypeOK
<1>2. SumFunction(shares) \in Nat /\ shares[u] <= SumFunction(shares)
  BY <1>1, SumBoundsEntry
<1>3. SumFunction(custody) = custody[a]
  <2> DEFINE rest == [y \in Asset \ {a} |-> custody[y]]
  <2>1. custody \in [Asset -> Int]
    BY <1>1
  <2>2. SumFunction(custody) = SumFunction(rest) + custody[a]
    BY <1>1, <2>1, SumRemove
  <2>3. Asset \ {a} = {} /\ IsFiniteSet({}) /\ rest \in [{} -> Int]
    BY FS_EmptySet
  <2> HIDE DEF rest
  <2>4. SumFunction(rest) = 0
    BY <2>3, SumZero
  <2> QED
    BY <1>1, <2>2, <2>4
<1>4. SumFunction(shares) = SumFunction(custody)
  BY DEF Inv, DepositsAccounted, CustodyCoversDeposits
<1> QED
  BY <1>1, <1>2, <1>3, <1>4

\* With one collateral token that moves what it is asked to, a user without debt can
\* take out everything at once: no price, minimum position, rate or other user's
\* position stands in the way.
THEOREM VaultDebtFreeCanLeave ==
  ASSUME Inv, NEW u \in User, NEW a \in Asset, Asset = {a}, 0 \in TransferFee,
         Initialized, ~ paused, a \in Supported, shares[u] > 0, debt[u] = 0,
         shares' = [shares EXCEPT ![u] = 0],
         debt' = [debt EXCEPT ![u] = 0],
         lastUpdate' = [lastUpdate EXCEPT ![u] = 0],
         custody' = [custody EXCEPT ![a] = @ - shares[u]],
         totalDeposits' = totalDeposits - shares[u],
         UNCHANGED <<governance, totalBorrows, treasury, world>>
  PROVE  Withdraw(u, a, shares[u])
<1>1. shares[u] \in Nat /\ shares[u] <= custody[a] /\ shares[u] - shares[u] = 0
  BY OneTokenCovers
<1>2. AccruedDebt(u) = 0
  <2> DEFINE t == now - lastUpdate[u]
             y == SecondsPerYear * BpsDenominator
  <2>1. config.interest_rate \in Nat /\ t \in Nat
    <3>1. config \in PoolConfig /\ lastUpdate[u] \in 0 .. now /\ now \in Nat
      BY DEF Inv, TypeOK
    <3> QED
      BY <3>1 DEF PoolConfig
  <2>2. y \in Nat \ {0}
    BY VaultAssumption
  <2> HIDE DEF t, y
  <2>3. 0 * config.interest_rate * t = 0 /\ 0 \div y = 0
    BY <2>1, <2>2
  <2> QED
    BY <2>3 DEF AccruedDebt, t, y
<1>3. CollateralOut(a, shares[u])
  <2>1. shares[u] \in Moved(shares[u])
    BY <1>1 DEF Moved
  <2> QED
    BY <1>1, <2>1 DEF CollateralOut, ExactDelta
<1>4. WithdrawalHealthy(u, a, shares[u])
  BY <1>2 DEF WithdrawalHealthy
<1>5. StorePosition(u, shares[u] - shares[u], AccruedDebt(u))
  BY <1>1, <1>2 DEF StorePosition
<1>6. DepositsFall(shares[u]) /\ MeetsMinimum(shares[u] - shares[u])
  BY <1>1 DEF DepositsFall, MeetsMinimum
<1> QED
  BY <1>1, <1>3, <1>4, <1>5, <1>6 DEF Withdraw, Open, HasPosition

\* The covered payment is at most half of the debt, and with its bonus, which is no
\* larger than itself, worth no more than the collateral.
LEMMA CoveredPaymentBounds ==
  ASSUME Inv, Initialized, supported # <<>>, NEW u \in User, NEW n,
         n = CoveredPayment(u)
  PROVE  /\ n \in Nat /\ n <= AccruedDebt(u) \div 2 /\ n <= AccruedDebt(u)
         /\ (n * config.liq_bonus) \div BpsDenominator \in Nat
         /\ n + (n * config.liq_bonus) \div BpsDenominator
              <= CollateralValue(Primary, shares[u])
<1> DEFINE worth == CollateralValue(Primary, shares[u])
           owed  == AccruedDebt(u)
           b     == config.liq_bonus
<1>1. TypeOK /\ shares[u] \in Nat /\ Primary \in Asset
  <2>1. TypeOK
    BY DEF Inv
  <2> QED
    BY <2>1, PrimaryType DEF TypeOK
<1>2. worth \in Nat /\ owed \in Nat
  BY <1>1, CollateralValueType, AccruedDebtType
<1>3. b \in Nat /\ b <= BpsDenominator /\ BpsDenominator \in Nat \ {0}
  BY <1>1, VaultAssumption DEF TypeOK, PoolConfig, Inv, ValidConfig
<1>4. n = (IF worth < owed THEN worth ELSE owed) \div 2
  BY DEF CoveredPayment
<1> HIDE DEF worth, owed, b
<1>5. n \in Nat /\ n <= owed \div 2 /\ n <= owed /\ n + n <= worth
  BY <1>2, <1>4
<1>6. n * b \in Nat /\ n * b <= n * BpsDenominator
  BY <1>3, <1>5, MulMonotone
<1>7. (n * b) \div BpsDenominator \in Nat /\ (n * b) \div BpsDenominator <= n
  BY <1>3, <1>5, <1>6, QuotientWithin
<1>8. n + (n * b) \div BpsDenominator <= worth
  BY <1>2, <1>5, <1>7
<1> QED
  BY <1>5, <1>7, <1>8 DEF worth, owed, b

\* The roundings of SharesToSeize, on plain numbers: what buys a share at its value
\* rounded up seizes one, and what is worth no more than the position's shares, with
\* its two roundings down, seizes no more than those.
LEMMA SeizedRounding ==
  ASSUME NEW X \in Nat, NEW p \in Nat \ {0}, NEW r1 \in Nat \ {0},
         NEW r2 \in Nat \ {0}, NEW k \in Nat,
         ((r1 + r2 - 1) \div r2) * p <= X, X <= ((k * r1) \div r2) * p
  PROVE  ((X \div p) * r2) \div r1 \in 1 .. k
<1> DEFINE c == (r1 + r2 - 1) \div r2
           A == (k * r1) \div r2
           q == X \div p
<1>1. c \in Nat /\ r1 <= c * r2
  BY QuotientUp
<1>2. k * r1 \in Nat /\ A \in Nat
  <2>1. k * r1 \in Nat
    OBVIOUS
  <2> QED
    BY <2>1
<1>3. A * r2 <= k * r1
  BY <1>2, QuotientBound
<1> HIDE DEF c, A
<1>4. q \in Nat /\ q <= A
  BY <1>2, QuotientWithin DEF A
<1>5. c <= q
  BY <1>1, QuotientBound DEF c
<1> HIDE DEF q
<1>6. c * r2 <= q * r2 /\ q * r2 <= A * r2
  BY <1>1, <1>2, <1>4, <1>5, MulMonotone
<1>7. q * r2 \in Nat /\ A * r2 \in Nat /\ c * r2 \in Nat
  BY <1>1, <1>2, <1>4
<1> DEFINE y == q * r2
<1>8. y \in Nat /\ r1 <= y /\ y <= k * r1
  BY <1>1, <1>2, <1>3, <1>6, <1>7
<1> HIDE DEF y
<1>9. y \div r1 \in Nat /\ y \div r1 <= k
  BY <1>8, QuotientWithin
<1>10. 1 <= y \div r1
  <2>1. 1 * r1 <= y
    BY <1>8
  <2> QED
    BY <1>8, <2>1, QuotientBound
<1> QED
  BY <1>9, <1>10 DEF y, q

\* The position holds the shares that a covered payment and its bonus buy, and the
\* payment buys at least one unless it is dust.
LEMMA CoveredPaymentSeizes ==
  ASSUME Inv, Initialized, supported # <<>>, price[Primary] > 0,
         NEW u \in User, NEW n,
         n = CoveredPayment(u), n > 0, BuysAShare(n)
  PROVE  SharesToSeize(n) \in 1 .. shares[u]
<1> DEFINE p  == price[Primary]
           r1 == rate[Primary][1]
           r2 == rate[Primary][2]
           k  == shares[u]
           v  == n + (n * config.liq_bonus) \div BpsDenominator
           X  == v * PriceScalar
           A  == (k * r1) \div r2
           worth == CollateralValue(Primary, k)
<1>1. TypeOK /\ Primary \in Asset
  BY PrimaryType DEF Inv
<1>2. /\ p \in Nat \ {0} /\ r1 \in Nat /\ r2 \in Nat /\ k \in Nat
      /\ PriceScalar \in Nat \ {0}
  <2>1. rate[Primary] \in Nat \X Nat /\ price[Primary] \in Nat
    BY <1>1, VaultAssumption DEF TypeOK
  <2> QED
    BY <1>1, <2>1, VaultAssumption DEF TypeOK
<1>3. v \in Nat /\ v > 0 /\ v <= worth
  <2> DEFINE b == (n * config.liq_bonus) \div BpsDenominator
  <2>1. n \in Nat /\ b \in Nat /\ n + b <= worth
    BY CoveredPaymentBounds
  <2> HIDE DEF b
  <2> QED
    BY <2>1 DEF b
<1>4. worth = IF k = 0 THEN 0
              ELSE ((IF r2 = 0 THEN 0 ELSE A) * p) \div PriceScalar
  BY DEF CollateralValue, AssetsForShares
<1>5. worth \in Nat
  BY <1>1, <1>2, CollateralValueType
<1>6. ((r1 + r2 - 1) \div r2) * p <= X
  BY DEF BuysAShare
<1>7. SharesToSeize(n) = IF r1 = 0 THEN 0 ELSE ((X \div p) * r2) \div r1
  BY DEF SharesToSeize, SharesForAssets
<1> HIDE DEF p, r1, r2, k, v, worth, X
<1>8. k # 0 /\ r2 # 0
  <2>1. (0 * p) \div PriceScalar = 0
    BY <1>2
  <2> QED
    BY <1>3, <1>4, <1>5, <2>1
<1>9. A \in Nat
  <2>1. k * r1 \in Nat
    BY <1>2
  <2> QED
    BY <1>2, <1>8, <2>1
<1>10. A * p \in Nat /\ worth = (A * p) \div PriceScalar
  BY <1>2, <1>4, <1>8, <1>9
<1>11. v * PriceScalar <= A * p
  BY <1>2, <1>3, <1>10, QuotientBound
<1>12. r1 # 0
  <2>1. ASSUME r1 = 0
        PROVE  FALSE
    <3>1. A = 0
      BY <1>2, <1>8, <2>1
    <3>2. A * p = 0 /\ 0 \div PriceScalar = 0
      BY <1>2, <3>1
    <3> QED
      BY <1>3, <1>10, <3>2
  <2> QED
    BY <2>1
<1>13. X \in Nat
  BY <1>2, <1>3 DEF X
<1>14. ((X \div p) * r2) \div r1 \in 1 .. k
  BY <1>2, <1>6, <1>8, <1>11, <1>12, <1>13, SeizedRounding DEF X, A
<1> QED
  BY <1>7, <1>12, <1>14 DEF k

\* Whatever the collateral is still worth, a position that has become liquidatable
\* can be liquidated by the covered payment, unless that is dust: the bonus never
\* asks for more shares than the position or the vault holds, and no guard of
\* liquidate stands in the way of one collateral token that moves what it is asked to.
THEOREM VaultBadDebtCanBeLiquidated ==
  ASSUME Inv, NEW l \in Operator, NEW u \in User, NEW owed, NEW paid, NEW seized,
         Asset = {Primary}, 0 \in TransferFee, Open, supported # <<>>,
         <<l, LIQUIDATOR_ROLE>> \in roles,
         PriceUsable(Primary),
         owed = AccruedDebt(u), paid = CoveredPayment(u), seized = SharesToSeize(paid),
         owed > 0,
         HealthFactor(Primary, shares[u], owed) <= BpsDenominator,
         paid > 0, BuysAShare(paid),
         shares' = [shares EXCEPT ![u] = shares[u] - seized],
         debt' = [debt EXCEPT ![u] = owed - paid],
         lastUpdate' = [lastUpdate EXCEPT ![u] = now],
         custody' = [custody EXCEPT ![Primary] = @ - seized],
         treasury' = treasury + paid,
         totalDeposits' = totalDeposits - seized,
         totalBorrows' = totalBorrows - paid,
         UNCHANGED <<governance, world>>
  PROVE  Liquidate(l, u, paid)
<1>0. TypeOK
  BY DEF Inv
<1>1. Primary \in Asset
  BY <1>0, PrimaryType
<1>2. owed \in Nat /\ paid \in Nat \ {0} /\ paid <= owed \div 2 /\ paid < owed
  <2>1. owed \in Nat
    BY <1>0, AccruedDebtType
  <2>2. paid \in Nat /\ paid <= owed \div 2
    BY CoveredPaymentBounds DEF Open
  <2> QED
    BY <2>1, <2>2
<1>3. seized \in 1 .. shares[u]
  BY CoveredPaymentSeizes DEF Open, PriceUsable
<1>4. shares[u] \in Nat /\ seized \in Nat \ {0} /\ seized <= custody[Primary]
  BY <1>1, <1>3, OneTokenCovers
<1>5. Cap(paid, RepayCap(u)) = paid
  BY <1>2 DEF Cap, RepayCap
<1>6. TreasuryIn(paid)
  <2>1. paid \in Moved(paid)
    BY <1>2 DEF Moved
  <2> QED
    BY <2>1 DEF TreasuryIn, ExactDelta
<1>7. CollateralOut(Primary, seized)
  <2>1. seized \in Moved(seized)
    BY <1>4 DEF Moved
  <2> QED
    BY <1>4, <2>1 DEF CollateralOut, ExactDelta
<1>8. StorePosition(u, shares[u] - seized, AccruedDebt(u) - paid)
  <2>1. owed - paid # 0
    BY <1>2
  <2> QED
    BY <2>1 DEF StorePosition
<1>9. HasPosition(u) /\ CanValue(Primary, shares[u])
  BY <1>3, <1>4 DEF HasPosition, CanValue
<1>10. DepositsFall(seized) /\ BorrowsFall(paid)
  BY DEF DepositsFall, BorrowsFall
<1>11. AccruedDebt(u) > 0 /\ paid > 0 /\ AccruedDebt(u) = owed
  BY <1>2
<1> QED
  BY <1>3, <1>5, <1>6, <1>7, <1>8, <1>9, <1>10, <1>11 DEF Liquidate
===============================================================================
