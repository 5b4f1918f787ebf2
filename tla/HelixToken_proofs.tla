--------------------------- MODULE HelixToken_proofs ---------------------------
(***************************************************************************)
(* Theorems about HelixToken, for every set of addresses, every width of   *)
(* the integers and every bound on the ledger number.                      *)
(***************************************************************************)
EXTENDS HelixToken, ArithmeticTheorems

\* A sum of balances that stays in the i128 range and counts every share, with
\* nothing held before initialize: the invariant that is inductive.
Inv == TypeOK /\ SharesConserved /\ EmptyUntilInitialized

-------------------------------------------------------------------------------
(* Arithmetic *)

\* A comparison of products with a common factor cancels.
LEMMA MulCancel ==
  ASSUME NEW a \in Nat, NEW b \in Nat, NEW c \in Nat, a * c < b * c
  PROVE  a < b
<1>1. b <= a => b * c <= a * c
  BY MulMonotone
<1>2. a * c \in Nat /\ b * c \in Nat
  OBVIOUS
<1> QED
  BY <1>1, <1>2

\* DivCeil is the least integer not below the quotient.
LEMMA DivCeilBounds ==
  ASSUME NEW x \in Nat, NEW y \in Nat, y > 0
  PROVE  /\ DivCeil(x, y) \in Nat
         /\ x <= DivCeil(x, y) * y
         /\ DivCeil(x, y) * y < x + y
<1> DEFINE q == x \div y
           r == x % y
<1>1. q \in Nat /\ r \in 0 .. (y - 1) /\ x = y * q + r
  OBVIOUS
<1>2. CASE r = 0
  <2>1. DivCeil(x, y) = q
    BY <1>2 DEF DivCeil
  <2> HIDE DEF q, r
  <2> QED
    BY <1>1, <1>2, <2>1
<1>3. CASE r # 0
  <2>1. DivCeil(x, y) = q + 1
    BY <1>3 DEF DivCeil
  <2> HIDE DEF q, r
  <2>2. (q + 1) * y = y * q + y
    BY <1>1
  <2>3. y * q \in Nat
    BY <1>1
  <2> QED
    BY <1>1, <1>3, <2>1, <2>2, <2>3
<1> QED
  BY <1>2, <1>3

\* What burn_external_shares takes: a part of the assets, at least the burnt
\* shares' part and less than one unit more than it.
LEMMA BurnTakesPart ==
  ASSUME NEW A \in Nat, NEW S \in Nat, NEW n \in 1 .. S
  PROVE  LET q == DivCeil(n * A, S)
         IN  /\ q \in 0 .. A
             /\ (A - q) * S <= A * (S - n)
             /\ A * (S - n) - (A - q) * S < S
             /\ n = S => q = A
<1> DEFINE q == DivCeil(n * A, S)
<1>1. n * A \in Nat /\ S * A \in Nat /\ S > 0
  OBVIOUS
<1>2. q \in Nat /\ n * A <= q * S /\ q * S < n * A + S
  BY <1>1, DivCeilBounds
<1> HIDE DEF q
<1>3. q * S \in Nat
  BY <1>2
<1>4. n * A <= S * A
  BY MulMonotone
<1>5. q <= A
  <2>1. (A + 1) * S = S * A + S
    OBVIOUS
  <2>2. q * S < (A + 1) * S
    BY <1>1, <1>2, <1>3, <1>4, <2>1
  <2>3. q < A + 1
    BY <1>2, <2>2, MulCancel
  <2> QED
    BY <1>2, <2>3
<1>6. (A - q) * S = S * A - q * S /\ A * (S - n) = S * A - n * A
  BY <1>2
<1>7. (A - q) * S <= A * (S - n) /\ A * (S - n) - (A - q) * S < S
  BY <1>1, <1>2, <1>3, <1>6
<1>8. ASSUME n = S
      PROVE  q = A
  <2>1. S * A <= q * S /\ q * S = S * q
    BY <1>2, <1>8
  <2>2. ~ (q < A)
    <3>1. ASSUME q < A
          PROVE  FALSE
      <4>1. (q + 1) * S <= A * S
        BY <1>2, <3>1, MulMonotone
      <4>2. (q + 1) * S = q * S + S /\ A * S = S * A
        BY <1>2
      <4> QED
        BY <1>1, <1>3, <2>1, <4>1, <4>2
    <3> QED
      BY <3>1
  <2> QED
    BY <1>2, <1>5, <2>2
<1> QED
  BY <1>2, <1>5, <1>7, <1>8 DEF q

-------------------------------------------------------------------------------
(* Ledger updates *)

LEMMA CreditSum ==
  ASSUME TypeOK, NEW to \in Address, NEW n \in Int
  PROVE  SumFunction([balances EXCEPT ![to] = @ + n]) = SumFunction(balances) + n
<1>1. IsFiniteSet(Address) /\ balances \in [Address -> Int]
  BY TokenAssumption DEF TypeOK
<1> QED
  BY <1>1, SumAdd, ZenonT(60)

LEMMA DebitSum ==
  ASSUME TypeOK, NEW from \in Address, NEW n \in Int
  PROVE  SumFunction([balances EXCEPT ![from] = @ - n]) = SumFunction(balances) - n
<1>1. IsFiniteSet(Address) /\ balances \in [Address -> Int]
  BY TokenAssumption DEF TypeOK
<1> QED
  BY <1>1, SumSub, ZenonT(60)

LEMMA MoveSum ==
  ASSUME TypeOK, NEW from \in Address, NEW to \in Address, NEW n \in Int
  PROVE  SumFunction([[balances EXCEPT ![from] = @ - n] EXCEPT ![to] = @ + n])
           = SumFunction(balances)
<1> DEFINE spent == [balances EXCEPT ![from] = @ - n]
<1>1. IsFiniteSet(Address) /\ balances \in [Address -> Int]
  BY TokenAssumption DEF TypeOK
<1>2. spent \in [Address -> Int] /\ SumFunction(balances) \in Int
  BY <1>1, SumType
<1>3. SumFunction(spent) = SumFunction(balances) - n
  BY DebitSum
<1> DEFINE moved == [spent EXCEPT ![to] = @ + n]
<1> HIDE DEF spent
<1>4. SumFunction(moved) = SumFunction(spent) + n
  BY <1>1, <1>2, SumAdd, ZenonT(60)
<1> HIDE DEF moved
<1>5. SumFunction(moved) = SumFunction(balances)
  BY <1>2, <1>3, <1>4
<1>6. moved = [[balances EXCEPT ![from] = @ - n] EXCEPT ![to] = @ + n]
  BY Zenon DEF moved, spent
<1> QED
  BY <1>5, <1>6, Zenon

\* No holder has more than the supply.
LEMMA BalanceBounded ==
  ASSUME TypeOK, SharesConserved, NEW a \in Address
  PROVE  balances[a] <= totalShares
<1>1. IsFiniteSet(Address)
  BY TokenAssumption
<1>2. balances \in [Address -> Nat]
  BY DEF TypeOK
<1> QED
  BY <1>1, <1>2, SumBoundsEntry DEF SharesConserved

\* spend_balance takes n from the sum and leaves every balance in range.
LEMMA SpendBalanceEffect ==
  ASSUME TypeOK, SharesConserved, NEW from \in Address, NEW n \in Nat,
         SpendBalance(from, n)
  PROVE  /\ balances' \in [Address -> 0 .. MaxI128]
         /\ SumFunction(balances') = SumFunction(balances) - n
         /\ n <= totalShares
         /\ totalShares - n \in 0 .. MaxI128
<1>0. n \in Int /\ MaxI128 \in Nat
  BY TokenAssumption
<1>1. /\ n <= balances[from]
      /\ balances[from] - n \in 0 .. MaxI128
      /\ balances' = [balances EXCEPT ![from] = @ - n]
  BY <1>0 DEF SpendBalance, TypeOK
<1>2. balances' \in [Address -> 0 .. MaxI128]
  BY <1>1 DEF TypeOK
<1>3. SumFunction([balances EXCEPT ![from] = @ - n]) = SumFunction(balances) - n
  BY <1>0, DebitSum
<1>4. balances[from] <= totalShares /\ balances[from] \in Nat
      /\ totalShares \in 0 .. MaxI128
  BY BalanceBounded DEF TypeOK
<1> QED
  BY <1>0, <1>1, <1>2, <1>3, <1>4

LEMMA SpendAllowanceType ==
  ASSUME TypeOK, NEW from \in Address, NEW s \in Spender, NEW n \in Nat,
         SpendAllowance(from, s, n)
  PROVE  allowances' \in [Address \X Spender -> Allowance]
<1> DEFINE al == allowances[<<from, s>>]
<1>1. al \in Allowance
  BY DEF TypeOK
<1>2. CASE n = 0
  BY <1>2 DEF SpendAllowance, TypeOK
<1>3. CASE n # 0
  <2>1. n <= al.amount /\ WriteAllowance(from, s, al.amount - n, al.expiration)
    BY <1>3 DEF SpendAllowance
  <2>2. /\ NoAllowance \in Allowance
        /\ [amount |-> al.amount - n, expiration |-> al.expiration] \in Allowance
    BY <1>1, <2>1, TokenAssumption DEF Allowance, NoAllowance
  <2> HIDE DEF al
  <2> QED
    BY <2>1, <2>2 DEF WriteAllowance, TypeOK
<1> QED
  BY <1>2, <1>3

-------------------------------------------------------------------------------
(* The invariant *)

LEMMA InitInv == Init => Inv
<1> SUFFICES ASSUME Init
             PROVE  Inv
  OBVIOUS
<1>1. TypeOK
  BY TokenAssumption DEF Init, TypeOK, Allowance, NoAllowance
<1>2. SharesConserved
  <2>1. IsFiniteSet(Address) /\ balances \in [Address -> Int]
    BY TokenAssumption DEF Init
  <2>2. \A a \in Address : balances[a] = 0
    BY DEF Init
  <2> QED
    BY <2>1, <2>2, SumZero DEF Init, SharesConserved
<1>3. EmptyUntilInitialized
  BY DEF Init, EmptyUntilInitialized
<1> QED
  BY <1>1, <1>2, <1>3 DEF Inv

LEMMA MintInv ==
  ASSUME Inv, NEW to \in Address, NEW n \in Nat, Initialized,
         authorizer' \in Address \cup {NoAddress}, MintShares(to, n)
  PROVE  Inv'
<1> USE DEF Inv
<1>1. TypeOK'
  BY TokenAssumption DEF TypeOK, MintShares, FitsI128, roles
<1>2. SharesConserved'
  <2>1. n \in Int
    OBVIOUS
  <2>2. SumFunction([balances EXCEPT ![to] = @ + n]) = SumFunction(balances) + n
    BY <2>1, CreditSum
  <2>3. SumFunction(balances') = SumFunction(balances) + n
    BY <2>2, Zenon DEF MintShares
  <2> QED
    BY <2>3 DEF MintShares, SharesConserved
<1>3. EmptyUntilInitialized'
  BY DEF MintShares, EmptyUntilInitialized, Initialized, roles
<1> QED
  BY <1>1, <1>2, <1>3

LEMMA BurnSharesInv ==
  ASSUME Inv, NEW from \in Address, NEW n \in Nat, Initialized,
         authorizer' \in Address \cup {NoAddress}, BurnShares(from, n)
  PROVE  Inv'
<1> USE DEF Inv
<1>1. SpendBalance(from, n) /\ totalShares' = totalShares - n
  BY DEF BurnShares
<1>2. /\ balances' \in [Address -> 0 .. MaxI128]
      /\ SumFunction(balances') = SumFunction(balances) - n
      /\ totalShares - n \in 0 .. MaxI128
  BY <1>1, SpendBalanceEffect
<1>3. TypeOK'
  BY <1>1, <1>2 DEF TypeOK, BurnShares, roles
<1>4. SharesConserved'
  BY <1>1, <1>2 DEF SharesConserved
<1>5. EmptyUntilInitialized'
  BY DEF BurnShares, EmptyUntilInitialized, Initialized, roles
<1> QED
  BY <1>3, <1>4, <1>5

LEMMA MoveInv ==
  ASSUME Inv, NEW from \in Address, NEW to \in Address, NEW n \in Nat,
         Initialized, authorizer' \in Address \cup {NoAddress},
         allowances' \in [Address \X Spender -> Allowance],
         MoveBalance(from, to, n), UNCHANGED <<roles, totals, ledger>>
  PROVE  Inv'
<1> USE DEF Inv
<1>0. n \in Int
  OBVIOUS
<1>1. balances' \in [Address -> 0 .. MaxI128]
  BY TokenAssumption DEF TypeOK, MoveBalance, CanMove, FitsI128
<1>2. TypeOK'
  BY <1>1 DEF TypeOK, roles, totals
<1>3. SharesConserved'
  <2>1. SumFunction(balances') = SumFunction(balances)
    <3>1. SumFunction([[balances EXCEPT ![from] = @ - n] EXCEPT ![to] = @ + n])
            = SumFunction(balances)
      BY <1>0, MoveSum
    <3> QED
      BY <3>1, Zenon DEF MoveBalance
  <2>2. totalShares' = totalShares
    BY DEF totals
  <2> QED
    BY <2>1, <2>2 DEF SharesConserved
<1>4. EmptyUntilInitialized'
  BY DEF EmptyUntilInitialized, Initialized, roles
<1> QED
  BY <1>2, <1>3, <1>4

\* What a holder's burn does to the two totals.
LEMMA BurnExternalEffect ==
  ASSUME Inv, NEW from \in Address, NEW n \in Nat,
         SpendBalance(from, n), BurnExternalShares(n)
  PROVE  /\ totalShares' = totalShares - n /\ totalShares' \in 0 .. MaxI128
         /\ totalAssets' \in 0 .. totalAssets
         /\ totalAssets' * totalShares <= totalAssets * totalShares'
         /\ n > 0 => /\ totalAssets * totalShares' - totalAssets' * totalShares
                          < totalShares
                     /\ totalShares' = 0 => totalAssets' = 0
<1> USE DEF Inv
<1>1. totalShares \in Nat /\ totalAssets \in Nat /\ MaxI128 \in Nat
      /\ totalShares <= MaxI128
  BY TokenAssumption DEF TypeOK
<1>2. n <= totalShares
  BY BalanceBounded DEF SpendBalance, TypeOK
<1>3. CASE n = 0
  BY <1>1, <1>3 DEF BurnExternalShares, totals
<1>4. CASE n # 0
  <2> DEFINE q == DivCeil(n * totalAssets, totalShares)
  <2>1. n \in 1 .. totalShares
    BY <1>1, <1>2, <1>4
  <2>2. /\ q \in 0 .. totalAssets
        /\ (totalAssets - q) * totalShares <= totalAssets * (totalShares - n)
        /\ totalAssets * (totalShares - n) - (totalAssets - q) * totalShares
              < totalShares
        /\ n = totalShares => q = totalAssets
    BY <1>1, <2>1, BurnTakesPart
  <2>3. totalShares' = totalShares - n /\ totalAssets' = totalAssets - q
    BY <1>4 DEF BurnExternalShares
  <2> HIDE DEF q
  <2>4. totalAssets' \in 0 .. totalAssets /\ totalShares' \in 0 .. MaxI128
    BY <1>1, <1>2, <2>2, <2>3
  <2>5. totalShares' = 0 => totalAssets' = 0
    BY <1>1, <2>1, <2>2, <2>3
  <2> QED
    BY <2>2, <2>3, <2>4, <2>5
<1> QED
  BY <1>3, <1>4

LEMMA BurnExternalInv ==
  ASSUME Inv, NEW from \in Address, NEW n \in Nat, Initialized,
         authorizer' \in Address \cup {NoAddress},
         allowances' \in [Address \X Spender -> Allowance],
         SpendBalance(from, n), BurnExternalShares(n), UNCHANGED <<roles, ledger>>
  PROVE  Inv'
<1> USE DEF Inv
<1>1. /\ totalShares' = totalShares - n /\ totalShares' \in 0 .. MaxI128
      /\ totalAssets' \in 0 .. totalAssets
  BY BurnExternalEffect
<1>2. /\ balances' \in [Address -> 0 .. MaxI128]
      /\ SumFunction(balances') = SumFunction(balances) - n
  BY SpendBalanceEffect
<1>3. TypeOK'
  BY <1>1, <1>2, TokenAssumption DEF TypeOK, roles
<1>4. SharesConserved'
  BY <1>1, <1>2 DEF SharesConserved
<1>5. EmptyUntilInitialized'
  BY DEF EmptyUntilInitialized, Initialized, roles
<1> QED
  BY <1>3, <1>4, <1>5

\* One step of any entry point, of the network, or a stutter, keeps Inv.
LEMMA NextInv == Inv /\ [Next]_vars => Inv'
<1> SUFFICES ASSUME Inv, [Next]_vars
             PROVE  Inv'
  OBVIOUS
<1> USE DEF Inv
<1>0. /\ admin \in Address \cup {NoAddress} /\ vault \in Address \cup {NoAddress}
      /\ bridge \in Address \cup {NoAddress} /\ Spender \subseteq Address
      /\ \A n \in Amount : n >= 0 => n \in 0 .. MaxI128
      /\ MaxI128 \in Nat
  BY TokenAssumption DEF TypeOK
<1>1. ASSUME NEW d \in Deployment, Initialize(d)
      PROVE  Inv'
  <2>1. TypeOK'
    BY <1>1, TokenAssumption DEF Initialize, RequireAuth, TypeOK
  <2>2. totalShares = 0 /\ totalShares' = 0 /\ balances' = balances
    BY <1>1 DEF Initialize, EmptyUntilInitialized
  <2>3. SharesConserved'
    BY <2>2 DEF SharesConserved
  <2>4. EmptyUntilInitialized'
    BY <1>1, <2>2, TokenAssumption DEF Initialize, EmptyUntilInitialized,
       Initialized
  <2> QED
    BY <2>1, <2>3, <2>4
<1>2. ASSUME NEW a \in Address, SetAdmin(a)
      PROVE  Inv'
  <2>1. TypeOK'
    BY <1>2, <1>0 DEF SetAdmin, RequireAuth, TypeOK, totals
  <2>2. SharesConserved'
    BY <1>2 DEF SetAdmin, SharesConserved, totals
  <2>3. EmptyUntilInitialized'
    BY <1>2, TokenAssumption DEF SetAdmin, EmptyUntilInitialized, Initialized
  <2> QED
    BY <2>1, <2>2, <2>3
<1>3. ASSUME NEW a \in Address, NEW n \in Amount,
             VaultMint(a, n) \/ BridgeMint(a, n)
      PROVE  Inv'
  <2>1. /\ Initialized /\ n \in Nat /\ MintShares(a, n)
        /\ authorizer' \in Address \cup {NoAddress}
    BY <1>0, <1>3 DEF VaultMint, BridgeMint, RequireAuth
  <2> QED
    BY <2>1, MintInv
<1>4. ASSUME NEW a \in Address, NEW n \in Amount,
             VaultBurn(a, n) \/ BridgeBurn(a, n)
      PROVE  Inv'
  <2>1. /\ Initialized /\ n \in Nat /\ BurnShares(a, n)
        /\ authorizer' \in Address \cup {NoAddress}
    BY <1>0, <1>4 DEF VaultBurn, BridgeBurn, RequireAuth
  <2> QED
    BY <2>1, BurnSharesInv
<1>5. ASSUME NEW n \in Amount, UpdateExchangeRate(n)
      PROVE  Inv'
  <2>0. n \in 0 .. MaxI128
    <3>1. n \in -MaxI128 .. MaxI128 /\ n > 0 /\ MaxI128 \in Nat
      BY <1>5, TokenAssumption DEF UpdateExchangeRate
    <3> QED
      BY <3>1
  <2>1. TypeOK'
    BY <1>5, <1>0, <2>0 DEF UpdateExchangeRate, RequireAuth, TypeOK, roles
  <2>2. SharesConserved'
    BY <1>5 DEF UpdateExchangeRate, SharesConserved
  <2>3. EmptyUntilInitialized'
    BY <1>5 DEF UpdateExchangeRate, EmptyUntilInitialized, Initialized, roles
  <2> QED
    BY <2>1, <2>2, <2>3
<1>6. ASSUME NEW from \in Address, NEW s \in Spender, NEW n \in Amount,
             NEW e \in 0 .. MaxLedger, Approve(from, s, n, e)
      PROVE  Inv'
  <2>1. [amount |-> n, expiration |-> e] \in Allowance /\ NoAllowance \in Allowance
    BY <1>6, <1>0, TokenAssumption DEF Approve, Allowance, NoAllowance
  <2>2. allowances' \in [Address \X Spender -> Allowance]
    BY <1>6, <2>1 DEF Approve, WriteAllowance, TypeOK
  <2>3. TypeOK'
    BY <1>6, <2>2 DEF Approve, RequireAuth, TypeOK, roles, totals
  <2>4. SharesConserved'
    BY <1>6 DEF Approve, SharesConserved, totals
  <2>5. EmptyUntilInitialized'
    BY <1>6 DEF Approve, EmptyUntilInitialized, Initialized, roles, totals
  <2> QED
    BY <2>3, <2>4, <2>5
<1>7. ASSUME NEW from \in Address, NEW to \in Address, NEW n \in Amount,
             Transfer(from, to, n)
      PROVE  Inv'
  <2>1. /\ Initialized /\ n \in Nat /\ MoveBalance(from, to, n)
        /\ authorizer' \in Address \cup {NoAddress}
        /\ allowances' \in [Address \X Spender -> Allowance]
        /\ UNCHANGED <<roles, totals, ledger>>
    BY <1>0, <1>7 DEF Transfer, RequireAuth, TypeOK
  <2> QED
    BY <2>1, MoveInv
<1>8. ASSUME NEW s \in Spender, NEW from \in Address, NEW to \in Address,
             NEW n \in Amount, TransferFrom(s, from, to, n)
      PROVE  Inv'
  <2>1. /\ Initialized /\ n \in Nat /\ MoveBalance(from, to, n)
        /\ authorizer' \in Address \cup {NoAddress}
        /\ SpendAllowance(from, s, n)
        /\ UNCHANGED <<roles, totals, ledger>>
    BY <1>0, <1>8 DEF TransferFrom, RequireAuth
  <2>2. allowances' \in [Address \X Spender -> Allowance]
    BY <2>1, SpendAllowanceType
  <2> QED
    BY <2>1, <2>2, MoveInv
<1>9. ASSUME NEW from \in Address, NEW n \in Amount, Burn(from, n)
      PROVE  Inv'
  <2>1. /\ Initialized /\ n \in Nat
        /\ SpendBalance(from, n) /\ BurnExternalShares(n)
        /\ authorizer' \in Address \cup {NoAddress}
        /\ allowances' \in [Address \X Spender -> Allowance]
        /\ UNCHANGED <<roles, ledger>>
    BY <1>0, <1>9 DEF Burn, RequireAuth, TypeOK
  <2> QED
    BY <2>1, BurnExternalInv
<1>10. ASSUME NEW s \in Spender, NEW from \in Address, NEW n \in Amount,
              BurnFrom(s, from, n)
       PROVE  Inv'
  <2>1. /\ Initialized /\ n \in Nat
        /\ SpendBalance(from, n) /\ BurnExternalShares(n)
        /\ authorizer' \in Address \cup {NoAddress}
        /\ SpendAllowance(from, s, n)
        /\ UNCHANGED <<roles, ledger>>
    BY <1>0, <1>10 DEF BurnFrom, RequireAuth
  <2>2. allowances' \in [Address \X Spender -> Allowance]
    BY <2>1, SpendAllowanceType
  <2> QED
    BY <2>1, <2>2, BurnExternalInv
<1>11. CASE CloseLedger
  <2>1. TypeOK'
    BY <1>11, TokenAssumption DEF CloseLedger, TypeOK, roles, totals
  <2>2. SharesConserved' /\ EmptyUntilInitialized'
    BY <1>11 DEF CloseLedger, SharesConserved, EmptyUntilInitialized, Initialized,
                 roles, totals
  <2> QED
    BY <2>1, <2>2
<1>12. ASSUME NEW from \in Address, NEW s \in Spender, EvictAllowance(from, s)
       PROVE  Inv'
  <2>1. NoAllowance \in Allowance
    BY <1>0, TokenAssumption DEF Allowance, NoAllowance
  <2>2. TypeOK'
    BY <1>12, <2>1 DEF EvictAllowance, TypeOK, roles, totals
  <2>3. SharesConserved' /\ EmptyUntilInitialized'
    BY <1>12 DEF EvictAllowance, SharesConserved, EmptyUntilInitialized,
                 Initialized, roles, totals
  <2> QED
    BY <2>2, <2>3
<1>13. CASE UNCHANGED vars
  <2>1. TypeOK'
    BY <1>13 DEF vars, TypeOK, roles, totals
  <2>2. SharesConserved' /\ EmptyUntilInitialized'
    BY <1>13 DEF vars, SharesConserved, EmptyUntilInitialized, Initialized,
                 roles, totals
  <2> QED
    BY <2>1, <2>2
<1> QED
  BY <1>1, <1>2, <1>3, <1>4, <1>5, <1>6, <1>7, <1>8, <1>9, <1>10, <1>11,
     <1>12, <1>13 DEF Next

\* The inductive invariant holds in every reachable state.
THEOREM TokenInvariant == Spec => []Inv
<1> QED
  BY InitInv, NextInv, PTL DEF Spec

\* Type correctness: above all, TotalAssets and the balances stay in 0 .. i128::MAX.
THEOREM TokenTypeOK == Spec => []TypeOK
<1>1. Inv => TypeOK
  BY DEF Inv
<1> QED
  BY <1>1, TokenInvariant, PTL

\* TotalShares is the sum of the balances in every reachable state.
THEOREM TokenConservesShares == Spec => []SharesConserved
<1>1. Inv => SharesConserved
  BY DEF Inv
<1> QED
  BY <1>1, TokenInvariant, PTL

-------------------------------------------------------------------------------
(* The rate under a holder's burn *)

\* A burn by a holder or by an approved spender keeps the rate up to rounding.
LEMMA HolderBurnKeepsRate ==
  ASSUME Inv, NEW from \in Address, NEW n \in Amount, n >= 0,
         SpendBalance(from, n), BurnExternalShares(n)
  PROVE  KeepsRate
<1>1. n \in Nat
  BY TokenAssumption
<1>2. /\ totalShares' = totalShares - n
      /\ totalAssets' * totalShares <= totalAssets * totalShares'
      /\ n > 0 => /\ totalAssets * totalShares' - totalAssets' * totalShares
                       < totalShares
                  /\ totalShares' = 0 => totalAssets' = 0
  BY <1>1, BurnExternalEffect
<1>3. totalShares \in Nat
  BY DEF Inv, TypeOK
<1>4. totalShares' < totalShares => n > 0
  BY <1>1, <1>2, <1>3
<1> QED
  BY <1>2, <1>4 DEF KeepsRate

LEMMA NextKeepsRate == Inv /\ [Next]_vars => KeepsRate
<1> SUFFICES ASSUME Inv, [Next]_vars
             PROVE  KeepsRate
  OBVIOUS
<1>0. totalShares \in Nat /\ \A n \in Amount : n \in Int
  BY TokenAssumption DEF Inv, TypeOK
<1>1. ASSUME NEW d \in Deployment, Initialize(d)
      PROVE  ~ (totalShares' < totalShares)
  BY <1>0, <1>1 DEF Initialize, Inv, EmptyUntilInitialized
<1>2. ASSUME NEW a \in Address, NEW n \in Amount,
             VaultMint(a, n) \/ BridgeMint(a, n)
      PROVE  ~ (totalShares' < totalShares)
  BY <1>0, <1>2 DEF VaultMint, BridgeMint, MintShares
<1>3. ASSUME NEW a \in Address, NEW n \in Amount,
             VaultBurn(a, n) \/ BridgeBurn(a, n)
      PROVE  authorizer' \in {vault, bridge}
  BY <1>3 DEF VaultBurn, BridgeBurn, RequireAuth
<1>4. ASSUME NEW from \in Address, NEW n \in Amount,
             Burn(from, n) \/ \E s \in Spender : BurnFrom(s, from, n)
      PROVE  KeepsRate
  BY <1>4, HolderBurnKeepsRate DEF Burn, BurnFrom
<1>5. ASSUME \/ \E a \in Address : SetAdmin(a)
             \/ \E n \in Amount : UpdateExchangeRate(n)
             \/ \E from \in Address, s \in Spender, n \in Amount,
                   e \in 0 .. MaxLedger : Approve(from, s, n, e)
             \/ \E from, to \in Address, n \in Amount : Transfer(from, to, n)
             \/ \E s \in Spender, from, to \in Address, n \in Amount :
                   TransferFrom(s, from, to, n)
             \/ CloseLedger
             \/ \E from \in Address, s \in Spender : EvictAllowance(from, s)
             \/ UNCHANGED vars
      PROVE  ~ (totalShares' < totalShares)
  <2>1. totalShares' = totalShares
    BY <1>5 DEF SetAdmin, UpdateExchangeRate, Approve, Transfer, TransferFrom,
                CloseLedger, EvictAllowance, vars, totals
  <2> QED
    BY <1>0, <2>1
<1> QED
  BY <1>1, <1>2, <1>3, <1>4, <1>5 DEF Next, KeepsRate

\* A holder's burn never raises what the remaining shares are worth and lowers
\* it by less than one asset unit: burn_external_shares rounds the right way.
THEOREM TokenBurnKeepsRate == Spec => BurnKeepsRate
<1>1. Inv /\ [Next]_vars => [KeepsRate]_vars
  BY NextKeepsRate
<1> QED
  BY <1>1, TokenInvariant, PTL DEF Spec, BurnKeepsRate

-------------------------------------------------------------------------------
(* The abstract ledger *)

LEMMA MintIssues ==
  ASSUME Inv, NEW to \in Address, NEW n \in Nat, MintShares(to, n)
  PROVE  [Ledger!Next]_<<totalShares, balances>>
<1>1. totalShares \in Nat /\ MaxI128 \in Nat /\ totalShares + n <= MaxI128
      /\ balances \in [Address -> Nat]
  BY TokenAssumption DEF Inv, TypeOK, MintShares, FitsI128
<1>2. CASE n = 0
  BY <1>1, <1>2 DEF MintShares
<1>3. CASE n # 0
  <2>1. n \in 1 .. MaxI128
    BY <1>1, <1>3
  <2>2. Ledger!Issue(to, n)
    BY <1>1 DEF MintShares, Ledger!Issue
  <2> QED
    BY <2>1, <2>2 DEF Ledger!Next
<1> QED
  BY <1>2, <1>3

LEMMA SpendRetires ==
  ASSUME Inv, NEW from \in Address, NEW n \in Nat,
         SpendBalance(from, n), totalShares' = totalShares - n
  PROVE  [Ledger!Next]_<<totalShares, balances>>
<1>1. /\ totalShares \in Nat /\ n <= totalShares /\ totalShares <= MaxI128
      /\ MaxI128 \in Nat /\ balances \in [Address -> Nat]
  BY BalanceBounded, TokenAssumption DEF Inv, TypeOK, SpendBalance
<1>2. CASE n = 0
  BY <1>1, <1>2 DEF SpendBalance
<1>3. CASE n # 0
  <2>1. n \in 1 .. MaxI128
    BY <1>1, <1>3
  <2>2. Ledger!Retire(from, n)
    BY DEF SpendBalance, Ledger!Retire
  <2> QED
    BY <2>1, <2>2 DEF Ledger!Next
<1> QED
  BY <1>2, <1>3

LEMMA MoveMoves ==
  ASSUME Inv, NEW from \in Address, NEW to \in Address, NEW n \in Nat,
         MoveBalance(from, to, n), UNCHANGED totals
  PROVE  [Ledger!Next]_<<totalShares, balances>>
<1>1. /\ balances \in [Address -> Nat] /\ n <= balances[from]
      /\ balances[from] <= MaxI128 /\ MaxI128 \in Nat
      /\ balances' = [[balances EXCEPT ![from] = @ - n] EXCEPT ![to] = @ + n]
      /\ totalShares' = totalShares
  BY TokenAssumption DEF Inv, TypeOK, MoveBalance, CanMove, totals
<1>2. CASE n = 0 \/ from = to
  <2>1. balances' = balances
    BY <1>1, <1>2
  <2> QED
    BY <1>1, <2>1
<1>3. CASE n # 0 /\ from # to
  <2>1. n \in 1 .. MaxI128
    BY <1>1, <1>3
  <2>2. balances' = [balances EXCEPT ![from] = @ - n, ![to] = @ + n]
    BY <1>1, <1>3
  <2>3. Ledger!Move(from, to, n)
    BY <1>1, <1>3, <2>2 DEF Ledger!Move
  <2> QED
    BY <2>1, <2>3 DEF Ledger!Next
<1> QED
  BY <1>2, <1>3

LEMMA NextImplementsLedger ==
  Inv /\ [Next]_vars => [Ledger!Next]_<<totalShares, balances>>
<1> SUFFICES ASSUME Inv, [Next]_vars
             PROVE  [Ledger!Next]_<<totalShares, balances>>
  OBVIOUS
<1>0. \A n \in Amount : n >= 0 => n \in Nat
  BY TokenAssumption
<1>1. ASSUME NEW d \in Deployment, Initialize(d)
      PROVE  UNCHANGED <<totalShares, balances>>
  BY <1>1 DEF Initialize, Inv, EmptyUntilInitialized
<1>2. ASSUME NEW a \in Address, NEW n \in Amount,
             VaultMint(a, n) \/ BridgeMint(a, n)
      PROVE  [Ledger!Next]_<<totalShares, balances>>
  BY <1>0, <1>2, MintIssues DEF VaultMint, BridgeMint
<1>3. ASSUME NEW a \in Address, NEW n \in Amount,
             VaultBurn(a, n) \/ BridgeBurn(a, n)
      PROVE  [Ledger!Next]_<<totalShares, balances>>
  BY <1>0, <1>3, SpendRetires DEF VaultBurn, BridgeBurn, BurnShares
<1>4. ASSUME NEW from \in Address, NEW n \in Amount,
             Burn(from, n) \/ \E s \in Spender : BurnFrom(s, from, n)
      PROVE  [Ledger!Next]_<<totalShares, balances>>
  <2>1. n \in Nat /\ SpendBalance(from, n) /\ BurnExternalShares(n)
    BY <1>0, <1>4 DEF Burn, BurnFrom
  <2>2. totalShares' = totalShares - n
    BY <2>1, BurnExternalEffect
  <2> QED
    BY <2>1, <2>2, SpendRetires
<1>5. ASSUME NEW from \in Address, NEW to \in Address, NEW n \in Amount,
             \/ Transfer(from, to, n)
             \/ \E s \in Spender : TransferFrom(s, from, to, n)
      PROVE  [Ledger!Next]_<<totalShares, balances>>
  BY <1>0, <1>5, MoveMoves DEF Transfer, TransferFrom
<1>6. ASSUME \/ \E a \in Address : SetAdmin(a)
             \/ \E n \in Amount : UpdateExchangeRate(n)
             \/ \E from \in Address, s \in Spender, n \in Amount,
                   e \in 0 .. MaxLedger : Approve(from, s, n, e)
             \/ CloseLedger
             \/ \E from \in Address, s \in Spender : EvictAllowance(from, s)
             \/ UNCHANGED vars
      PROVE  UNCHANGED <<totalShares, balances>>
  BY <1>6 DEF SetAdmin, UpdateExchangeRate, Approve, CloseLedger, EvictAllowance,
              vars, totals
<1> QED
  BY <1>1, <1>2, <1>3, <1>4, <1>5, <1>6 DEF Next

\* Every behaviour of the contract is a behaviour of the abstract share ledger.
THEOREM TokenImplementsLedger == Spec => ImplementsLedger
<1>1. Init => Ledger!Init
  BY DEF Init, Ledger!Init
<1>2. Inv /\ [Next]_vars => [Ledger!Next]_(Ledger!vars)
  BY NextImplementsLedger DEF Ledger!vars
<1> QED
  BY <1>1, <1>2, TokenInvariant, PTL DEF Spec, ImplementsLedger, Ledger!Spec

-------------------------------------------------------------------------------
(* Quotes *)

\* A quote rounds down: in either direction it is worth no more than it says.
LEMMA QuoteBounds ==
  ASSUME NEW n \in Nat, totalShares \in Nat, totalAssets \in Nat
  PROVE  /\ AssetsForShares(n) \in Nat
         /\ AssetsForShares(n) * totalShares <= n * totalAssets
         /\ SharesForAssets(n) \in Nat
         /\ SharesForAssets(n) * totalAssets <= n * totalShares
<1>1. ASSUME NEW x \in Nat, NEW y \in Nat \ {0}
      PROVE  x \div y \in Nat /\ (x \div y) * y <= x
  <2>1. x \div y \in Nat
    OBVIOUS
  <2> QED
    BY <2>1, QuotientBound
<1>2. n * totalAssets \in Nat /\ n * totalShares \in Nat
  OBVIOUS
<1>3. /\ AssetsForShares(n) \in Nat
      /\ AssetsForShares(n) * totalShares <= n * totalAssets
  <2>1. CASE totalShares = 0 \/ n = 0
    <3>1. AssetsForShares(n) = 0
      BY <2>1 DEF AssetsForShares
    <3>2. 0 * totalShares = 0
      OBVIOUS
    <3> QED
      BY <1>2, <3>1, <3>2
  <2>2. CASE totalShares # 0 /\ n # 0
    <3>1. AssetsForShares(n) = (n * totalAssets) \div totalShares
      BY <2>2 DEF AssetsForShares
    <3> QED
      BY <1>1, <1>2, <2>2, <3>1
  <2> QED
    BY <2>1, <2>2
<1>4. /\ SharesForAssets(n) \in Nat
      /\ SharesForAssets(n) * totalAssets <= n * totalShares
  <2>1. CASE totalAssets = 0 \/ n = 0
    <3>1. SharesForAssets(n) = 0
      BY <2>1 DEF SharesForAssets
    <3>2. 0 * totalAssets = 0
      OBVIOUS
    <3> QED
      BY <1>2, <3>1, <3>2
  <2>2. CASE totalAssets # 0 /\ n # 0
    <3>1. SharesForAssets(n) = (n * totalShares) \div totalAssets
      BY <2>2 DEF SharesForAssets
    <3> QED
      BY <1>1, <1>2, <2>2, <3>1
  <2> QED
    BY <2>1, <2>2
<1> QED
  BY <1>3, <1>4

\* The quotes of all holders together stay within the assets, by SumCompare at
\* the rate totalShares : totalAssets.
LEMMA InvQuotesCovered == Inv => QuotesCovered
<1> SUFFICES ASSUME Inv, totalShares > 0
             PROVE  SumFunction([a \in Address |-> AssetsForShares(balances[a])])
                      <= totalAssets
  BY DEF QuotesCovered
<1> DEFINE quoted == [a \in Address |-> AssetsForShares(balances[a])]
<1>1. /\ IsFiniteSet(Address) /\ balances \in [Address -> Nat]
      /\ totalShares \in Nat /\ totalAssets \in Nat
      /\ totalShares = SumFunction(balances)
  BY TokenAssumption DEF Inv, TypeOK, SharesConserved
<1>2. \A a \in Address : /\ quoted[a] \in Nat
                         /\ quoted[a] * totalShares <= balances[a] * totalAssets
  BY <1>1, QuoteBounds
<1>3. quoted \in [Address -> Nat]
  BY <1>2
<1> HIDE DEF quoted
<1>4. SumFunction(quoted) * totalShares <= SumFunction(balances) * totalAssets
  BY <1>1, <1>2, <1>3, SumCompare
<1>5. SumFunction(quoted) \in Nat
  BY <1>1, <1>3, SumBoundsEntry
<1>6. SumFunction(quoted) * totalShares <= totalAssets * totalShares
  BY <1>1, <1>4
<1>7. ~ (totalAssets < SumFunction(quoted))
  <2>1. ASSUME totalAssets < SumFunction(quoted)
        PROVE  FALSE
    <3>1. (totalAssets + 1) * totalShares <= SumFunction(quoted) * totalShares
      BY <1>1, <1>5, <2>1, MulMonotone
    <3>2. (totalAssets + 1) * totalShares = totalAssets * totalShares + totalShares
      BY <1>1
    <3>3. totalAssets * totalShares \in Nat /\ SumFunction(quoted) * totalShares \in Nat
      BY <1>1, <1>5
    <3> QED
      BY <1>1, <1>6, <3>1, <3>2, <3>3
  <2> QED
    BY <2>1
<1>8. SumFunction(quoted) <= totalAssets
  BY <1>1, <1>5, <1>7
<1> QED
  BY <1>8 DEF quoted

\* A value that a rounding down took to k and another brought back to m is no
\* more than it was: m * a <= k * b <= n * a.
LEMMA RoundTrip ==
  ASSUME NEW n \in Nat, NEW k \in Nat, NEW m \in Nat, NEW a \in Nat \ {0},
         NEW b \in Nat, k * b <= n * a, m * a <= k * b
  PROVE  m <= n
<1>1. m * a \in Nat /\ k * b \in Nat /\ n * a \in Nat
  OBVIOUS
<1>2. ASSUME n < m
      PROVE  FALSE
  <2>1. (n + 1) * a <= m * a
    BY <1>2, MulMonotone
  <2>2. (n + 1) * a = n * a + a
    OBVIOUS
  <2> QED
    BY <1>1, <2>1, <2>2
<1> QED
  BY <1>2

LEMMA InvConversionNeverGains == Inv => ConversionNeverGains
<1> SUFFICES ASSUME Inv, NEW n \in Amount, n >= 0
             PROVE  /\ totalShares > 0 => SharesForAssets(AssetsForShares(n)) <= n
                    /\ totalShares > 0 /\ totalAssets > 0
                         => AssetsForShares(SharesForAssets(n)) <= n
  BY DEF ConversionNeverGains
<1>1. n \in Nat /\ totalShares \in Nat /\ totalAssets \in Nat
  BY TokenAssumption DEF Inv, TypeOK
<1> DEFINE x == AssetsForShares(n)
           y == SharesForAssets(n)
<1>2. /\ x \in Nat /\ x * totalShares <= n * totalAssets
      /\ y \in Nat /\ y * totalAssets <= n * totalShares
  BY <1>1, QuoteBounds
<1> HIDE DEF x, y
<1> DEFINE xx == SharesForAssets(x)
           yy == AssetsForShares(y)
<1>3. /\ xx \in Nat /\ xx * totalAssets <= x * totalShares
      /\ yy \in Nat /\ yy * totalShares <= y * totalAssets
  BY <1>1, <1>2, QuoteBounds
<1>4. totalAssets = 0 => xx = 0
  BY DEF SharesForAssets
<1> HIDE DEF xx, yy
<1>5. xx <= n
  <2>1. CASE totalAssets = 0
    BY <1>1, <1>4, <2>1
  <2>2. CASE totalAssets # 0
    BY <1>1, <1>2, <1>3, <2>2, RoundTrip
  <2> QED
    BY <2>1, <2>2
<1>6. totalShares > 0 => yy <= n
  <2>1. ASSUME totalShares > 0
        PROVE  yy <= n
    BY <1>1, <1>2, <1>3, <2>1, RoundTrip
  <2> QED
    BY <2>1
<1> QED
  BY <1>5, <1>6 DEF x, y, xx, yy

\* No redemption is quoted out of another holder's assets.
THEOREM TokenQuotesCovered == Spec => []QuotesCovered
<1> QED
  BY InvQuotesCovered, TokenInvariant, PTL

\* Converting shares to assets and back, or the other way, gains nothing.
THEOREM TokenConversionNeverGains == Spec => []ConversionNeverGains
<1> QED
  BY InvConversionNeverGains, TokenInvariant, PTL

-------------------------------------------------------------------------------
(* Signatures *)

\* spend_allowance lowers what its spender may draw by the amount drawn, and leaves
\* every other allowance alone.
LEMMA SpendAllowanceDraws ==
  ASSUME TypeOK, NEW from \in Address, NEW s \in Spender, NEW n \in Nat,
         SpendAllowance(from, s, n), ledger' = ledger
  PROVE  /\ Spendable(from, s) - Spendable(from, s)' = n
         /\ \A a \in Address, r \in Spender : ~ (Spendable(a, r)' > Spendable(a, r))
<1> DEFINE al == allowances[<<from, s>>]
<1>1. /\ allowances \in [Address \X Spender -> Allowance] /\ al \in Allowance
      /\ al.amount \in Nat /\ al.expiration \in Nat /\ ledger \in Nat
  BY TokenAssumption DEF TypeOK, Allowance
<1>2. \A a \in Address, r \in Spender : Spendable(a, r) \in Nat
  BY <1>1, TokenAssumption DEF Spendable, Allowance
<1>3. CASE n = 0
  <2>1. allowances' = allowances
    BY <1>3 DEF SpendAllowance
  <2>2. \A a \in Address, r \in Spender : Spendable(a, r)' = Spendable(a, r)
    BY <2>1 DEF Spendable, Expired
  <2> QED
    BY <1>2, <1>3, <2>2
<1>4. CASE n # 0
  <2> DEFINE left == al.amount - n
             new == IF left = 0 THEN NoAllowance
                    ELSE [amount |-> left, expiration |-> al.expiration]
  <2>1. /\ ~ Expired(al) /\ n <= al.amount
        /\ allowances' = [allowances EXCEPT ![<<from, s>>] = new]
    BY <1>4 DEF SpendAllowance, WriteAllowance
  <2>2. Spendable(from, s) = al.amount
    BY <2>1 DEF Spendable
  <2>3. Spendable(from, s)' = left
    <3>1. allowances'[<<from, s>>] = new
      BY <1>1, <2>1
    <3>2. CASE left = 0
      BY <3>1, <3>2 DEF Spendable, NoAllowance
    <3>3. CASE left # 0
      BY <2>1, <3>1, <3>3 DEF Spendable, Expired
    <3> QED
      BY <3>2, <3>3
  <2>4. ASSUME NEW a \in Address, NEW r \in Spender, ~ (a = from /\ r = s)
        PROVE  Spendable(a, r)' = Spendable(a, r)
    <3>1. <<a, r>> # <<from, s>> /\ <<a, r>> \in Address \X Spender
      BY <2>4
    <3>2. allowances'[<<a, r>>] = allowances[<<a, r>>]
      BY <1>1, <2>1, <3>1
    <3> QED
      BY <3>2 DEF Spendable, Expired
  <2> HIDE DEF al
  <2>5. Spendable(from, s) - Spendable(from, s)' = n /\ left <= al.amount
    BY <1>1, <1>2, <2>1, <2>2, <2>3
  <2> HIDE DEF left, new
  <2>6. left \in Int /\ al.amount \in Int
    BY <1>1 DEF left
  <2>7. ~ (Spendable(from, s)' > Spendable(from, s))
    BY <2>2, <2>3, <2>5, <2>6
  <2>8. \A a \in Address, r \in Spender : ~ (Spendable(a, r)' > Spendable(a, r))
    <3>1. ASSUME NEW a \in Address, NEW r \in Spender
          PROVE  ~ (Spendable(a, r)' > Spendable(a, r))
      <4>1. CASE a = from /\ r = s
        BY <2>7, <4>1
      <4>2. CASE ~ (a = from /\ r = s)
        BY <1>2, <2>4, <4>2
      <4> QED
        BY <4>1, <4>2
    <3> QED
      BY <3>1
  <2> QED
    BY <2>5, <2>8
<1> QED
  BY <1>3, <1>4

\* Moving or spending a balance debits nobody but its holder, by the amount at most.
LEMMA DebitsOne ==
  ASSUME TypeOK, NEW from \in Address, NEW n \in Nat,
         \/ SpendBalance(from, n)
         \/ \E to \in Address : MoveBalance(from, to, n)
  PROVE  \A a \in Address :
           balances'[a] < balances[a] => a = from /\ balances[a] - balances'[a] = n
<1>1. balances \in [Address -> Int] /\ balances \in [Address -> Nat]
  BY TokenAssumption DEF TypeOK
<1>2. CASE SpendBalance(from, n)
  BY <1>1, <1>2 DEF SpendBalance
<1>3. ASSUME NEW to \in Address, MoveBalance(from, to, n)
      PROVE  \A a \in Address :
               balances'[a] < balances[a] => a = from /\ balances[a] - balances'[a] = n
  <2>1. balances' = [[balances EXCEPT ![from] = @ - n] EXCEPT ![to] = @ + n]
    BY <1>3 DEF MoveBalance
  <2> QED
    BY <1>1, <2>1
<1> QED
  BY <1>2, <1>3

\* What OnlyAuthorizedDebits and AllowanceGrantedByOwner say of one step
DebitSigned ==
  \A a \in Address :
    balances'[a] < balances[a] =>
      \/ authorizer' = a
      \/ /\ authorizer' \in {vault, bridge}
         /\ totalShares - totalShares' = balances[a] - balances'[a]
      \/ \E s \in Spender :
           /\ authorizer' = s
           /\ Spendable(a, s) - Spendable(a, s)' = balances[a] - balances'[a]

GrantSigned ==
  \A a \in Address, s \in Spender :
    Spendable(a, s)' > Spendable(a, s) => authorizer' = a

LEMMA NextDebitSigned == Inv /\ [Next]_vars => DebitSigned
<1> SUFFICES ASSUME Inv, [Next]_vars
             PROVE  DebitSigned
  OBVIOUS
<1>0. /\ TypeOK /\ totalShares \in Nat
      /\ \A n \in Amount : n >= 0 => n \in Nat
      /\ balances \in [Address -> Nat]
  BY TokenAssumption DEF Inv, TypeOK
<1>1. ASSUME NEW to \in Address, NEW n \in Amount, VaultMint(to, n) \/ BridgeMint(to, n)
      PROVE  DebitSigned
  <2>1. n \in Nat /\ balances' = [balances EXCEPT ![to] = @ + n]
    BY <1>0, <1>1 DEF VaultMint, BridgeMint, MintShares
  <2>2. \A a \in Address : ~ (balances'[a] < balances[a])
    BY <1>0, <2>1
  <2> QED
    BY <2>2 DEF DebitSigned
<1>2. ASSUME NEW from \in Address, NEW n \in Amount,
             VaultBurn(from, n) \/ BridgeBurn(from, n)
      PROVE  DebitSigned
  <2>1. /\ n \in Nat /\ SpendBalance(from, n) /\ totalShares' = totalShares - n
        /\ authorizer' \in {vault, bridge}
    BY <1>0, <1>2 DEF VaultBurn, BridgeBurn, BurnShares, RequireAuth
  <2>2. totalShares - totalShares' = n
    BY <1>0, <2>1
  <2> QED
    BY <1>0, <2>1, <2>2, DebitsOne DEF DebitSigned
<1>3. ASSUME NEW from \in Address, NEW n \in Amount,
             \/ \E to \in Address : Transfer(from, to, n)
             \/ Burn(from, n)
      PROVE  DebitSigned
  <2>1. /\ n \in Nat /\ authorizer' = from
        /\ SpendBalance(from, n) \/ \E to \in Address : MoveBalance(from, to, n)
    BY <1>0, <1>3 DEF Transfer, Burn, RequireAuth
  <2> QED
    BY <1>0, <2>1, DebitsOne DEF DebitSigned
<1>4. ASSUME NEW s \in Spender, NEW from \in Address, NEW n \in Amount,
             \/ \E to \in Address : TransferFrom(s, from, to, n)
             \/ BurnFrom(s, from, n)
      PROVE  DebitSigned
  <2>1. /\ n \in Nat /\ authorizer' = s /\ SpendAllowance(from, s, n) /\ ledger' = ledger
        /\ SpendBalance(from, n) \/ \E to \in Address : MoveBalance(from, to, n)
    BY <1>0, <1>4 DEF TransferFrom, BurnFrom, RequireAuth
  <2>2. Spendable(from, s) - Spendable(from, s)' = n
    BY <1>0, <2>1, SpendAllowanceDraws
  <2>3. \A a \in Address :
          balances'[a] < balances[a] => a = from /\ balances[a] - balances'[a] = n
    BY <1>0, <2>1, DebitsOne
  <2> QED
    BY <2>1, <2>2, <2>3 DEF DebitSigned
<1>5. ASSUME \/ \E d \in Deployment : Initialize(d)
             \/ \E a \in Address : SetAdmin(a)
             \/ \E n \in Amount : UpdateExchangeRate(n)
             \/ \E from \in Address, s \in Spender, n \in Amount,
                   e \in 0 .. MaxLedger : Approve(from, s, n, e)
             \/ CloseLedger
             \/ \E from \in Address, s \in Spender : EvictAllowance(from, s)
             \/ UNCHANGED vars
      PROVE  DebitSigned
  <2>1. balances' = balances
    BY <1>5 DEF Initialize, SetAdmin, UpdateExchangeRate, Approve, CloseLedger,
                EvictAllowance, vars
  <2> QED
    BY <1>0, <2>1 DEF DebitSigned
<1> QED
  BY <1>1, <1>2, <1>3, <1>4, <1>5 DEF Next

LEMMA NextGrantSigned == Inv /\ [Next]_vars => GrantSigned
<1> SUFFICES ASSUME Inv, [Next]_vars
             PROVE  GrantSigned
  OBVIOUS
<1>0. /\ TypeOK /\ allowances \in [Address \X Spender -> Allowance] /\ ledger \in Nat
      /\ \A n \in Amount : n >= 0 => n \in Nat
  BY TokenAssumption DEF Inv, TypeOK
<1>1. \A a \in Address, s \in Spender :
        /\ allowances[<<a, s>>].amount \in Nat /\ allowances[<<a, s>>].expiration \in Nat
        /\ Spendable(a, s) \in Nat
  <2>1. ASSUME NEW a \in Address, NEW s \in Spender
        PROVE  /\ allowances[<<a, s>>].amount \in Nat
               /\ allowances[<<a, s>>].expiration \in Nat
               /\ Spendable(a, s) \in Nat
    <3>1. allowances[<<a, s>>] \in Allowance
      BY <1>0
    <3>2. /\ allowances[<<a, s>>].amount \in Nat
          /\ allowances[<<a, s>>].expiration \in Nat
      BY <3>1, TokenAssumption DEF Allowance
    <3> QED
      BY <3>2 DEF Spendable
  <2> QED
    BY <2>1
<1>2. ASSUME NEW from \in Address, NEW s \in Spender, NEW n \in Amount,
             NEW e \in 0 .. MaxLedger, Approve(from, s, n, e)
      PROVE  GrantSigned
  <2>1. /\ authorizer' = from /\ ledger' = ledger
        /\ \E al : allowances' = [allowances EXCEPT ![<<from, s>>] = al]
    BY <1>2 DEF Approve, RequireAuth, WriteAllowance
  <2>2. ASSUME NEW a \in Address, NEW r \in Spender, a # from
        PROVE  Spendable(a, r)' = Spendable(a, r)
    <3>1. <<a, r>> # <<from, s>> /\ <<a, r>> \in Address \X Spender
      BY <2>2
    <3>2. allowances'[<<a, r>>] = allowances[<<a, r>>]
      BY <1>0, <2>1, <3>1
    <3> QED
      BY <2>1, <3>2 DEF Spendable, Expired
  <2>3. \A a \in Address, r \in Spender : a # from => ~ (Spendable(a, r)' > Spendable(a, r))
    <3>1. ASSUME NEW a \in Address, NEW r \in Spender, a # from
          PROVE  ~ (Spendable(a, r)' > Spendable(a, r))
      <4>1. Spendable(a, r) \in Nat /\ Spendable(a, r)' = Spendable(a, r)
        BY <1>1, <2>2, <3>1
      <4> QED
        BY <4>1
    <3> QED
      BY <3>1
  <2> QED
    BY <2>1, <2>3 DEF GrantSigned
<1>3. ASSUME NEW s \in Spender, NEW from \in Address, NEW n \in Amount,
             \/ \E to \in Address : TransferFrom(s, from, to, n)
             \/ BurnFrom(s, from, n)
      PROVE  GrantSigned
  <2>1. n \in Nat /\ SpendAllowance(from, s, n) /\ ledger' = ledger
    BY <1>0, <1>3 DEF TransferFrom, BurnFrom
  <2> QED
    BY <1>0, <2>1, SpendAllowanceDraws DEF GrantSigned
<1>4. CASE CloseLedger
  <2>1. allowances' = allowances /\ ledger' = ledger + 1
    BY <1>4 DEF CloseLedger
  <2>2. ASSUME NEW a \in Address, NEW r \in Spender
        PROVE  ~ (Spendable(a, r)' > Spendable(a, r))
    BY <1>0, <1>1, <2>1 DEF Spendable, Expired
  <2> QED
    BY <2>2 DEF GrantSigned
<1>5. ASSUME NEW from \in Address, NEW s \in Spender, EvictAllowance(from, s)
      PROVE  GrantSigned
  <2>1. /\ allowances' = [allowances EXCEPT ![<<from, s>>] = NoAllowance]
        /\ ledger' = ledger
    BY <1>5 DEF EvictAllowance
  <2>2. ASSUME NEW a \in Address, NEW r \in Spender
        PROVE  ~ (Spendable(a, r)' > Spendable(a, r))
    <3>1. <<a, r>> \in Address \X Spender
      OBVIOUS
    <3>2. CASE allowances'[<<a, r>>] = allowances[<<a, r>>]
      BY <1>1, <2>1, <3>2 DEF Spendable, Expired
    <3>3. CASE allowances'[<<a, r>>] = NoAllowance
      <4>1. Spendable(a, r)' = 0
        BY <3>3 DEF Spendable, NoAllowance
      <4>2. Spendable(a, r) \in Nat
        BY <1>1
      <4> QED
        BY <4>1, <4>2
    <3> QED
      BY <1>0, <2>1, <3>1, <3>2, <3>3
  <2> QED
    BY <2>2 DEF GrantSigned
<1>6. ASSUME \/ \E d \in Deployment : Initialize(d)
             \/ \E a \in Address : SetAdmin(a)
             \/ \E n \in Amount : UpdateExchangeRate(n)
             \/ \E a \in Address, n \in Amount :
                   \/ VaultMint(a, n) \/ BridgeMint(a, n)
                   \/ VaultBurn(a, n) \/ BridgeBurn(a, n)
                   \/ Burn(a, n)
             \/ \E from, to \in Address, n \in Amount : Transfer(from, to, n)
             \/ UNCHANGED vars
      PROVE  GrantSigned
  <2>1. allowances' = allowances /\ ledger' = ledger
    BY <1>6 DEF Initialize, SetAdmin, UpdateExchangeRate, VaultMint, BridgeMint,
                MintShares, VaultBurn, BridgeBurn, BurnShares, Burn, Transfer, vars
  <2>2. ASSUME NEW a \in Address, NEW s \in Spender
        PROVE  ~ (Spendable(a, s)' > Spendable(a, s))
    <3>1. Spendable(a, s) \in Nat /\ Spendable(a, s)' = Spendable(a, s)
      BY <1>1, <2>1 DEF Spendable, Expired
    <3> QED
      BY <3>1
  <2> QED
    BY <2>2 DEF GrantSigned
<1> QED
  BY <1>2, <1>3, <1>4, <1>5, <1>6 DEF Next

\* require_auth guards every debit: a balance falls by its owner's signature, by a
\* spender's whose live allowance falls as much, or by a burn of vault or bridge.
THEOREM TokenOnlyAuthorizedDebits == Spec => OnlyAuthorizedDebits
<1>1. Inv /\ [Next]_vars => [DebitSigned]_vars
  BY NextDebitSigned
<1> QED
  BY <1>1, TokenInvariant, PTL DEF Spec, OnlyAuthorizedDebits, DebitSigned

\* Only approve, signed by the owner, raises what a spender may draw: no drawing,
\* eviction or closing of a ledger does.
THEOREM TokenAllowanceGrantedByOwner == Spec => AllowanceGrantedByOwner
<1>1. Inv /\ [Next]_vars => [GrantSigned]_vars
  BY NextGrantSigned
<1> QED
  BY <1>1, TokenInvariant, PTL DEF Spec, AllowanceGrantedByOwner, GrantSigned
===============================================================================
