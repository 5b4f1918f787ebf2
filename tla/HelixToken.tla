------------------------------ MODULE HelixToken -------------------------------
(***************************************************************************)
(* The Helix vault-share token (contracts/token/src/lib.rs).  A Soroban    *)
(* call runs to its end or, on a panic, changes nothing: every entry point *)
(* is one action, whose guard is the conjunction of the checks that panic. *)
(* Storage keys that are absent read as zero, so balances is total.        *)
(***************************************************************************)
EXTENDS Integers, FiniteSets, Functions

CONSTANTS
  Address,      \* accounts and contracts that can hold shares
  NoAddress,    \* an instance key that has not been written
  Spender,      \* addresses that owners approve in this instance
  Deployment,   \* [admin, vault, bridge] arguments initialize is called with
  Amount,       \* i128 arguments callers pass, negative ones included
  MaxI128,      \* largest i128; 2^127 - 1 in the code
  MaxLedger     \* bound on the ledger sequence number

ASSUME TokenAssumption ==
  /\ IsFiniteSet(Address)
  /\ NoAddress \notin Address
  /\ Spender \subseteq Address
  /\ Deployment \subseteq [admin : Address, vault : Address, bridge : Address]
  /\ MaxI128 \in Nat \ {0}
  /\ Amount \subseteq -MaxI128 .. MaxI128
  /\ MaxLedger \in Nat

VARIABLES
  admin, vault, bridge,   \* DataKey::Admin, VaultContract, BridgeHandler
  totalShares,            \* DataKey::TotalShares
  totalAssets,            \* DataKey::TotalAssets
  balances,               \* DataKey::Balance(address)
  allowances,             \* DataKey::Allowance(from, spender)
  ledger,                 \* env.ledger().sequence()
  authorizer              \* the address whose require_auth the last call met

roles == <<admin, vault, bridge>>
totals == <<totalShares, totalAssets>>
vars == <<roles, totals, balances, allowances, ledger, authorizer>>

\* An allowance of zero is removed from storage: NoAllowance is the absent key.
NoAllowance == [amount |-> 0, expiration |-> 0]
Allowance == [amount : 0 .. MaxI128, expiration : 0 .. MaxLedger]

Init ==
  /\ admin = NoAddress /\ vault = NoAddress /\ bridge = NoAddress
  /\ totalShares = 0 /\ totalAssets = 0
  /\ balances = [a \in Address |-> 0]
  /\ allowances = [p \in Address \X Spender |-> NoAllowance]
  /\ ledger = 0
  /\ authorizer = NoAddress

-------------------------------------------------------------------------------

Initialized == admin # NoAddress

RequireAuth(a) == authorizer' = a

FitsI128(n) == n <= MaxI128

\* Mutant: integer division alone, in the burner's favour.
DivFloor(x, y) == x \div y

\* checked_div_ceil, for a nonnegative x and a positive y
DivCeil(x, y) == IF x % y = 0 THEN x \div y ELSE (x \div y) + 1

\* spend_balance, then the recipient's balance read from the result: a
\* transfer to oneself must not credit the balance as it was before.
CanMove(from, to, n) ==
  /\ n <= balances[from]
  /\ FitsI128([balances EXCEPT ![from] = @ - n][to] + n)

\* Mutant: the recipient's balance is read before the sender's is written.
MoveBalanceStale(from, to, n) ==
  /\ CanMove(from, to, n)
  /\ balances' = [[balances EXCEPT ![from] = @ - n] EXCEPT ![to] = balances[to] + n]

MoveBalance(from, to, n) ==
  /\ CanMove(from, to, n)
  /\ balances' = [[balances EXCEPT ![from] = @ - n] EXCEPT ![to] = @ + n]

\* Mutant: no balance check.
SpendBalanceUnchecked(from, n) == balances' = [balances EXCEPT ![from] = @ - n]

SpendBalance(from, n) ==
  /\ n <= balances[from]
  /\ balances' = [balances EXCEPT ![from] = @ - n]

Expired(al) == al.expiration < ledger

\* allowance(): what the spender may still draw
Spendable(from, spender) ==
  LET al == allowances[<<from, spender>>]
  IN  IF Expired(al) THEN 0 ELSE al.amount

WriteAllowance(from, spender, n, expiration) ==
  /\ n = 0 \/ expiration >= ledger
  /\ allowances' = [allowances EXCEPT ![<<from, spender>>] =
                      IF n = 0 THEN NoAllowance
                      ELSE [amount |-> n, expiration |-> expiration]]

SpendAllowance(from, spender, n) ==
  LET al == allowances[<<from, spender>>]
  IN  IF n = 0
      THEN UNCHANGED allowances
      ELSE /\ ~ Expired(al)
           /\ n <= al.amount
           /\ WriteAllowance(from, spender, al.amount - n, al.expiration)

\* mint_shares
MintShares(to, n) ==
  /\ FitsI128(balances[to] + n)
  /\ FitsI128(totalShares + n)
  /\ balances' = [balances EXCEPT ![to] = @ + n]
  /\ totalShares' = totalShares + n
  /\ UNCHANGED <<roles, totalAssets, allowances, ledger>>

\* Mutant: the total is not lowered.
BurnSharesKeepsTotal(from, n) ==
  SpendBalance(from, n) /\ UNCHANGED <<roles, totals, allowances, ledger>>

\* burn_shares: shares leave for Starknet, TotalAssets waits for the next
\* yield report
BurnShares(from, n) ==
  /\ SpendBalance(from, n)
  /\ totalShares' = totalShares - n
  /\ UNCHANGED <<roles, totalAssets, allowances, ledger>>

\* burn_external_shares: a holder's burn takes its part of the assets along
BurnExternalShares(n) ==
  IF n = 0
  THEN UNCHANGED totals
  ELSE /\ FitsI128(n * totalAssets)
       /\ totalShares > 0
       /\ totalShares' = totalShares - n
       /\ totalAssets' = totalAssets - DivCeil(n * totalAssets, totalShares)

-------------------------------------------------------------------------------

Initialize(d) ==
  /\ ~ Initialized
  /\ RequireAuth(d.admin)
  /\ admin' = d.admin /\ vault' = d.vault /\ bridge' = d.bridge
  /\ totalShares' = 0 /\ totalAssets' = 0
  /\ UNCHANGED <<balances, allowances, ledger>>

VaultMint(to, n) ==
  Initialized /\ n >= 0 /\ RequireAuth(vault) /\ MintShares(to, n)

BridgeMint(to, n) ==
  Initialized /\ n >= 0 /\ RequireAuth(bridge) /\ MintShares(to, n)

VaultBurn(from, n) ==
  Initialized /\ n >= 0 /\ RequireAuth(vault) /\ BurnShares(from, n)

BridgeBurn(from, n) ==
  Initialized /\ n >= 0 /\ RequireAuth(bridge) /\ BurnShares(from, n)

UpdateExchangeRate(n) ==
  /\ Initialized
  /\ n > 0
  /\ RequireAuth(bridge)
  /\ totalAssets' = n
  /\ UNCHANGED <<roles, totalShares, balances, allowances, ledger>>

SetAdmin(a) ==
  /\ Initialized
  /\ RequireAuth(admin)
  /\ admin' = a
  /\ UNCHANGED <<vault, bridge, totals, balances, allowances, ledger>>

\* Mutant: the spender signs for its own allowance.
ApproveBySpender(from, spender, n, expiration) ==
  /\ Initialized /\ n >= 0
  /\ RequireAuth(spender)
  /\ WriteAllowance(from, spender, n, expiration)
  /\ UNCHANGED <<roles, totals, balances, ledger>>

Approve(from, spender, n, expiration) ==
  /\ Initialized
  /\ n >= 0
  /\ RequireAuth(from)
  /\ WriteAllowance(from, spender, n, expiration)
  /\ UNCHANGED <<roles, totals, balances, ledger>>

\* Mutant: a negative amount is not refused.
TransferSigned(from, to, n) ==
  /\ Initialized
  /\ RequireAuth(from)
  /\ MoveBalance(from, to, n)
  /\ UNCHANGED <<roles, totals, allowances, ledger>>

Transfer(from, to, n) ==
  /\ Initialized
  /\ n >= 0
  /\ RequireAuth(from)
  /\ MoveBalance(from, to, n)
  /\ UNCHANGED <<roles, totals, allowances, ledger>>

TransferFrom(spender, from, to, n) ==
  /\ Initialized
  /\ n >= 0
  /\ RequireAuth(spender)
  /\ SpendAllowance(from, spender, n)
  /\ MoveBalance(from, to, n)
  /\ UNCHANGED <<roles, totals, ledger>>

Burn(from, n) ==
  /\ Initialized
  /\ n >= 0
  /\ RequireAuth(from)
  /\ SpendBalance(from, n)
  /\ BurnExternalShares(n)
  /\ UNCHANGED <<roles, allowances, ledger>>

BurnFrom(spender, from, n) ==
  /\ Initialized
  /\ n >= 0
  /\ RequireAuth(spender)
  /\ SpendAllowance(from, spender, n)
  /\ SpendBalance(from, n)
  /\ BurnExternalShares(n)
  /\ UNCHANGED <<roles, ledger>>

\* The network closes a ledger.
CloseLedger ==
  /\ ledger < MaxLedger
  /\ ledger' = ledger + 1
  /\ UNCHANGED <<roles, totals, balances, allowances, authorizer>>

\* Allowances are temporary entries: the network drops one whose time to live
\* (not its expiration_ledger) has ended.  The time to live is left open.
EvictAllowance(from, spender) ==
  /\ allowances' = [allowances EXCEPT ![<<from, spender>>] = NoAllowance]
  /\ UNCHANGED <<roles, totals, balances, ledger, authorizer>>

Next ==
  \/ \E d \in Deployment : Initialize(d)
  \/ \E a \in Address : SetAdmin(a)
  \/ \E a \in Address, n \in Amount : VaultMint(a, n)
  \/ \E a \in Address, n \in Amount : BridgeMint(a, n)
  \/ \E a \in Address, n \in Amount : VaultBurn(a, n)
  \/ \E a \in Address, n \in Amount : BridgeBurn(a, n)
  \/ \E n \in Amount : UpdateExchangeRate(n)
  \/ \E from \in Address, s \in Spender, n \in Amount, e \in 0 .. MaxLedger :
       Approve(from, s, n, e)
  \/ \E from, to \in Address, n \in Amount : Transfer(from, to, n)
  \/ \E s \in Spender, from, to \in Address, n \in Amount :
       TransferFrom(s, from, to, n)
  \/ \E from \in Address, n \in Amount : Burn(from, n)
  \/ \E s \in Spender, from \in Address, n \in Amount : BurnFrom(s, from, n)
  \/ CloseLedger
  \/ \E from \in Address, s \in Spender : EvictAllowance(from, s)

Spec == Init /\ [][Next]_vars

-------------------------------------------------------------------------------

\* Mutants: the quotes round up.
AssetsForSharesUp(n) ==
  IF totalShares = 0 \/ n = 0 THEN 0 ELSE DivCeil(n * totalAssets, totalShares)
SharesForAssetsUp(n) ==
  IF totalAssets = 0 \/ n = 0 THEN 0 ELSE DivCeil(n * totalShares, totalAssets)

\* assets_for_shares and shares_for_assets round down; a product that does not
\* fit an i128 panics, which the properties below exclude where they quote.
AssetsForShares(n) ==
  IF totalShares = 0 \/ n = 0 THEN 0 ELSE (n * totalAssets) \div totalShares

SharesForAssets(n) ==
  IF totalAssets = 0 \/ n = 0 THEN 0 ELSE (n * totalShares) \div totalAssets

-------------------------------------------------------------------------------
(* Properties *)

\* Every stored value stays in the range its readers assume; TotalAssets never
\* goes below zero although a burn removes a rounded-up part of it.
TypeOK ==
  /\ admin \in Address \cup {NoAddress}
  /\ vault \in Address \cup {NoAddress}
  /\ bridge \in Address \cup {NoAddress}
  /\ totalShares \in 0 .. MaxI128
  /\ totalAssets \in 0 .. MaxI128
  /\ balances \in [Address -> 0 .. MaxI128]
  /\ allowances \in [Address \X Spender -> Allowance]
  /\ ledger \in 0 .. MaxLedger
  /\ authorizer \in Address \cup {NoAddress}

\* TotalShares is the sum of the balances: no sequence of mints, transfers
\* (to oneself included) and burns makes or loses a share.
SharesConserved == totalShares = SumFunction(balances)

\* Before initialize there is nothing to hold.
EmptyUntilInitialized ==
  ~ Initialized => /\ totalShares = 0
                   /\ \A a \in Address : balances[a] = 0

\* The values quoted for all holders together never exceed TotalAssets: nobody's
\* redemption is paid out of another's.
QuotesCovered ==
  LET quoted == [a \in Address |-> AssetsForShares(balances[a])]
  IN  totalShares > 0 => SumFunction(quoted) <= totalAssets

\* Converting there and back gains nothing, in either direction, at any rate.
ConversionNeverGains ==
  \A n \in {m \in Amount : m >= 0} :
    /\ totalShares > 0 => SharesForAssets(AssetsForShares(n)) <= n
    /\ totalShares > 0 /\ totalAssets > 0
         => AssetsForShares(SharesForAssets(n)) <= n

\* A holder's burn (burn, burn_from) takes assets along.  It never lowers what a
\* remaining share is worth by more than rounding, never raises it, and the last
\* share takes everything: A/S against A'/S', cross-multiplied.
KeepsRate ==
  totalShares' < totalShares /\ authorizer' \notin {vault, bridge}
    => /\ totalAssets' * totalShares <= totalAssets * totalShares'
       /\ totalAssets * totalShares' - totalAssets' * totalShares < totalShares
       /\ totalShares' = 0 => totalAssets' = 0

BurnKeepsRate == [][KeepsRate]_vars

\* A balance falls only by its owner's signature, by a spender whose allowance
\* was live and falls by the same amount, or by a burn of the vault or bridge.
OnlyAuthorizedDebits ==
  [][ \A a \in Address :
        balances'[a] < balances[a] =>
          \/ authorizer' = a
          \/ /\ authorizer' \in {vault, bridge}
             /\ totalShares - totalShares' = balances[a] - balances'[a]
          \/ \E s \in Spender :
               /\ authorizer' = s
               /\ Spendable(a, s) - Spendable(a, s)' = balances[a] - balances'[a]
     ]_vars

\* What a spender may draw grows only by its owner's signature: neither an
\* expiry, an eviction nor a partial draw brings an allowance back.
AllowanceGrantedByOwner ==
  [][ \A a \in Address, s \in Spender :
        Spendable(a, s)' > Spendable(a, s) => authorizer' = a ]_vars

\* The contract implements the abstract share ledger.
Ledger == INSTANCE ShareLedger
            WITH MaxSupply <- MaxI128, supply <- totalShares, holdings <- balances
ImplementsLedger == Ledger!Spec
===============================================================================
