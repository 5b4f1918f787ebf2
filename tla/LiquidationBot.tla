----------------------------- MODULE LiquidationBot ----------------------------
(***************************************************************************)
(* The liquidation bot (liquidation-bot/src): a loop that scans the events *)
(* of the vault into an index of positions, asks the vault for the health  *)
(* of each, and liquidates those that are below it, then sleeps.           *)
(*                                                                         *)
(* Every call to the RPC node is an await at which the vault moves on, the *)
(* call may fail for good (after with_retry gave up), and the process may  *)
(* be shut down; a failed iteration is logged and the next one starts from *)
(* what the scanner remembers.  The vault is seen through its events, the  *)
(* debt it stores of each user, and the health factors it computes.        *)
(***************************************************************************)
EXTENDS Integers, FiniteSets, Sequences

CONSTANTS
  User,
  Asset,            \* collateral tokens of the vault
  PrimaryAsset,     \* what read_supported_asset answers, or the placeholder
  None,
  Debts,            \* amounts users may owe
  OlderDebts,       \* what they owe, if anything, before the events modelled
  Health,           \* health factors, HealthOne being HEALTH_FACTOR_ONE
  HealthOne,
  Funds,            \* balances of the liquidator
  StartLedgers,     \* configured start ledgers, None where there is none
  LedgerLookback, EventPageLimit,
  LiqBonus, BpsDenominator, MinProfit, MaxLiquidationsPerRun,
  Failing,          \* calls that may fail for good
  MaxEvents, MaxDisturbances   \* bounds of the model

\* Where the loop stands: the call it awaits, or asleep
Calls == {"latest", "events", "position", "config", "health", "liquidate", "wait"}

Event == [ledger : Nat, user : User, asset : Asset \cup {None}]
TrackedPosition == [user : User, asset : Asset \cup {PrimaryAsset}, debt : Debts]
HealthAssessment == [tracked : TrackedPosition, health : Nat]
Transaction == [user : User, repay : Nat]

ASSUME BotAssumption ==
  /\ IsFiniteSet(User)
  /\ Debts \subseteq Nat /\ 0 \in Debts /\ \A d \in Debts : 0 .. d \subseteq Debts
  /\ OlderDebts \subseteq Debts \cup {None}
  /\ Health \subseteq Nat /\ HealthOne \in Nat /\ Funds \subseteq Nat
  /\ StartLedgers \subseteq Nat \cup {None} /\ LedgerLookback \in Nat
  /\ EventPageLimit \in Nat \ {0} /\ MaxLiquidationsPerRun \in Nat
  /\ LiqBonus \in Nat /\ BpsDenominator \in Nat \ {0} /\ MinProfit \in Int
  /\ Failing \subseteq Calls
  /\ MaxEvents \in Nat /\ MaxDisturbances \in Nat
  /\ None \notin Nat \cup Asset \cup Transaction

VARIABLES
  ledger, events,     \* the open ledger; the vault's events in order
  debt, health,       \* the vault: stored debt or None, health factor
  funds,              \* the liquidator's balance
  mempool,            \* transactions sent and not yet applied
  positions, seen, userAssets, lastSeen,   \* ScannerState
  startLedger,        \* of the configuration in force
  firstLedger,        \* history: where the scanner began, before any event
  missed,             \* history: users with an event that was passed over without
                      \* their position being read since
  pc, latest, response, todo, candidates, awaiting, submitted,   \* the iteration
  disturbed           \* moves, failures and restarts so far

vault == <<events, debt>>
market == <<health, funds>>
scanner == <<positions, seen, userAssets, lastSeen>>
history == <<firstLedger, missed>>
iteration == <<pc, latest, response, todo, candidates, awaiting, submitted>>
vars == <<ledger, vault, market, mempool, scanner, history, startLedger, iteration,
          disturbed>>

\* ScannerState::default, and the loop before its first call
Fresh ==
  /\ positions = {} /\ seen = {} /\ lastSeen = None
  /\ firstLedger = None /\ missed = {}
  /\ userAssets = [u \in User |-> None]
  /\ pc = "latest" /\ latest = 0 /\ response = {} /\ todo = {} /\ candidates = {}
  /\ awaiting = None /\ submitted = 0

Init ==
  /\ ledger = 1 /\ events = <<>>
  /\ debt \in [User -> OlderDebts]
  /\ health \in [User -> Health] /\ funds \in Funds
  /\ mempool = {}
  /\ startLedger \in StartLedgers
  /\ Fresh
  /\ disturbed = 0

Disturb == disturbed < MaxDisturbances /\ disturbed' = disturbed + 1

-------------------------------------------------------------------------------
(* What the calls answer *)

Lower(m, n) == IF m <= n THEN m ELSE n

\* get_health_factor of an open position
HealthFactor(u) == IF debt[u] = 0 THEN HealthOne + 1 ELSE health[u]

\* liquidate of the vault pays at most half of the debt, and something
Payment(u, repay) == Lower(repay, debt[u] \div 2)

VaultAccepts(u, repay) ==
  /\ debt[u] # None
  /\ HealthFactor(u) <= HealthOne
  /\ Payment(u, repay) > 0
  /\ funds >= Payment(u, repay)

\* The events of closed ledgers from a ledger on, and those of them a page holds
EventsFrom(from) ==
  {i \in DOMAIN events : from <= events[i].ledger /\ events[i].ledger < ledger}

Page(from) ==
  {i \in EventsFrom(from) :
     Cardinality({j \in EventsFrom(from) : j < i}) < EventPageLimit}

\* The page ends within the ledger of these events.
CutOff(from) ==
  {j \in EventsFrom(from) \ Page(from) :
     \E i \in Page(from) : events[i].ledger = events[j].ledger}

-------------------------------------------------------------------------------
(* The iteration and how it ends early *)

\* The iteration's own data is gone when it ends, however it ends.
EndIteration ==
  /\ pc' = "sleep"
  /\ latest' = 0 /\ response' = {} /\ todo' = {} /\ candidates' = {}
  /\ UNCHANGED <<awaiting, submitted>>

WorldStays == UNCHANGED <<ledger, vault, market, mempool, startLedger>>

\* A call of the scan or the evaluation failed: run_iteration returns its error.
CallFails ==
  /\ pc \in Failing \cap {"latest", "events", "config", "health"}
  /\ Disturb
  /\ EndIteration
  /\ WorldStays /\ UNCHANGED <<scanner, history>>

Wake ==
  /\ pc = "sleep"
  /\ pc' = "latest" /\ submitted' = 0
  /\ UNCHANGED <<latest, response, todo, candidates, awaiting>>
  /\ WorldStays /\ UNCHANGED <<scanner, history, disturbed>>

-------------------------------------------------------------------------------
(* scan *)

LatestLedger ==
  /\ pc = "latest"
  /\ latest' = ledger - 1
  /\ pc' = "events"
  /\ UNCHANGED <<response, todo, candidates, awaiting, submitted>>
  /\ WorldStays /\ UNCHANGED <<scanner, history, disturbed>>

\* Mutant: the ledger after the one just scanned is skipped.
FromLedgerSkips ==
  IF lastSeen # None THEN lastSeen + 2
  ELSE IF startLedger # None THEN startLedger
  ELSE IF latest > LedgerLookback THEN latest - LedgerLookback ELSE 0

FromLedger ==
  IF lastSeen # None THEN lastSeen + 1
  ELSE IF startLedger # None THEN startLedger
  ELSE IF latest > LedgerLookback THEN latest - LedgerLookback ELSE 0

GetEvents ==
  /\ pc = "events"
  /\ response' = Page(FromLedger)
  /\ firstLedger' = IF lastSeen = None THEN FromLedger ELSE firstLedger
  /\ missed' = missed \cup {events[i].user : i \in CutOff(FromLedger)}
  /\ pc' = "position"
  /\ UNCHANGED <<latest, todo, candidates, awaiting, submitted>>
  /\ WorldStays /\ UNCHANGED <<scanner, disturbed>>

IsNextEvent(i) ==
  /\ pc = "position"
  /\ i \in response /\ \A j \in response : i <= j

SkipSeenEvent(i) ==
  /\ IsNextEvent(i) /\ i \in seen
  /\ response' = response \ {i}
  /\ UNCHANGED <<pc, latest, todo, candidates, awaiting, submitted>>
  /\ WorldStays /\ UNCHANGED <<scanner, history, disturbed>>

\* A deposit names the asset; for the other events it is the last one known
AssetOf(i) ==
  LET e == events[i]
  IN  IF e.asset # None THEN e.asset
      ELSE IF userAssets[e.user] # None THEN userAssets[e.user] ELSE PrimaryAsset

RememberAsset(i) ==
  [userAssets EXCEPT ![events[i].user] =
     IF events[i].asset # None THEN events[i].asset ELSE @]

\* remove_user: the entries of the user under any asset
RemoveUser(u) == {t \in positions : t.user # u}

\* The event is remembered, then the position is read and indexed, or dropped
\* when there is none.
HandleEvent(i) ==
  LET u == events[i].user  a == AssetOf(i)
  IN  /\ IsNextEvent(i) /\ i \notin seen
      /\ seen' = seen \cup {i}
      /\ IF debt[u] # None
         THEN /\ positions' = {t \in positions : ~ (t.user = u /\ t.asset = a)}
                                \cup {[user |-> u, asset |-> a, debt |-> debt[u]]}
              /\ userAssets' = RememberAsset(i)
         ELSE /\ positions' = RemoveUser(u)
              /\ userAssets' = [userAssets EXCEPT ![u] = None]
      /\ lastSeen' = events[i].ledger
      /\ missed' = missed \ {u}
      /\ response' = response \ {i}
      /\ UNCHANGED <<pc, latest, todo, candidates, awaiting, submitted>>
      /\ WorldStays /\ UNCHANGED <<firstLedger, disturbed>>

\* Events of the page that no later scan asks for when this one stops at i
LostWith(i) ==
  {i} \cup {j \in response : lastSeen # None /\ events[j].ledger <= lastSeen}

\* get_position failed: the event stays remembered.
PositionFails(i) ==
  /\ "position" \in Failing /\ Disturb
  /\ IsNextEvent(i) /\ i \notin seen
  /\ seen' = seen \cup {i}
  /\ userAssets' = RememberAsset(i)
  /\ missed' = missed \cup {events[j].user : j \in LostWith(i)}
  /\ EndIteration
  /\ WorldStays /\ UNCHANGED <<positions, lastSeen, firstLedger>>

\* Events the scan goes past unseen, when no event set last_seen_ledger
GonePast ==
  {i \in EventsFrom(firstLedger) \ seen : lastSeen = None /\ events[i].ledger <= latest}

EndScan ==
  /\ pc = "position" /\ response = {}
  /\ lastSeen' = IF lastSeen = None THEN latest ELSE lastSeen
  /\ missed' = missed \cup {events[i].user : i \in GonePast}
  /\ pc' = "config" /\ latest' = 0
  /\ UNCHANGED <<response, todo, candidates, awaiting, submitted>>
  /\ WorldStays /\ UNCHANGED <<positions, seen, userAssets, firstLedger, disturbed>>

-------------------------------------------------------------------------------
(* evaluate *)

ReadPoolConfig ==
  /\ pc = "config"
  /\ todo' = positions
  /\ pc' = IF positions = {} THEN "liquidate" ELSE "health"
  /\ UNCHANGED <<latest, response, candidates, awaiting, submitted>>
  /\ WorldStays /\ UNCHANGED <<scanner, history, disturbed>>

BelowOne(h) == h < HealthOne

\* One more tracked position, in the order of a hash map
Assess(t) ==
  /\ pc = "health" /\ t \in todo
  /\ debt[t.user] # None
  /\ todo' = todo \ {t}
  /\ candidates' = IF BelowOne(HealthFactor(t.user))
                   THEN candidates \cup {[tracked |-> t, health |-> HealthFactor(t.user)]}
                   ELSE candidates
  /\ pc' = IF todo' = {} THEN "liquidate" ELSE "health"
  /\ UNCHANGED <<latest, response, awaiting, submitted>>
  /\ WorldStays /\ UNCHANGED <<scanner, history, disturbed>>

\* The vault has no such position any more: its panic is an error of the call,
\* and nobody is liquidated in this iteration.
AssessRefused(t) ==
  /\ pc = "health" /\ t \in todo
  /\ debt[t.user] = None
  /\ EndIteration
  /\ WorldStays /\ UNCHANGED <<scanner, history, disturbed>>

-------------------------------------------------------------------------------
(* execute *)

RepayAmount(c) == c.tracked.debt \div 2

WorthIt(repay) ==
  repay > 0 /\ (repay * LiqBonus) \div BpsDenominator >= MinProfit

\* Mutant: the cap is compared after it was reached.
BelowCapLate == submitted <= MaxLiquidationsPerRun

BelowCap == submitted < MaxLiquidationsPerRun

\* The candidate with the lowest health factor comes first
IsNextCandidate(c) ==
  /\ pc = "liquidate" /\ BelowCap
  /\ c \in candidates /\ \A d \in candidates : c.health <= d.health

\* What the bot checks before it liquidates
ShouldTry(c) == WorthIt(RepayAmount(c)) /\ funds >= RepayAmount(c)

\* Mutant: a liquidation that is not worth it ends the pass.
DropAll(c) == {}

\* The pass goes on with the other candidates
Drop(c) == candidates \ {c}

SkipCandidate(c) ==
  /\ IsNextCandidate(c)
  /\ ~ (ShouldTry(c) /\ VaultAccepts(c.tracked.user, RepayAmount(c)))
  /\ candidates' = Drop(c)
  /\ UNCHANGED <<pc, latest, response, todo, awaiting, submitted>>
  /\ WorldStays /\ UNCHANGED <<scanner, history, disturbed>>

\* The simulation succeeds and the transaction is sent
Submit(c) ==
  LET tx == [user |-> c.tracked.user, repay |-> RepayAmount(c)]
  IN  /\ IsNextCandidate(c)
      /\ ShouldTry(c) /\ VaultAccepts(tx.user, tx.repay)
      /\ mempool' = mempool \cup {tx}
      /\ awaiting' = tx
      /\ candidates' = candidates \ {c}
      /\ pc' = "wait"
      /\ UNCHANGED <<latest, response, todo, submitted>>
      /\ UNCHANGED <<ledger, vault, market, startLedger, scanner, history, disturbed>>

\* The balance cannot be read, which ends the iteration
BalanceFails(c) ==
  /\ "liquidate" \in Failing /\ Disturb
  /\ IsNextCandidate(c) /\ WorthIt(RepayAmount(c))
  /\ EndIteration
  /\ WorldStays /\ UNCHANGED <<scanner, history>>

\* A call of liquidate before the transaction is sent fails: the next candidate
LiquidateFails(c) ==
  /\ "liquidate" \in Failing /\ Disturb
  /\ IsNextCandidate(c) /\ ShouldTry(c)
  /\ candidates' = candidates \ {c}
  /\ UNCHANGED <<pc, latest, response, todo, awaiting, submitted>>
  /\ WorldStays /\ UNCHANGED <<scanner, history>>

\* The transaction is on the ledger, applied or refused: it counts.
Confirmed ==
  /\ pc = "wait" /\ awaiting \notin mempool
  /\ submitted' = submitted + 1
  /\ awaiting' = None /\ pc' = "liquidate"
  /\ UNCHANGED <<latest, response, todo, candidates>>
  /\ WorldStays /\ UNCHANGED <<scanner, history, disturbed>>

\* It expired before a ledger took it: waiting fails, it does not count.
Expired ==
  /\ pc = "wait" /\ awaiting \in mempool
  /\ mempool' = mempool \ {awaiting}
  /\ awaiting' = None /\ pc' = "liquidate"
  /\ UNCHANGED <<latest, response, todo, candidates, submitted>>
  /\ UNCHANGED <<ledger, vault, market, startLedger, scanner, history, disturbed>>

\* No answer in time, although it may still be applied
WaitFails ==
  /\ pc = "wait" /\ "wait" \in Failing /\ Disturb
  /\ awaiting' = None /\ pc' = "liquidate"
  /\ UNCHANGED <<latest, response, todo, candidates, submitted>>
  /\ WorldStays /\ UNCHANGED <<scanner, history>>

EndExecute ==
  /\ pc = "liquidate"
  /\ candidates = {} \/ ~ BelowCap
  /\ EndIteration
  /\ WorldStays /\ UNCHANGED <<scanner, history, disturbed>>

-------------------------------------------------------------------------------
(* The process, the vault and the market *)

\* The process stops at any point and starts again with nothing remembered
Restart(start) ==
  /\ Disturb
  /\ startLedger' = start
  /\ positions' = {} /\ seen' = {} /\ lastSeen' = None
  /\ firstLedger' = None /\ missed' = {}
  /\ userAssets' = [u \in User |-> None]
  /\ pc' = "latest" /\ latest' = 0 /\ response' = {} /\ todo' = {}
  /\ candidates' = {} /\ awaiting' = None /\ submitted' = 0
  /\ UNCHANGED <<ledger, vault, market, mempool>>

Emit(u, a) == events' = Append(events, [ledger |-> ledger, user |-> u, asset |-> a])

Deposit(u, a) ==
  /\ Len(events) < MaxEvents
  /\ debt' = [debt EXCEPT ![u] = IF @ = None THEN 0 ELSE @]
  /\ Emit(u, a)
  /\ UNCHANGED <<ledger, market, mempool, scanner, history, startLedger, iteration,
                 disturbed>>

\* A borrow, a repayment, a withdrawal, another's liquidation: of a position
\* that is open, and may be closed
Change(u, d) ==
  /\ Len(events) < MaxEvents
  /\ debt[u] # None
  /\ debt' = [debt EXCEPT ![u] = d]
  /\ Emit(u, None)
  /\ UNCHANGED <<ledger, market, mempool, scanner, history, startLedger, iteration,
                 disturbed>>

\* A transaction of the bot is applied, or refused as things are by now
Apply(tx) ==
  /\ tx \in mempool
  /\ mempool' = mempool \ {tx}
  /\ IF VaultAccepts(tx.user, tx.repay)
     THEN /\ debt' = [debt EXCEPT ![tx.user] = @ - Payment(tx.user, tx.repay)]
          /\ funds' = funds - Payment(tx.user, tx.repay)
          /\ Emit(tx.user, None)
     ELSE UNCHANGED <<debt, funds, events>>
  /\ UNCHANGED <<ledger, health, scanner, history, startLedger, iteration,
                 disturbed>>

\* Prices and interest move health factors, the operator moves funds
MarketMoves(u, h, f) ==
  /\ Disturb
  /\ health' = [health EXCEPT ![u] = h] /\ funds' = f
  /\ UNCHANGED <<ledger, vault, mempool, scanner, history, startLedger, iteration>>

\* Ledgers without events of the vault are left out.
CloseLedger ==
  /\ \E i \in DOMAIN events : events[i].ledger = ledger
  /\ ledger' = ledger + 1
  /\ UNCHANGED <<vault, market, mempool, scanner, history, startLedger, iteration,
                 disturbed>>

\* What the loop does as long as the process lives: every call ends, with an
\* answer or by its timeout.
BotStep ==
  \/ Wake \/ LatestLedger \/ GetEvents \/ EndScan \/ ReadPoolConfig
  \/ \E i \in response : SkipSeenEvent(i) \/ HandleEvent(i)
  \/ \E t \in todo : Assess(t) \/ AssessRefused(t)
  \/ \E c \in candidates : SkipCandidate(c) \/ Submit(c)
  \/ Confirmed \/ Expired \/ EndExecute

Failure ==
  \/ CallFails \/ WaitFails
  \/ \E i \in response : PositionFails(i)
  \/ \E c \in candidates : BalanceFails(c) \/ LiquidateFails(c)

World ==
  \/ \E u \in User, a \in Asset : Deposit(u, a)
  \/ \E u \in User, d \in Debts \cup {None} : Change(u, d)
  \/ \E tx \in mempool : Apply(tx)
  \/ \E u \in User, h \in Health, f \in Funds : MarketMoves(u, h, f)
  \/ \E s \in StartLedgers : Restart(s)
  \/ CloseLedger

Next == BotStep \/ Failure \/ World

\* run_iteration is called again and again, and ledgers go on closing.
Spec == Init /\ [][Next]_vars /\ WF_vars(BotStep) /\ WF_vars(CloseLedger)

-------------------------------------------------------------------------------
(* Properties *)

\* Types; a transaction is awaited exactly while the loop waits, and there are
\* events, positions and candidates to handle only in their phases.
TypeOK ==
  /\ ledger \in Nat \ {0} /\ events \in Seq(Event)
  /\ debt \in [User -> Debts \cup {None}]
  /\ health \in [User -> Health] /\ funds \in Nat
  /\ mempool \subseteq Transaction
  /\ positions \subseteq TrackedPosition /\ seen \subseteq DOMAIN events
  /\ userAssets \in [User -> Asset \cup {None}]
  /\ lastSeen \in Nat \cup {None} /\ firstLedger \in Nat \cup {None}
  /\ startLedger \in StartLedgers
  /\ pc \in Calls \cup {"sleep"} /\ latest \in Nat
  /\ response \subseteq DOMAIN events /\ (response # {} => pc = "position")
  /\ todo \subseteq positions /\ (todo # {} => pc = "health")
  /\ candidates \subseteq HealthAssessment
  /\ (candidates # {} => pc \in {"health", "liquidate", "wait"})
  /\ awaiting \in Transaction \cup {None} /\ (awaiting # None <=> pc = "wait")
  /\ submitted \in 0 .. MaxLiquidationsPerRun /\ missed \subseteq User
  /\ disturbed \in 0 .. MaxDisturbances

\* The scanner has gone past all events of the user, and began before one of them.
Scanned(u) ==
  /\ lastSeen # None
  /\ \A i \in DOMAIN events :
       events[i].user = u => events[i].ledger <= lastSeen /\ i \notin response
  /\ \E i \in DOMAIN events :
       events[i].user = u /\ events[i].ledger >= firstLedger

\* An open position is in the index with the debt the vault stores, a closed one
\* is not.
Indexed(u) ==
  LET entries == {t \in positions : t.user = u}
  IN  IF debt[u] = None THEN entries = {}
      ELSE \E t \in entries : t.debt = debt[u]

\* The index is right about every user whose events are all scanned, except for those
\* with an event that was passed over: when reading their position failed, or a
\* page, or a scan that such a failure stopped, ended within a ledger.
IndexAccurate == \A u \in User : Scanned(u) /\ u \notin missed => Indexed(u)

\* The bot maintains an in-memory index of the positions to watch.
IndexComplete == \A u \in User : Scanned(u) => Indexed(u)

\* A position the bot can know of, below the health factor and worth it
Due(u) ==
  /\ missed = {}
  /\ debt[u] # None /\ HealthFactor(u) < HealthOne
  /\ WorthIt(debt[u] \div 2) /\ funds >= debt[u] \div 2
  /\ \E i \in DOMAIN events :
       /\ events[i].user = u /\ events[i].ledger < ledger
       /\ firstLedger = None \/ events[i].ledger >= firstLedger

Tried(u) == \E tx \in mempool : tx.user = u

\* A position that stays due is tried, although calls fail, the process is restarted,
\* other positions come first, and the vault moves on between the calls.
DueIsTried == \A u \in User : Due(u) ~> (Tried(u) \/ ~ Due(u))

===============================================================================
