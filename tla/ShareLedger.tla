------------------------------ MODULE ShareLedger ------------------------------
(***************************************************************************)
(* What a share token promises its holders, whatever its entry points are: *)
(* shares come into being and disappear only together with the supply that *)
(* counts them, and otherwise only move from one holder to another.        *)
(***************************************************************************)
EXTENDS Integers

CONSTANTS
  Address,    \* who can hold shares
  MaxSupply   \* largest number of shares

VARIABLES
  supply,    \* number of shares in existence
  holdings   \* shares of each address

vars == <<supply, holdings>>

Init ==
  /\ supply = 0
  /\ holdings = [a \in Address |-> 0]

Issue(to, n) ==
  /\ supply + n <= MaxSupply
  /\ supply' = supply + n
  /\ holdings' = [holdings EXCEPT ![to] = @ + n]

Retire(from, n) ==
  /\ n <= holdings[from]
  /\ supply' = supply - n
  /\ holdings' = [holdings EXCEPT ![from] = @ - n]

Move(from, to, n) ==
  /\ from # to
  /\ n <= holdings[from]
  /\ holdings' = [holdings EXCEPT ![from] = @ - n, ![to] = @ + n]
  /\ UNCHANGED supply

Next ==
  \E n \in 1 .. MaxSupply :
    \/ \E to \in Address : Issue(to, n)
    \/ \E from \in Address : Retire(from, n)
    \/ \E from, to \in Address : Move(from, to, n)

Spec == Init /\ [][Next]_vars
===============================================================================
