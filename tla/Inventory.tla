------------------------------ MODULE Inventory ------------------------------
(***************************************************************************)
(* What the marketplace promises about stock, without transactions, locks  *)
(* or requests: a unit is on the shelf or in one order, and an order takes,*)
(* exchanges and gives back all its units in one step.                     *)
(***************************************************************************)
EXTENDS Integers

CONSTANTS Products, OrderIds

VARIABLES
    shelf,      \* units for sale, by product
    stage,      \* of an order: "none" before it is made, "open", then "closed"
    held,       \* units of an order, by product
    supplied    \* units the sellers have put on the shelf so far, by product

vars == <<shelf, stage, held, supplied>>

Units == [Products -> Nat]
Nothing == [p \in Products |-> 0]

Init ==
    /\ shelf \in Units
    /\ stage = [o \in OrderIds |-> "none"]
    /\ held = [o \in OrderIds |-> Nothing]
    /\ supplied = shelf

\* Order o comes to hold h; what it gains the shelf loses, and can afford.
Settle(o, h) ==
    /\ held' = [held EXCEPT ![o] = h]
    /\ shelf' = [p \in Products |-> shelf[p] + held[o][p] - h[p]]
    /\ shelf' \in Units
    /\ UNCHANGED supplied

Wanted(h) == h \in Units \ {Nothing}

Allocate(o) ==
    /\ stage[o] = "none"
    /\ stage' = [stage EXCEPT ![o] = "open"]
    /\ Wanted(held'[o])
    /\ Settle(o, held'[o])

Exchange(o) ==
    /\ stage[o] = "open"
    /\ UNCHANGED stage
    /\ Wanted(held'[o])
    /\ Settle(o, held'[o])

Release(o) ==
    /\ stage[o] = "open"
    /\ stage' = [stage EXCEPT ![o] = "closed"]
    /\ Settle(o, Nothing)

\* A seller states how many units are on the shelf from now on.
Supply(p) ==
    /\ shelf' \in Units
    /\ shelf' = [shelf EXCEPT ![p] = shelf'[p]]
    /\ supplied' = [supplied EXCEPT ![p] = @ + shelf'[p] - shelf[p]]
    /\ UNCHANGED <<stage, held>>

Next ==
    \/ \E o \in OrderIds : Allocate(o) \/ Exchange(o) \/ Release(o)
    \/ \E p \in Products : Supply(p)

Spec == Init /\ [][Next]_vars
=============================================================================
