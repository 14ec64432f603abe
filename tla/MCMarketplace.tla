---------------------------- MODULE MCMarketplace ----------------------------
(***************************************************************************)
(* Small instances of Marketplace, for the .cfg files of this directory.   *)
(***************************************************************************)
EXTENDS MarketplaceInv, TLC

CONSTANTS
    u, adm, p1, p2,
    opens       \* the time by which the administrator has filled the catalogue

MCRole == (u :> "USER") @@ (adm :> "ADMIN")
OneCaller == (u :> "USER") @@ (adm :> "SELLER")

NoInputs == {}

\* Lines of request bodies.
Just(p, n) == <<[product |-> p, qty |-> n]>>
Both(p, q) == <<[product |-> p, qty |-> 1], [product |-> q, qty |-> 1]>>

OneUnit == {Just(p1, 1)}
EitherUnit == {Just(p1, 1), Just(p2, 1)}
OneOrMore == {Just(p1, 1), <<[product |-> p2, qty |-> 1], [product |-> p1, qty |-> 2]>>}
Amounts == {Just(p1, 2), Just(p2, 2), Just(p2, 1)}
Crossing == {Both(p1, p2), Both(p2, p1)}
OnlyBoth == {Both(p2, p1)}

\* Bodies of catalogue requests.
Stock2 == {[price |-> 1, stock |-> 2]}
Stock3 == {[price |-> 1, stock |-> 3]}
Changes == {[price |-> 2, stock |-> n, status |-> "ACTIVE"] : n \in {0, 1}}
OneUse == {[max |-> 1, min |-> 2, from |-> 0, until |-> 1]}
AnyOrder == {[max |-> 1, min |-> 0, from |-> 0, until |-> 2]}

\* A state of Spec: the administrator has filled the catalogue.
StockedInit ==
    /\ OrdersInit
    /\ now = opens
    /\ \E in \in ProductInputs :
          /\ product = [p \in Products |->
               [seller |-> adm, price |-> in.price, stock |-> in.stock, status |-> "ACTIVE"]]
          /\ supplied = [p \in Products |-> in.stock]
    /\ promo \in [Codes -> {[max |-> in.max, min |-> in.min, from |-> in.from,
                             until |-> in.until, uses |-> 0] : in \in PromoInputs}]
    /\ orders = [o \in OrderIds |-> None]
    /\ items = [o \in OrderIds |-> {}]
    /\ ops = {}
    /\ lock = [k \in Lockable |-> None]

StockedSpec == StockedInit /\ [][Next]_vars
StockedFairSpec == StockedSpec /\ Fairness

\* Requests are handled alike, and the ids of orders are random.
Symmetry == Permutations(Workers) \cup Permutations(OrderIds)
=============================================================================
