----------------------------- MODULE Marketplace -----------------------------
(***************************************************************************)
(* The server: the order service and the catalogue over one database, and  *)
(* what the two promise together.                                          *)
(***************************************************************************)
EXTENDS Catalog, Orders

vars == <<storeVars, workerVars>>

Init == StoreInit /\ OrdersInit

Next ==
    \/ OrdersNext
    \/ CatalogNext /\ UNCHANGED workerVars
    \/ Tick /\ UNCHANGED workerVars

Spec == Init /\ [][Next]_vars

-----------------------------------------------------------------------------
\* Every variable keeps its shape: the tables, the locks, and what a request
\* remembers between two statements.
TypeOK == StoreType /\ OrdersType

Placed == {o \in OrderIds : orders[o] # None}
Standing == {o \in Placed : orders[o].status # "CANCELED"}

\* Units of product p in rows of order items.
UnitsOf(rows, p) == SumFunction([r \in rows |-> IF r.product = p THEN r.qty ELSE 0])

\* Units of product p in orders that are not canceled.
Held(p) == SumFunction([o \in Standing |-> UnitsOf(items[o], p)])

-----------------------------------------------------------------------------
(* What holds when clients send the requests of one caller, and those      *)
(* about one order, one at a time (Serial = {"caller", "order"}). Requests *)
(* of different callers about different orders still race for products,    *)
(* promo codes and locks, and any of them may be cut off at any statement. *)

\* No unit of stock is lost or made: the shelf and the orders not canceled
\* hold together what the sellers supplied (DecrementStock in Create and
\* Update, IncrementStock in Update and Cancel, the rollback of each).
Conservation ==
    \A p \in Products : product[p] # None => product[p].stock + Held(p) = supplied[p]

\* current_uses counts the orders not canceled that carry the code
\* (IncrementPromoUses in Create, DecrementPromoUses in Update and Cancel).
PromoAccounting ==
    \A c \in Codes : promo[c] # None =>
        promo[c].uses = Cardinality({o \in Standing : orders[o].promo = c})

\* A user has at most one active order (GetActiveOrderByUserID in Create).
OneActiveOrder == \A u \in Accounts : Cardinality(ActiveOrders(u)) <= 1

\* Two recorded operations of a user of one type are RateLimit apart, so at no
\* moment are there two of them (checkRateLimit and CreateUserOperation in
\* Create and Update).
OrderSpacing ==
    \A x, y \in ops :
        x # y /\ x.user = y.user /\ x.type = y.type => x.at - y.at \notin -RateLimit + 1 .. RateLimit - 1

\* The amounts of an order are those of the rows it has (DeleteOrderItems,
\* UpdateOrderAmounts and CreateOrderItem in Update).
BilledIsItems == \A o \in Placed : orders[o].billed = items[o]

\* The marketplace seen as an inventory: the committed stock is the shelf, and
\* the rows of an order not canceled are what it holds.
Shelf == [p \in Products |-> IF product[p] = None THEN 0 ELSE product[p].stock]
Stage == [o \in OrderIds |-> IF o \notin Placed THEN "none"
                             ELSE IF o \in Standing THEN "open" ELSE "closed"]
InOrders == [o \in OrderIds |-> [p \in Products |->
                IF o \in Standing THEN UnitsOf(items[o], p) ELSE 0]]

Abstract == INSTANCE Inventory WITH
    shelf <- Shelf,
    stage <- Stage,
    held  <- InOrders

\* Although Create, Update and Cancel take and give back stock row by row, each
\* moves all units of its order at once, never more than there are, and an
\* order that has returned its units never takes any again.
UnitsMoveAtOnce == Abstract!Spec

\* Nothing changes a canceled order any more (the status checks of Update and
\* Cancel, made before their transactions begin).
CanceledFrozen ==
    [][\A o \in Placed \ Standing : orders'[o] = orders[o] /\ items'[o] = items[o]]_vars

\* An update takes the code off an order only when the new rows fall short of
\* its minimum, its window has closed or it is overdrawn, and leaves it on only
\* when neither the minimum nor max_uses says otherwise, the order's own use
\* included (GetPromoCodeByIDForUpdate in Update).
CodeKept ==
    [][\A o \in Standing, c \in Codes :
           orders[o].promo = c /\ orders'[o].billed # orders[o].billed =>
               LET short == Gross(orders'[o].billed) < promo[c].min
                   overdrawn == promo[c].uses > promo[c].max
               IN IF orders'[o].promo = c THEN ~short /\ ~overdrawn
                  ELSE short \/ overdrawn \/ now > promo[c].until]_vars

-----------------------------------------------------------------------------
(* What holds whatever clients send (Serial = {}).                         *)

\* A row of order items is written for a product that is on sale, at the price
\* it has at that moment (GetProductByIDForUpdate keeps the row locked).
SoldAsListed ==
    [][\A o \in OrderIds : \A r \in items'[o] \ items[o] :
           /\ product[r.product] # None
           /\ product[r.product].status = "ACTIVE"
           /\ product[r.product].price = r.price]_vars

DistinctLines(l) == \A i, j \in DOMAIN l : i # j => l[i].product # l[j].product

\* When the lines name different products, the check of the code against the
\* locked rows is enough: the CHECK of the table never refuses DecrementStock.
StockCheckSuffices ==
    \A w \in Workers :
        pc[w] = "stock" /\ ~Short(w) /\ DistinctLines(call[w].lines) => StockCheck(w)

\* A code is overdrawn by at most the other requests in flight: each of them
\* read current_uses < max_uses at most once (GetPromoCodeByCode in Create).
OverdraftBound ==
    \A c \in Codes : promo[c] # None => promo[c].uses <= promo[c].max + Cardinality(Workers) - 1

\* A user has at most as many active orders as requests fit in flight.
ActiveBound == \A u \in Accounts : Cardinality(ActiveOrders(u)) <= Cardinality(Workers)

\* In a span of RateLimit ticks a user records at most as many operations of a
\* type as requests fit in flight: each has passed checkRateLimit before the
\* first of them was committed, however much later it began or ended.
RateBound ==
    \A x \in ops :
        Cardinality({y \in ops : /\ y.user = x.user /\ y.type = x.type
                                /\ y.at - x.at \in 0 .. RateLimit - 1}) <= Cardinality(Workers)

-----------------------------------------------------------------------------
(* What the README and the API description promise of all requests, and    *)
(* only holds of some.                                                     *)

\* max_uses is the largest number of uses of a code (GetPromoCodeByCode reads
\* it without a lock, IncrementPromoUses does not look at it again).
PromoCap == \A c \in Codes : promo[c] # None => promo[c].uses <= promo[c].max

\* total_amount and discount_amount add up to the sum of the rows of the order.
AmountsMatch == \A o \in Placed : Gross(orders[o].billed) = Gross(items[o])

-----------------------------------------------------------------------------
(* Liveness. *)

\* Workers run, PostgreSQL queues those that wait for a row, and its deadlock
\* detector runs; clients owe nothing, and nothing has to fail.
Fairness ==
    /\ \A w \in Workers : SF_vars(Serve(w))
    /\ WF_vars(\E w \in Workers : DeadlockAbort(w))

FairSpec == Spec /\ Fairness

\* Every request is answered, those caught in a circle of locks too.
Answered == \A w \in Workers : Busy(w) ~> ~Busy(w)
=============================================================================
