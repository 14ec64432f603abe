---------------------------- MODULE MarketplaceInv ----------------------------
(***************************************************************************)
(* The inductive invariant behind the theorems of MarketplaceProof: which  *)
(* locks a request holds at each statement, and what it may rely on while  *)
(* it holds them.                                                          *)
(***************************************************************************)
EXTENDS Marketplace

\* The foreign keys of order_items and orders: rows name products and promo
\* codes that exist.
References ==
    /\ \A o \in OrderIds : \A r \in items[o] : product[r.product] # None
    /\ \A o \in Placed : orders[o].promo # None => promo[orders[o].promo] # None

\* A request that is over, or not yet begun, leaves nothing behind.
IdleClean(w) ==
    pc[w] = "idle" => /\ call[w] = None
                      /\ tx[w] = NoTx
                      /\ \A k \in Lockable : lock[k] # w

\* Which operations reach a statement, and what they know by then.
Reaches(w) ==
    /\ pc[w] # "idle" => call[w] # None
    /\ pc[w] \in {"active", "claim"} => call[w].op = "create"
    /\ pc[w] \in {"order", "items", "restore", "delete"} => call[w].op # "create"
    /\ pc[w] \in {"limit", "lines", "stock"} => call[w].op \in {"create", "update"}
    /\ pc[w] \in {"restore", "promo", "write"} => call[w].op # "get"
    /\ pc[w] = "delete" => call[w].op = "update"
    /\ pc[w] # "idle" /\ call[w].op # "create" => call[w].order # None
    /\ pc[w] \notin {"idle", "order"} /\ call[w].op # "create" =>
           /\ tx[w].seen # None
           /\ orders[call[w].order] # None
           /\ tx[w].seen.promo # None => promo[tx[w].seen.promo] # None

\* The rows still to restore name products that exist.
Restores(w) ==
    /\ pc[w] = "restore" => tx[w].next # None /\ product[tx[w].next.product] # None
    /\ \A r \in tx[w].todo : product[r.product] # None

\* The lines are read one by one, each once.
Progress(w) ==
    /\ pc[w] \in {"limit", "active", "items", "restore", "order"} => tx[w].entries = <<>>
    /\ pc[w] = "lines" => Len(tx[w].entries) < Len(call[w].lines)
    /\ pc[w] = "stock" => tx[w].sold < Len(tx[w].entries)
    /\ pc[w] \in {"limit", "active", "items", "restore", "order", "lines"} => tx[w].sold = 0
    /\ pc[w] # "idle" => Len(tx[w].entries) <= Len(call[w].lines)
    /\ pc[w] # "idle" /\ call[w].op \in {"create", "update"} => call[w].lines # <<>>

\* What was read under a lock is still what the table holds.
Snapshot(w) ==
    \A i \in 1 .. Len(tx[w].entries) :
        LET e == tx[w].entries[i]
        IN /\ lock[e.product] = w
           /\ product[e.product] # None
           /\ product[e.product].status = "ACTIVE"
           /\ product[e.product].price = e.price
           /\ e.product = call[w].lines[i].product

\* Stock is changed under the lock of the row and stays a stock.
StockLocked(w) ==
    \A p \in Products : tx[w].delta[p] # 0 =>
        /\ lock[p] = w
        /\ product[p] # None
        /\ product[p].stock + tx[w].delta[p] >= 0

\* A promo code is counted under the lock of its row, and only by a request
\* that has nothing left to wait for.
PromoLocked(w) ==
    /\ tx[w].uses # 0 =>
           /\ pc[w] \in {"delete", "write"}
           /\ PromoOf(w) # None
           /\ lock[PromoOf(w)] = w
           /\ promo[PromoOf(w)] # None
           /\ promo[PromoOf(w)].uses + tx[w].uses >= 0
    /\ tx[w].keep => /\ pc[w] \in {"delete", "write"}
                   /\ PromoOf(w) # None
                   /\ promo[PromoOf(w)] # None
    /\ pc[w] = "promo" => PromoOf(w) # None
    /\ pc[w] = "claim" => call[w].code # None /\ promo[call[w].code] # None

\* Lines of different products find their stock as they read it.
StockAsRead(w) ==
    pc[w] \in {"lines", "stock"} /\ DistinctLines(call[w].lines) =>
        \A i \in tx[w].sold + 1 .. Len(tx[w].entries) :
            StockSeen(w, tx[w].entries[i].product) = tx[w].entries[i].stock

WorkerInv(w) ==
    /\ IdleClean(w)
    /\ Reaches(w)
    /\ Restores(w)
    /\ Progress(w)
    /\ Snapshot(w)
    /\ StockLocked(w)
    /\ PromoLocked(w)
    /\ StockAsRead(w)

IInv == TypeOK /\ References /\ \A w \in Workers : WorkerInv(w)

-----------------------------------------------------------------------------
(* What holds besides when clients send the requests of one caller, and    *)
(* those about one order, one at a time.                                   *)

\* Requests in flight have callers and orders of their own.
Disjoint ==
    \A v, w \in Workers : v # w /\ Busy(v) /\ Busy(w) =>
        /\ call[v].caller # call[w].caller
        /\ call[v].order = None \/ call[v].order # call[w].order

\* The last operation of the caller is old enough at the moment t.
Spaced(w, t) ==
    \A x \in ops :
        /\ x.user = call[w].caller
        /\ x.type = IF call[w].op = "create" THEN "CREATE_ORDER" ELSE "UPDATE_ORDER"
        => RateLimit <= t - x.at

InTransaction == {"restore", "lines", "stock", "promo", "claim", "delete", "write"}

\* What a request has decided on, in reads that no lock protects, is still so.
Decided(w) ==
    /\ pc[w] \in {"active", "items"} /\ call[w].op \in {"create", "update"} => Spaced(w, now)
    /\ pc[w] \in InTransaction /\ call[w].op \in {"create", "update"} => Spaced(w, tx[w].began)
    /\ pc[w] \in InTransaction /\ call[w].op = "create" => ActiveOrders(call[w].caller) = {}
    /\ pc[w] \notin {"idle", "order"} /\ call[w].op \in {"update", "cancel"} =>
           call[w].order \in Standing
    /\ pc[w] = "write" /\ call[w].op = "update" => tx[w].doomed = items[call[w].order]

\* OneActiveOrder, without counting.
OneAtMost == \A u \in Accounts : \A o, q \in ActiveOrders(u) : o = q

SerialInv ==
    /\ Disjoint
    /\ \A w \in Workers : Decided(w)
    /\ OneAtMost
    /\ BilledIsItems
    /\ OrderSpacing

-----------------------------------------------------------------------------
(* What the open transactions of such clients owe to the stock and to the  *)
(* promo codes, exactly.                                                   *)

FiniteTables == IsFiniteSet(Placed) /\ \A o \in OrderIds : IsFiniteSet(items[o])

\* Units of product p that w has taken off the stock.
Taken(w, p) ==
    SumFunctionOnSet([i \in 1 .. Len(tx[w].entries) |->
                         IF tx[w].entries[i].product = p THEN tx[w].entries[i].qty ELSE 0],
                     1 .. tx[w].sold)

\* The old rows whose units w has given back.
PutBack(w) ==
    IF call[w].op = "create" THEN {} ELSE items[call[w].order] \ (tx[w].todo \cup {tx[w].next})

\* Each old row is given back once, and each line is taken once.
Restoring(w) ==
    /\ pc[w] = "restore" => /\ tx[w].todo \subseteq items[call[w].order]
                            /\ tx[w].next \in items[call[w].order] \ tx[w].todo
    /\ pc[w] # "restore" => tx[w].todo = {} /\ tx[w].next = None
    /\ call[w] # None /\ call[w].op = "cancel" => tx[w].sold = 0
    /\ pc[w] \in {"promo", "claim", "delete", "write"} /\ call[w].op # "cancel" =>
           tx[w].entries # <<>> /\ tx[w].sold = Len(tx[w].entries)

\* The uncommitted changes of stock.
StockOwed(w) ==
    \A p \in Products :
        tx[w].delta[p] = IF pc[w] \in InTransaction THEN UnitsOf(PutBack(w), p) - Taken(w, p) ELSE 0

\* The promo code of an order is counted while the order keeps it.
PromoOwed(w) ==
    /\ pc[w] \notin {"idle", "order"} /\ call[w].op # "create" =>
           tx[w].seen.promo = orders[call[w].order].promo
    /\ pc[w] = "write" /\ call[w].op = "create" => tx[w].keep = (call[w].code # None)
    /\ pc[w] = "write" /\ call[w].op = "create" => tx[w].uses = IF tx[w].keep THEN 1 ELSE 0
    /\ pc[w] \in {"delete", "write"} /\ call[w].op = "update" =>
           tx[w].uses = IF tx[w].keep \/ tx[w].seen.promo = None THEN 0 ELSE -1
    /\ pc[w] = "write" /\ call[w].op = "cancel" =>
           tx[w].uses = IF tx[w].seen.promo = None THEN 0 ELSE -1

Ledger(w) == Restoring(w) /\ StockOwed(w) /\ PromoOwed(w)

\* Nothing of a product is supplied before it exists.
Unlisted == \A p \in Products : product[p] = None => supplied[p] = 0

AccountInv ==
    /\ FiniteTables
    /\ \A w \in Workers : Ledger(w)
    /\ Unlisted
    /\ Conservation
    /\ PromoAccounting

-----------------------------------------------------------------------------
(* What limits the number of requests that have passed a check which the   *)
(* commits of others outdate (any clients).                                *)

\* w has found a use of code c left, and counts one if it commits.
Claims(w, c) ==
    /\ call[w] # None
    /\ call[w].op = "create"
    /\ call[w].code = c
    /\ pc[w] = "claim" \/ tx[w].uses = 1

\* w has found no active order of u, and makes one if it commits.
Creates(w, u) ==
    /\ pc[w] \in InTransaction
    /\ call[w].op = "create"
    /\ call[w].caller = u

Claimants(c) == {w \in Workers : Claims(w, c)}
Creators(u) == {w \in Workers : Creates(w, u)}

\* Only Create counts a use; Update and Cancel give uses back.
CreatesCount(w) == tx[w].uses = 1 => call[w] # None /\ call[w].op = "create"

\* The uses of c, with those that will be counted.
UsesBelow(c) ==
    promo[c] # None =>
        promo[c].uses + Cardinality(Claimants(c)) <= promo[c].max + Cardinality(Workers) - 1

\* The active orders of u, with those that will be made.
OrdersBelow(u) ==
    /\ IsFiniteSet(ActiveOrders(u))
    /\ Cardinality(ActiveOrders(u)) + Cardinality(Creators(u)) <= Cardinality(Workers)

CountInv ==
    /\ \A w \in Workers : CreatesCount(w)
    /\ \A c \in Codes : UsesBelow(c)
    /\ \A u \in Accounts : OrdersBelow(u)

Kind(w) == IF call[w].op = "create" THEN "CREATE_ORDER" ELSE "UPDATE_ORDER"

\* The operations recorded in the span of RateLimit ticks that begins at t.
Recorded(u, type, t) ==
    {x \in ops : x.user = u /\ x.type = type /\ x.at - t \in 0 .. RateLimit - 1}

\* w has passed checkRateLimit, and if it commits it records, or may still
\* record, an operation in that span.
Records(w, u, type, t) ==
    /\ call[w] # None
    /\ call[w].op \in {"create", "update"}
    /\ call[w].caller = u
    /\ Kind(w) = type
    /\ \/ pc[w] \in {"active", "items"} /\ now - t < RateLimit
       \/ pc[w] \in InTransaction /\ tx[w].began - t \in 0 .. RateLimit - 1

Recorders(u, type, t) == {w \in Workers : Records(w, u, type, t)}

\* The operations of a span, with those that may be recorded in it.
RateBelow(u, type, t) ==
    /\ IsFiniteSet(Recorded(u, type, t))
    /\ Cardinality(Recorded(u, type, t)) + Cardinality(Recorders(u, type, t))
           <= Cardinality(Workers)

RateInv == \A u \in Accounts, type \in OperationType, t \in Nat : RateBelow(u, type, t)
=============================================================================
