------------------------------- MODULE Orders --------------------------------
(***************************************************************************)
(* OrderService (service/orders.go): the handling of POST /orders and of   *)
(* GET, PUT and POST .../cancel on /orders/{id}, one request per worker.   *)
(*                                                                         *)
(* Every SQL statement that reads or locks something another transaction   *)
(* may change is a step of its own, and steps of different workers         *)
(* interleave freely. A transaction keeps what it has written in tx (delta *)
(* and uses), where only itself sees it, and CommitX makes it visible. The *)
(* statements after the last wait for a product or promo row (the write of *)
(* the order row, the INSERTs, COMMIT) are one step: the locks they add    *)
(* are held by a transaction that waits for nothing more.                  *)
(***************************************************************************)
EXTENDS Store, Sequences, FiniteSetsExt

CONSTANTS
    LineLists,  \* the item lists of request bodies: sequences of [product, qty]
    Requests,   \* which order operations clients call: a subset of Ops
    Serial      \* which requests clients send one at a time: those of one "caller",
                \* those about one "order"; {} when they send any at any time

Ops == {"create", "get", "update", "cancel"}

VARIABLES
    pc,         \* the statement a worker runs next
    call,       \* the request a worker handles
    tx          \* its local variables and the writes of its open transaction

workerVars == <<pc, call, tx>>

-----------------------------------------------------------------------------
Labels == {"idle", "order", "limit", "active", "items", "restore", "lines",
           "stock", "promo", "claim", "delete", "write"}

Line == [product : Products, qty : Nat \ {0}]
Entry == [product : Products, qty : Nat \ {0}, price : Nat \ {0}, stock : Int]

Call == [op : Ops, caller : Accounts, order : OrderIds \cup {None},
         lines : Seq(Line), code : Codes \cup {None}]

ASSUME OrdersAssumption ==
    /\ None \notin Call
    /\ LineLists \subseteq Seq(Line)
    /\ \A l \in LineLists : l # <<>>
    /\ Requests \subseteq Ops
    /\ Serial \subseteq {"caller", "order"}

\* began: NOW() of the transaction; seen: the order row read before it; todo and
\* next: old rows whose stock is not given back yet; entries: the product rows
\* read under lock; sold: how many of them are taken off the stock; delta, uses:
\* uncommitted changes of stock and of the uses of the promo code; keep: the
\* order row is written with a promo code; doomed: the rows a DELETE saw.
Tx == [began : Nat, seen : OrderRow \cup {None}, todo : SUBSET ItemRow,
       next : ItemRow \cup {None}, entries : Seq(Entry), sold : Nat,
       delta : [Products -> Int], uses : -1 .. 1, keep : BOOLEAN, doomed : SUBSET ItemRow]

NoTx == [began |-> 0, seen |-> None, todo |-> {}, next |-> None, entries |-> <<>>, sold |-> 0,
         delta |-> [p \in Products |-> 0], uses |-> 0, keep |-> FALSE, doomed |-> {}]

OrdersType ==
    /\ pc \in [Workers -> Labels]
    /\ call \in [Workers -> Call \cup {None}]
    /\ tx \in [Workers -> Tx]

OrdersInit ==
    /\ pc = [w \in Workers |-> "idle"]
    /\ call = [w \in Workers |-> None]
    /\ tx = [w \in Workers |-> NoTx]

-----------------------------------------------------------------------------
(* What the statements of one request read. *)

Busy(w) == pc[w] # "idle"

\* The order amounts are sums over rows of price_at_order * quantity.
Gross(rows) == MapThenSumSet(LAMBDA r : r.price * r.qty, rows)

\* The promo code at stake: the one of the body, or the one of the order row.
PromoOf(w) == IF call[w].op = "create" THEN call[w].code ELSE tx[w].seen.promo

\* The stock of a product as the transaction of w sees it.
StockSeen(w, p) == product[p].stock + tx[w].delta[p]

CurrentLine(w) == call[w].lines[Len(tx[w].entries) + 1]
CurrentSale(w) == tx[w].entries[tx[w].sold + 1]

NewRows(w, b) ==
    {[batch |-> b, line |-> i, product |-> tx[w].entries[i].product,
      qty |-> tx[w].entries[i].qty, price |-> tx[w].entries[i].price] :
        i \in 1 .. Len(tx[w].entries)}

NextBatch(o) == {b \in {1} \cup {r.batch + 1 : r \in items[o]} : \A r \in items[o] : r.batch < b}

-----------------------------------------------------------------------------
(* Control: how a step leaves the worker. *)

GoTo(w, label) == pc' = [pc EXCEPT ![w] = label] /\ UNCHANGED call

\* The service method returns; a transaction still open is rolled back.
Return(w) ==
    /\ pc' = [pc EXCEPT ![w] = "idle"]
    /\ call' = [call EXCEPT ![w] = None]
    /\ tx' = [tx EXCEPT ![w] = NoTx]
    /\ ReleaseLocks(w)

AfterStock(w) ==
    IF PromoOf(w) # None THEN "promo"
    ELSE IF call[w].op = "create" THEN "write" ELSE "delete"

AfterRestore(w) ==
    IF call[w].op = "update" THEN "lines"
    ELSE IF PromoOf(w) # None THEN "promo" ELSE "write"

-----------------------------------------------------------------------------
(* A request arrives. *)

Callers == {u \in Accounts : Role[u] \in {"USER", "ADMIN"}}

Alone(c) ==
    \A v \in Workers : Busy(v) =>
        /\ "caller" \in Serial => call[v].caller # c.caller
        /\ "order" \in Serial => c.order = None \/ call[v].order # c.order

Start(w, c, label) ==
    /\ pc[w] = "idle"
    /\ Alone(c)
    /\ pc' = [pc EXCEPT ![w] = label]
    /\ call' = [call EXCEPT ![w] = c]
    /\ UNCHANGED <<tx, storeVars>>

\* Bound: a request that creates an order starts while an order id is left for it.
IdLeft == Cardinality({v \in Workers : call[v] # None /\ call[v].op = "create"})
             < Cardinality({o \in OrderIds : orders[o] = None})

StartCreate(w) ==
    /\ "create" \in Requests
    /\ IdLeft
    /\ \E u \in Callers, l \in LineLists, k \in Codes \cup {None} :
           Start(w, [op |-> "create", caller |-> u, order |-> None, lines |-> l, code |-> k], "limit")

StartUpdate(w) ==
    /\ "update" \in Requests
    /\ \E u \in Callers, o \in OrderIds, l \in LineLists :
           Start(w, [op |-> "update", caller |-> u, order |-> o, lines |-> l, code |-> None], "order")

StartOther(w) ==
    \E u \in Callers, o \in OrderIds, op \in Requests \cap {"get", "cancel"} :
        Start(w, [op |-> op, caller |-> u, order |-> o, lines |-> <<>>, code |-> None], "order")

-----------------------------------------------------------------------------
(* GetOrderByID, outside the transaction, then ownership and status. *)

\* Mutant: Update does not look at the status.
MayTouchAnyStatus(w) ==
    LET row == orders[call[w].order]
    IN /\ row # None
       /\ Role[call[w].caller] = "ADMIN" \/ row.user = call[w].caller
       /\ call[w].op = "cancel" => row.status \in {"CREATED", "PAYMENT_PENDING"}

MayTouch(w) ==
    LET row == orders[call[w].order]
    IN /\ row # None
       /\ Role[call[w].caller] = "ADMIN" \/ row.user = call[w].caller
       /\ call[w].op = "update" => row.status = "CREATED"
       /\ call[w].op = "cancel" => row.status \in {"CREATED", "PAYMENT_PENDING"}

GetOrderByID(w) ==
    /\ pc[w] = "order"
    /\ MayTouch(w)
    /\ tx' = [tx EXCEPT ![w].seen = orders[call[w].order]]
    /\ GoTo(w, IF call[w].op = "update" THEN "limit" ELSE "items")
    /\ UNCHANGED storeVars

-----------------------------------------------------------------------------
(* checkRateLimit, outside the transaction too. *)

Limited(w) ==
    RecentOperation(call[w].caller,
                    IF call[w].op = "create" THEN "CREATE_ORDER" ELSE "UPDATE_ORDER")

\* Mutant: the last operation is not looked at.
CheckNoLimit(w) ==
    /\ pc[w] = "limit"
    /\ GoTo(w, IF call[w].op = "create" THEN "active" ELSE "items")
    /\ UNCHANGED <<tx, storeVars>>

CheckRateLimit(w) ==
    /\ pc[w] = "limit"
    /\ ~Limited(w)
    /\ GoTo(w, IF call[w].op = "create" THEN "active" ELSE "items")
    /\ UNCHANGED <<tx, storeVars>>

\* Mutant: an active order does not stop the request.
GetAnyActiveOrder(w) ==
    /\ pc[w] = "active"
    /\ tx' = [tx EXCEPT ![w].began = now]
    /\ GoTo(w, "lines")
    /\ UNCHANGED storeVars

\* BEGIN, then the read that must find no active order of the caller.
GetActiveOrder(w) ==
    /\ pc[w] = "active"
    /\ ActiveOrders(call[w].caller) = {}
    /\ tx' = [tx EXCEPT ![w].began = now]
    /\ GoTo(w, "lines")
    /\ UNCHANGED storeVars

-----------------------------------------------------------------------------
(* GetOrderItems: the last statement of Get, the first one after BEGIN of   *)
(* Update and Cancel. The order of the rows' random ids is settled row by   *)
(* row, in next.                                                            *)

AnswerGet(w) ==
    /\ pc[w] = "items"
    /\ call[w].op = "get"
    /\ Return(w)
    /\ UNCHANGED <<now, tables, supplied>>

\* r: the row to restore now, out of the rows of rest; None when none is left.
RestoreNext(w, rest, r) ==
    /\ r \in rest \/ (rest = {} /\ r = None)
    /\ GoTo(w, IF r = None THEN AfterRestore(w) ELSE "restore")

\* Mutant: only the first row is read.
GetOneOrderItem(w) ==
    /\ pc[w] = "items"
    /\ call[w].op # "get"
    /\ \E r \in items[call[w].order] \cup {None} :
           /\ RestoreNext(w, items[call[w].order], r)
           /\ tx' = [tx EXCEPT ![w].began = now, ![w].next = r]
    /\ UNCHANGED storeVars

GetOrderItems(w) ==
    /\ pc[w] = "items"
    /\ call[w].op # "get"
    /\ LET rows == items[call[w].order]
       IN \E r \in rows \cup {None} :
              /\ RestoreNext(w, rows, r)
              /\ tx' = [tx EXCEPT ![w].began = now, ![w].next = r, ![w].todo = rows \ {r}]
    /\ UNCHANGED storeVars

IncrementStock(w) ==
    /\ pc[w] = "restore"
    /\ LET old == tx[w].next
       IN /\ CanLock(w, old.product)
          /\ TakeLock(w, old.product)
          /\ \E r \in tx[w].todo \cup {None} :
                 /\ RestoreNext(w, tx[w].todo, r)
                 /\ tx' = [tx EXCEPT ![w].delta[old.product] = @ + old.qty,
                                     ![w].next = r, ![w].todo = @ \ {r}]
    /\ UNCHANGED <<now, tables, supplied>>

-----------------------------------------------------------------------------
(* The lines of the body, in the order of the body. *)

ReadsProduct(w) ==
    /\ pc[w] = "lines"
    /\ product[CurrentLine(w).product] # None
    /\ CanLock(w, CurrentLine(w).product)

\* Mutant: a SELECT without FOR UPDATE.
GetProductUnlocked(w) ==
    LET line == CurrentLine(w)
        p == line.product
    IN /\ pc[w] = "lines"
       /\ product[p] # None
       /\ product[p].status = "ACTIVE"
       /\ tx' = [tx EXCEPT ![w].entries = Append(@,
              [product |-> p, qty |-> line.qty, price |-> product[p].price,
               stock |-> StockSeen(w, p)])]
       /\ GoTo(w, IF Len(tx[w].entries) + 1 = Len(call[w].lines) THEN "stock" ELSE "lines")
       /\ UNCHANGED storeVars

GetProductForUpdate(w) ==
    LET line == CurrentLine(w)
        p == line.product
    IN /\ ReadsProduct(w)
       /\ product[p].status = "ACTIVE"
       /\ TakeLock(w, p)
       /\ tx' = [tx EXCEPT ![w].entries = Append(@,
              [product |-> p, qty |-> line.qty, price |-> product[p].price,
               stock |-> StockSeen(w, p)])]
       /\ GoTo(w, IF Len(tx[w].entries) + 1 = Len(call[w].lines) THEN "stock" ELSE "lines")
       /\ UNCHANGED <<now, tables, supplied>>

\* Mutant: off by one.
ShortByTwo(w) ==
    \E i \in 1 .. Len(tx[w].entries) : tx[w].entries[i].stock + 1 < tx[w].entries[i].qty

\* stockErrors of the code: some line asks for more than its row had.
Short(w) ==
    \E i \in 1 .. Len(tx[w].entries) : tx[w].entries[i].stock < tx[w].entries[i].qty

\* CHECK (stock >= 0) of the row that the next UPDATE writes.
StockCheck(w) == CurrentSale(w).qty <= StockSeen(w, CurrentSale(w).product)

\* Mutant: the last line is not taken off the stock.
DecrementAllButLast(w) ==
    /\ pc[w] = "stock"
    /\ ~Short(w)
    /\ StockCheck(w)
    /\ LET last == tx[w].sold + 1 = Len(tx[w].entries)
       IN /\ tx' = [tx EXCEPT ![w].sold = @ + 1,
                       ![w].delta[CurrentSale(w).product] = IF last THEN @ ELSE @ - CurrentSale(w).qty]
          /\ GoTo(w, IF last THEN AfterStock(w) ELSE "stock")
    /\ UNCHANGED storeVars

DecrementStock(w) ==
    /\ pc[w] = "stock"
    /\ ~Short(w)
    /\ StockCheck(w)
    /\ tx' = [tx EXCEPT ![w].sold = @ + 1,
                        ![w].delta[CurrentSale(w).product] = @ - CurrentSale(w).qty]
    /\ GoTo(w, IF tx[w].sold + 1 = Len(tx[w].entries) THEN AfterStock(w) ELSE "stock")
    /\ UNCHANGED storeVars

-----------------------------------------------------------------------------
(* The promo code. Create reads the row without a lock, then counts a use; *)
(* Update reads it under the lock and keeps it or gives the use back;      *)
(* Cancel gives the use back.                                              *)

TotalReaches(w, row) == Gross(NewRows(w, 0)) >= row.min

\* Mutant: one use too many.
PromoFitsOnceMore(w, row) ==
    row # None /\ row.uses <= row.max /\ InWindow(row) /\ TotalReaches(w, row)

PromoFits(w, row) ==
    row # None /\ row.uses < row.max /\ InWindow(row) /\ TotalReaches(w, row)

GetPromoCodeByCode(w) ==
    /\ pc[w] = "promo"
    /\ call[w].op = "create"
    /\ PromoFits(w, promo[call[w].code])
    /\ GoTo(w, "claim")
    /\ UNCHANGED <<tx, storeVars>>

IncrementPromoUses(w) ==
    /\ pc[w] = "claim"
    /\ CanLock(w, call[w].code)
    /\ TakeLock(w, call[w].code)
    /\ tx' = [tx EXCEPT ![w].uses = 1, ![w].keep = TRUE]
    /\ GoTo(w, "write")
    /\ UNCHANGED <<now, tables, supplied>>

\* Mutant: without WHERE current_uses > 0.
RefundAlways(row) == -1

\* UPDATE ... SET current_uses = current_uses - 1 WHERE ... current_uses > 0
Refund(row) == IF row.uses > 0 THEN -1 ELSE 0

\* Mutant: the use is given back and the order keeps the code.
RefundAndKeep(w) ==
    LET k == PromoOf(w)
        fits == /\ promo[k].uses <= promo[k].max
                /\ InWindow(promo[k])
                /\ TotalReaches(w, promo[k])
    IN /\ pc[w] = "promo"
       /\ call[w].op = "update"
       /\ CanLock(w, k)
       /\ TakeLock(w, k)
       /\ tx' = [tx EXCEPT ![w].keep = TRUE, ![w].uses = IF fits THEN 0 ELSE Refund(promo[k])]
       /\ GoTo(w, "delete")
       /\ UNCHANGED <<now, tables, supplied>>

\* Mutant: the check of Create, although the order's own use is counted.
KeepWithUseLeft(w) ==
    LET k == PromoOf(w)
        fits == PromoFits(w, promo[k])
    IN /\ pc[w] = "promo"
       /\ call[w].op = "update"
       /\ CanLock(w, k)
       /\ TakeLock(w, k)
       /\ tx' = [tx EXCEPT ![w].keep = fits, ![w].uses = IF fits THEN 0 ELSE Refund(promo[k])]
       /\ GoTo(w, "delete")
       /\ UNCHANGED <<now, tables, supplied>>

GetPromoCodeForUpdate(w) ==
    LET k == PromoOf(w)
        fits == /\ promo[k].uses <= promo[k].max
                /\ InWindow(promo[k])
                /\ TotalReaches(w, promo[k])
    IN /\ pc[w] = "promo"
       /\ call[w].op = "update"
       /\ CanLock(w, k)
       /\ TakeLock(w, k)
       /\ tx' = [tx EXCEPT ![w].keep = fits, ![w].uses = IF fits THEN 0 ELSE Refund(promo[k])]
       /\ GoTo(w, "delete")
       /\ UNCHANGED <<now, tables, supplied>>

DecrementPromoUses(w) ==
    LET k == PromoOf(w)
    IN /\ pc[w] = "promo"
       /\ call[w].op = "cancel"
       /\ CanLock(w, k)
       /\ TakeLock(w, k)
       /\ tx' = [tx EXCEPT ![w].uses = Refund(promo[k])]
       /\ GoTo(w, "write")
       /\ UNCHANGED <<now, tables, supplied>>

-----------------------------------------------------------------------------
(* The last writes and COMMIT. *)

\* Mutant: the old rows are not deleted.
DeleteNothing(w) ==
    /\ pc[w] = "delete"
    /\ GoTo(w, "write")
    /\ UNCHANGED <<tx, storeVars>>

\* The DELETE of Update removes the rows committed when it starts.
DeleteOrderItems(w) ==
    /\ pc[w] = "delete"
    /\ tx' = [tx EXCEPT ![w].doomed = items[call[w].order]]
    /\ GoTo(w, "write")
    /\ UNCHANGED storeVars

\* The changes of stock and of promo uses become visible.
ApplyWrites(w) ==
    /\ product' = [p \in Products |->
            IF tx[w].delta[p] = 0 THEN product[p]
            ELSE [product[p] EXCEPT !.stock = @ + tx[w].delta[p]]]
    /\ promo' = [c \in Codes |->
            IF tx[w].uses # 0 /\ c = PromoOf(w) THEN [promo[c] EXCEPT !.uses = @ + tx[w].uses]
            ELSE promo[c]]
    /\ Return(w)

\* A key that no operation of the same user, type and moment has.
NextKey(w, type) ==
    LET same == {x \in ops : x.user = call[w].caller /\ x.type = type /\ x.at = tx[w].began}
    IN {k \in {0} \cup {x.key + 1 : x \in same} : \A x \in same : x.key < k}

\* created_at of the operation is the start of the transaction.
Record(w, type) ==
    \E k \in NextKey(w, type) :
        ops' = ops \cup {[user |-> call[w].caller, type |-> type, at |-> tx[w].began, key |-> k]}

PromoWritten(w) == IF tx[w].keep THEN PromoOf(w) ELSE None

CommitCreate(w) ==
    /\ pc[w] = "write"
    /\ call[w].op = "create"
    /\ \E o \in OrderIds :
           /\ orders[o] = None
           /\ orders' = [orders EXCEPT ![o] =
                  [user |-> call[w].caller, status |-> "CREATED", promo |-> PromoWritten(w),
                   billed |-> NewRows(w, 1)]]
           /\ items' = [items EXCEPT ![o] = NewRows(w, 1)]
    /\ Record(w, "CREATE_ORDER")
    /\ ApplyWrites(w)
    /\ UNCHANGED <<now, supplied>>

\* Mutant: the operation is recorded as the other kind.
CommitAsCreate(w) ==
    /\ pc[w] = "write"
    /\ call[w].op = "update"
    /\ LET o == call[w].order
       IN \E b \in NextBatch(o) :
              /\ orders' = [orders EXCEPT ![o].promo = PromoWritten(w),
                                          ![o].billed = NewRows(w, b)]
              /\ items' = [items EXCEPT ![o] = (@ \ tx[w].doomed) \cup NewRows(w, b)]
    /\ Record(w, "CREATE_ORDER")
    /\ ApplyWrites(w)
    /\ UNCHANGED <<now, supplied>>

CommitUpdate(w) ==
    /\ pc[w] = "write"
    /\ call[w].op = "update"
    /\ LET o == call[w].order
       IN \E b \in NextBatch(o) :
              /\ orders' = [orders EXCEPT ![o].promo = PromoWritten(w),
                                          ![o].billed = NewRows(w, b)]
              /\ items' = [items EXCEPT ![o] = (@ \ tx[w].doomed) \cup NewRows(w, b)]
    /\ Record(w, "UPDATE_ORDER")
    /\ ApplyWrites(w)
    /\ UNCHANGED <<now, supplied>>

CommitCancel(w) ==
    /\ pc[w] = "write"
    /\ call[w].op = "cancel"
    /\ orders' = [orders EXCEPT ![call[w].order].status = "CANCELED"]
    /\ ApplyWrites(w)
    /\ UNCHANGED <<now, items, ops, supplied>>

-----------------------------------------------------------------------------
(* The early returns: the request is refused and nothing of it remains. *)

Refused(w) ==
    \/ pc[w] = "order" /\ ~MayTouch(w)
    \/ pc[w] = "limit" /\ Limited(w)
    \/ pc[w] = "active" /\ ActiveOrders(call[w].caller) # {}
    \/ pc[w] = "lines" /\ product[CurrentLine(w).product] = None
    \/ ReadsProduct(w) /\ product[CurrentLine(w).product].status # "ACTIVE"
    \/ pc[w] = "stock" /\ Short(w)
    \/ pc[w] = "stock" /\ ~Short(w) /\ ~StockCheck(w)
    \/ pc[w] = "promo" /\ call[w].op = "create" /\ ~PromoFits(w, promo[call[w].code])

Refuse(w) ==
    /\ Refused(w)
    /\ Return(w)
    /\ UNCHANGED <<now, tables, supplied>>

\* The client goes away, a statement fails, the process dies: PostgreSQL rolls
\* the transaction back.
Abort(w) ==
    /\ Busy(w)
    /\ Return(w)
    /\ UNCHANGED <<now, tables, supplied>>

\* The row that the next statement of w locks.
Wanted(w) ==
    CASE pc[w] = "restore" -> {tx[w].next.product}
      [] pc[w] = "lines"   -> {CurrentLine(w).product}
      [] pc[w] = "claim"   -> {call[w].code}
      [] pc[w] = "promo" /\ call[w].op # "create" -> {PromoOf(w)}
      [] OTHER -> {}

\* The holders of the locks that the members of S wait for.
Holders(S) == UNION {{lock[k] : k \in Wanted(w)} : w \in S} \ {None}

\* S waits in a circle: each member for the lock of another one.
Circle(S) ==
    /\ \A w \in S : \E k \in Wanted(w) : ~CanLock(w, k)
    /\ Holders(S) = S

\* The deadlock detector of PostgreSQL aborts a member of a circle.
DeadlockAbort(w) ==
    /\ \E S \in SUBSET Workers : w \in S /\ Circle(S)
    /\ Return(w)
    /\ UNCHANGED <<now, tables, supplied>>

-----------------------------------------------------------------------------
StartAny(w) == StartCreate(w) \/ StartUpdate(w) \/ StartOther(w)

\* The statements of a request, up to its answer.
Serve(w) ==
    \/ GetOrderByID(w) \/ CheckRateLimit(w) \/ GetActiveOrder(w)
    \/ AnswerGet(w) \/ GetOrderItems(w) \/ IncrementStock(w)
    \/ GetProductForUpdate(w) \/ DecrementStock(w)
    \/ GetPromoCodeByCode(w) \/ IncrementPromoUses(w)
    \/ GetPromoCodeForUpdate(w) \/ DecrementPromoUses(w)
    \/ DeleteOrderItems(w)
    \/ CommitCreate(w) \/ CommitUpdate(w) \/ CommitCancel(w)
    \/ Refuse(w)

OrdersNext == \E w \in Workers : StartAny(w) \/ Serve(w) \/ Abort(w) \/ DeadlockAbort(w)
=============================================================================
