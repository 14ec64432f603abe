----------------------------- MODULE SerialProof ------------------------------
(***************************************************************************)
(* What clients may rely on who send the requests of one caller, and those *)
(* about one order, one at a time: for any number of them.                 *)
(***************************************************************************)
EXTENDS MarketplaceProof, FiniteSetTheorems

OneAtATime == Serial = {"caller", "order"}

-----------------------------------------------------------------------------
(* Requests that do not step. *)

\* The tables, as far as the decisions of a request rest on them: no operation
\* of its caller is recorded, no order of its caller becomes active, and its
\* own order stays as it is.
Undisturbed(v) ==
    /\ pc'[v] = pc[v] /\ call'[v] = call[v] /\ tx'[v] = tx[v]
    /\ now <= now'
    /\ Busy(v) => /\ \A x \in ops' \ ops : x.user # call[v].caller
                  /\ ActiveOrders(call[v].caller)' \subseteq ActiveOrders(call[v].caller)
    /\ pc[v] \notin {"idle", "order"} /\ call[v].op # "create" =>
           orders'[call[v].order] = orders[call[v].order] /\ items'[call[v].order] = items[call[v].order]

\* What a request has decided stays true while it does not step.
LEMMA DecidedStays ==
    ASSUME IInv, IInv', NEW v \in Workers, Decided(v), Undisturbed(v)
    PROVE  Decided(v)'
<1>1. /\ now \in Nat /\ now' \in Nat /\ tx[v].began \in Nat /\ RateLimit \in Nat
      /\ \A x \in ops : x.at \in Nat
  BY StoreAssumption DEF IInv, TypeOK, StoreType, OrdersType, Tx, Operation
<1>2. ASSUME Busy(v), NEW t \in Nat, NEW u \in Nat, t <= u, Spaced(v, t),
             NEW x \in ops', x.user = call[v].caller,
             x.type = IF call[v].op = "create" THEN "CREATE_ORDER" ELSE "UPDATE_ORDER"
      PROVE  RateLimit <= u - x.at
  <2>1. x \in ops /\ x.at \in Nat
    BY <1>1, <1>2 DEF Undisturbed
  <2>2. RateLimit <= t - x.at
    BY <1>2, <2>1 DEF Spaced
  <2> QED
    BY <1>1, <1>2, <2>1, <2>2
<1>3. pc[v] \in {"active", "items"} /\ call[v].op \in {"create", "update"} => Spaced(v, now)'
  BY <1>1, <1>2 DEF Undisturbed, Decided, Spaced, Busy
<1>4. pc[v] \in InTransaction /\ call[v].op \in {"create", "update"} => Spaced(v, tx[v].began)'
  BY <1>1, <1>2 DEF Undisturbed, Decided, Spaced, Busy, InTransaction
<1>5. pc[v] \in InTransaction /\ call[v].op = "create" => (ActiveOrders(call[v].caller) = {})'
  BY DEF Undisturbed, Decided, Busy, InTransaction
<1>6. pc[v] \notin {"idle", "order"} /\ call[v].op \in {"update", "cancel"} => (call[v].order \in Standing)'
  BY DEF Undisturbed, Decided, Standing, Placed
<1>7. pc[v] = "write" /\ call[v].op = "update" => (tx[v].doomed = items[call[v].order])'
  BY DEF Undisturbed, Decided
<1> QED
  BY <1>3, <1>4, <1>5, <1>6, <1>7 DEF Undisturbed, Decided

\* Two requests stay apart while they go on or end.
LEMMA DisjointStays ==
    ASSUME Disjoint, NEW w \in Workers, OnlyOf(w), pc'[w] = "idle" \/ (Busy(w) /\ call'[w] = call[w])
    PROVE  Disjoint'
  BY DEF Disjoint, OnlyOf, Busy

-----------------------------------------------------------------------------
(* Steps that leave orders, their rows, the log of operations and the clock*)
(* alone.                                                                  *)

LEMMA QuietStep ==
    ASSUME IInv, IInv', SerialInv, UNCHANGED <<now, orders, items, ops>>,
           NEW w \in Workers, OnlyOf(w), Disjoint', Decided(w)'
    PROVE  SerialInv'
<1>1. \A v \in Workers \ {w} : Undisturbed(v)
  BY DEF OnlyOf, Undisturbed, ActiveOrders, IInv, TypeOK, StoreType
<1>2. \A v \in Workers : Decided(v)'
  BY <1>1, DecidedStays DEF SerialInv
<1>3. (OneAtMost /\ BilledIsItems /\ OrderSpacing)'
  BY DEF SerialInv, OneAtMost, ActiveOrders, BilledIsItems, Placed, OrderSpacing
<1> QED
  BY <1>2, <1>3 DEF SerialInv

\* A request ends, and nothing of it remains.
LEMMA EndStep ==
    ASSUME IInv, IInv', SerialInv, NEW w \in Workers, Return(w), UNCHANGED <<now, tables, supplied>>
    PROVE  SerialInv'
<1>1. OnlyOf(w) /\ pc'[w] = "idle"
  BY Returned DEF Return, IInv, TypeOK, OrdersType
<1>2. Disjoint'
  BY <1>1, DisjointStays DEF SerialInv
<1>3. Decided(w)'
  BY <1>1 DEF Decided, InTransaction
<1> QED
  BY <1>1, <1>2, <1>3, QuietStep DEF tables

\* A request goes on with what it has decided, and decides nothing.
LEMMA GoOnStep ==
    ASSUME IInv, IInv', SerialInv, UNCHANGED <<now, orders, items, ops>>, NEW w \in Workers, OnlyOf(w),
           pc[w] \in InTransaction, pc'[w] \in InTransaction, call'[w] = call[w],
           tx'[w].began = tx[w].began,
           pc'[w] = "write" => call[w].op # "update" \/ tx'[w].doomed = items[call[w].order]
    PROVE  SerialInv'
<1>1. Disjoint'
  BY DisjointStays DEF SerialInv, Busy, InTransaction
<1>2. Decided(w)
  BY DEF SerialInv
<1>3. Spaced(w, tx[w].began) => Spaced(w, tx[w].began)'
  BY DEF Spaced
<1>4. ActiveOrders(call[w].caller)' = ActiveOrders(call[w].caller) /\ Standing' = Standing
  BY DEF ActiveOrders, Standing, Placed
<1>5. Decided(w)'
  BY <1>2, <1>3, <1>4 DEF Decided, InTransaction
<1> QED
  BY <1>1, <1>5, QuietStep

-----------------------------------------------------------------------------
(* A request begins, and takes its decisions. *)

LEMMA StartSerial ==
    ASSUME OneAtATime, IInv, IInv', SerialInv, NEW w \in Workers, StartAny(w)
    PROVE  SerialInv'
<1>1. PICK c \in Call, label \in {"order", "limit"} :
           Start(w, c, label) /\ (label = "limit" <=> c.op = "create")
  BY Started
<1>2. OnlyOf(w) /\ pc'[w] = label /\ call'[w] = c /\ UNCHANGED <<now, orders, items, ops>>
  BY <1>1 DEF Start, OnlyOf, IInv, TypeOK, OrdersType, storeVars, tables
<1>3. \A v \in Workers \ {w} : Busy(v) =>
        call[v].caller # c.caller /\ (c.order = None \/ call[v].order # c.order)
  BY <1>1 DEF Start, Alone, OneAtATime, Busy
<1>4. Disjoint'
  BY <1>2, <1>3 DEF Disjoint, OnlyOf, Busy, SerialInv
<1>5. Decided(w)'
  BY <1>1, <1>2 DEF Decided, InTransaction
<1> QED
  BY <1>2, <1>4, <1>5, QuietStep

\* The order that UpdateOrder or CancelOrder read is its own to change.
LEMMA GetOrderByIDSerial ==
    ASSUME IInv, IInv', SerialInv, NEW w \in Workers, GetOrderByID(w)
    PROVE  SerialInv'
<1>1. /\ OnlyOf(w) /\ call' = call /\ UNCHANGED <<now, orders, items, ops>> /\ pc[w] = "order"
      /\ pc'[w] = IF call[w].op = "update" THEN "limit" ELSE "items"
  BY DEF GetOrderByID, GoTo, OnlyOf, IInv, TypeOK, OrdersType, storeVars, tables
<1>2. call[w].op # "create" /\ call[w].order \in OrderIds
  BY <1>1 DEF IInv, WorkerInv, Reaches, TypeOK, OrdersType, Call
<1>3. call[w].op \in {"update", "cancel"} => call[w].order \in Standing
  BY <1>2 DEF GetOrderByID, MayTouch, Standing, Placed
<1>4. Decided(w)'
  BY <1>1, <1>2, <1>3 DEF Decided, InTransaction, Standing, Placed
<1>5. Disjoint'
  BY <1>1, DisjointStays DEF SerialInv, Busy
<1> QED
  BY <1>1, <1>4, <1>5, QuietStep

\* The interval the rate limit asked for has passed, and stays passed.
LEMMA CheckRateLimitSerial ==
    ASSUME IInv, IInv', SerialInv, NEW w \in Workers, CheckRateLimit(w)
    PROVE  SerialInv'
<1>1. /\ OnlyOf(w) /\ call' = call /\ UNCHANGED <<now, orders, items, ops>> /\ pc[w] = "limit"
      /\ pc'[w] = IF call[w].op = "create" THEN "active" ELSE "items"
  BY DEF CheckRateLimit, GoTo, OnlyOf, IInv, TypeOK, OrdersType, storeVars, tables
<1>2. Spaced(w, now)
  <2>1. now \in Nat /\ RateLimit \in Nat /\ \A x \in ops : x.at \in Nat
    BY StoreAssumption DEF IInv, TypeOK, StoreType, Operation
  <2> QED
    BY <2>1 DEF CheckRateLimit, Limited, RecentOperation, Spaced
<1>3. Decided(w)'
  BY <1>1, <1>2 DEF Decided, SerialInv, InTransaction, Standing, Placed, Spaced
<1>4. Disjoint'
  BY <1>1, DisjointStays DEF SerialInv, Busy
<1> QED
  BY <1>1, <1>3, <1>4, QuietStep

\* CreateOrder found no active order of its caller.
LEMMA GetActiveOrderSerial ==
    ASSUME IInv, IInv', SerialInv, NEW w \in Workers, GetActiveOrder(w)
    PROVE  SerialInv'
<1>1. /\ OnlyOf(w) /\ call' = call /\ UNCHANGED <<now, orders, items, ops>> /\ pc[w] = "active"
      /\ pc'[w] = "lines"
  BY DEF GetActiveOrder, GoTo, OnlyOf, IInv, TypeOK, OrdersType, storeVars, tables
<1>2. tx'[w].began = now /\ call[w].op = "create"
  BY <1>1 DEF GetActiveOrder, IInv, TypeOK, OrdersType, Tx, WorkerInv, Reaches
<1>3. Spaced(w, now) /\ ActiveOrders(call[w].caller) = {}
  BY <1>1, <1>2 DEF GetActiveOrder, SerialInv, Decided
<1>4. Decided(w)'
  BY <1>1, <1>2, <1>3 DEF Decided, Spaced, ActiveOrders
<1>5. Disjoint'
  BY <1>1, DisjointStays DEF SerialInv, Busy
<1> QED
  BY <1>1, <1>4, <1>5, QuietStep

\* The rows to put back are those of the order.
LEMMA GetOrderItemsSerial ==
    ASSUME IInv, IInv', SerialInv, NEW w \in Workers, GetOrderItems(w)
    PROVE  SerialInv'
<1>1. PICK r \in items[call[w].order] \cup {None} :
        /\ RestoreNext(w, items[call[w].order], r)
        /\ tx' = [tx EXCEPT ![w].began = now, ![w].next = r, ![w].todo = items[call[w].order] \ {r}]
  BY DEF GetOrderItems
<1>2. /\ OnlyOf(w) /\ call' = call /\ UNCHANGED <<now, orders, items, ops>> /\ pc[w] = "items"
      /\ call[w].op \in {"update", "cancel"}
      /\ pc'[w] \in {"restore", AfterRestore(w)}
  BY <1>1 DEF GetOrderItems, RestoreNext, GoTo, OnlyOf, IInv, TypeOK, OrdersType, storeVars, tables,
              WorkerInv, Reaches, Call, Ops
<1>3. tx'[w].began = now
  BY <1>1 DEF IInv, TypeOK, OrdersType, Tx
<1>4. pc'[w] \in InTransaction /\ (pc'[w] = "write" => call[w].op = "cancel")
  BY <1>2 DEF AfterRestore, InTransaction
<1>5. Decided(w)'
  BY <1>2, <1>3, <1>4 DEF Decided, SerialInv, InTransaction, Standing, Placed, Spaced
<1>6. Disjoint'
  BY <1>2, DisjointStays DEF SerialInv, Busy
<1> QED
  BY <1>2, <1>5, <1>6, QuietStep

-----------------------------------------------------------------------------
(* The statements of an open transaction. *)

LEMMA GoesOn ==
    ASSUME IInv, IInv', SerialInv, NEW w \in Workers,
           \/ IncrementStock(w) \/ GetProductForUpdate(w) \/ DecrementStock(w)
           \/ GetPromoCodeByCode(w) \/ IncrementPromoUses(w)
           \/ GetPromoCodeForUpdate(w) \/ DecrementPromoUses(w) \/ DeleteOrderItems(w)
    PROVE  SerialInv'
<1> USE DEF storeVars, tables
<1>1. pc \in [Workers -> Labels] /\ tx \in [Workers -> Tx] /\ tx[w] \in Tx /\ Reaches(w)
  BY DEF IInv, TypeOK, OrdersType, WorkerInv
<1> DEFINE Fits ==
      /\ UNCHANGED <<now, orders, items, ops>> /\ OnlyOf(w) /\ call' = call
      /\ pc[w] \in InTransaction /\ pc'[w] \in InTransaction
      /\ tx'[w].began = tx[w].began
      /\ pc'[w] = "write" => call[w].op # "update" \/ tx'[w].doomed = items[call[w].order]
<1>2. CASE IncrementStock(w)
  <2>1. PICK r \in tx[w].todo \cup {None} :
          /\ RestoreNext(w, tx[w].todo, r)
          /\ tx' = [tx EXCEPT ![w].delta[tx[w].next.product] = @ + tx[w].next.qty,
                              ![w].next = r, ![w].todo = @ \ {r}]
    BY <1>2 DEF IncrementStock
  <2>2. OnlyOf(w) /\ tx'[w].began = tx[w].began
    BY <1>1, <2>1 DEF RestoreNext, GoTo, OnlyOf, Tx
  <2>3. pc'[w] \in {"restore", AfterRestore(w)} /\ call' = call
    BY <1>1, <2>1 DEF RestoreNext, GoTo
  <2>4. pc[w] = "restore" /\ UNCHANGED <<now, orders, items, ops>>
    BY <1>2 DEF IncrementStock
  <2>5. Fits
    BY <2>2, <2>3, <2>4 DEF InTransaction, AfterRestore
  <2> QED
    BY <2>5, GoOnStep
<1>3. CASE GetProductForUpdate(w)
  <2>1. Fits
    BY <1>1, <1>3 DEF GetProductForUpdate, ReadsProduct, GoTo, OnlyOf, InTransaction, Tx
  <2> QED
    BY <2>1, GoOnStep
<1>4. CASE DecrementStock(w)
  <2>1. pc'[w] \in {"stock", AfterStock(w)} /\ pc[w] = "stock" /\ call' = call
    BY <1>1, <1>4 DEF DecrementStock, GoTo
  <2>2. Fits
    BY <1>1, <1>4, <2>1 DEF DecrementStock, GoTo, OnlyOf, InTransaction, Tx, AfterStock
  <2> QED
    BY <2>2, GoOnStep
<1>5. CASE GetPromoCodeByCode(w) \/ IncrementPromoUses(w)
  <2>1. Fits
    BY <1>1, <1>5 DEF GetPromoCodeByCode, IncrementPromoUses, GoTo, OnlyOf, InTransaction, Tx, Reaches
  <2> QED
    BY <2>1, GoOnStep
<1>6. CASE GetPromoCodeForUpdate(w) \/ DecrementPromoUses(w)
  <2>1. Fits
    BY <1>1, <1>6 DEF GetPromoCodeForUpdate, DecrementPromoUses, GoTo, OnlyOf, InTransaction, Tx
  <2> QED
    BY <2>1, GoOnStep
<1>7. CASE DeleteOrderItems(w)
  <2>1. Fits
    BY <1>1, <1>7 DEF DeleteOrderItems, GoTo, OnlyOf, InTransaction, Tx
  <2> QED
    BY <2>1, GoOnStep
<1> QED
  BY <1>2, <1>3, <1>4, <1>5, <1>6, <1>7

-----------------------------------------------------------------------------
(* Commits. *)

\* A commit touches the order of its request, or one that is new, and what it
\* records or makes active belongs to its caller.
LEMMA CommitStepSerial ==
    ASSUME IInv, IInv', SerialInv, NEW w \in Workers, pc[w] = "write", Return(w), now' = now,
           \A o \in Placed : o # call[w].order => orders'[o] = orders[o] /\ items'[o] = items[o],
           \A x \in ops' \ ops : x.user = call[w].caller,
           \A u \in Accounts \ {call[w].caller} : ActiveOrders(u)' \subseteq ActiveOrders(u),
           (OneAtMost /\ BilledIsItems /\ OrderSpacing)'
    PROVE  SerialInv'
<1>1. OnlyOf(w) /\ pc'[w] = "idle"
  BY Returned DEF Return, IInv, TypeOK, OrdersType
<1>2. Disjoint'
  BY <1>1, DisjointStays DEF SerialInv
<1>3. Decided(w)'
  BY <1>1 DEF Decided, InTransaction
<1>4. ASSUME NEW v \in Workers \ {w} PROVE Undisturbed(v)
  <2>1. pc'[v] = pc[v] /\ call'[v] = call[v] /\ tx'[v] = tx[v] /\ now <= now'
    BY <1>1 DEF OnlyOf, IInv, TypeOK, StoreType
  <2>2. ASSUME Busy(v)
        PROVE  /\ \A x \in ops' \ ops : x.user # call[v].caller
               /\ ActiveOrders(call[v].caller)' \subseteq ActiveOrders(call[v].caller)
    <3>1. call[v].caller # call[w].caller
      BY <2>2 DEF SerialInv, Disjoint, Busy
    <3>2. call[v].caller \in Accounts
      BY <2>2 DEF IInv, TypeOK, OrdersType, WorkerInv, Reaches, Busy, Call
    <3> QED
      BY <2>1, <3>1, <3>2 DEF ActiveOrders
  <2>3. ASSUME pc[v] \notin {"idle", "order"}, call[v].op # "create"
        PROVE  orders'[call[v].order] = orders[call[v].order] /\ items'[call[v].order] = items[call[v].order]
    <3>1. call[v].order # None /\ call[v].order # call[w].order
      BY <2>3 DEF SerialInv, Disjoint, Busy, IInv, WorkerInv, Reaches
    <3>2. call[v].order \in Placed
      BY <2>3, <3>1 DEF IInv, TypeOK, OrdersType, WorkerInv, Reaches, Call, Placed
    <3> QED
      BY <3>1, <3>2
  <2> QED
    BY <2>1, <2>2, <2>3 DEF Undisturbed
<1>5. \A v \in Workers : Decided(v)'
  BY <1>3, <1>4, DecidedStays DEF SerialInv
<1> QED
  BY <1>2, <1>5 DEF SerialInv

\* The operation that is recorded is RateLimit away from all of its kind.
LEMMA SpacingStays ==
    ASSUME IInv, SerialInv, NEW w \in Workers, pc[w] = "write",
           call[w].op \in {"create", "update"},
           Record(w, IF call[w].op = "create" THEN "CREATE_ORDER" ELSE "UPDATE_ORDER")
    PROVE  OrderSpacing'
<1> DEFINE type == IF call[w].op = "create" THEN "CREATE_ORDER" ELSE "UPDATE_ORDER"
<1>1. /\ tx[w].began \in Nat /\ RateLimit \in Nat
      /\ \A x \in ops : x.at \in Nat
  BY StoreAssumption DEF IInv, TypeOK, StoreType, OrdersType, Tx, Operation
<1>2. Spaced(w, tx[w].began)
  BY DEF SerialInv, Decided, InTransaction
<1>3. PICK k \in Nat :
           ops' = ops \cup
               {[user |-> call[w].caller, type |-> type, at |-> tx[w].began, key |-> k]}
  BY RecordAdds
<1> DEFINE y == [user |-> call[w].caller, type |-> type, at |-> tx[w].began, key |-> k]
<1>4. ops' = ops \cup {y} /\ y.at = tx[w].began /\ y.user = call[w].caller /\ y.type = type
  BY <1>3
<1> HIDE DEF y
<1>5. \A x \in ops : x.user = y.user /\ x.type = y.type => RateLimit <= y.at - x.at
  BY <1>2, <1>4 DEF Spaced
<1>6. \A x \in ops : x.user = y.user /\ x.type = y.type =>
        /\ y.at - x.at \notin -RateLimit + 1 .. RateLimit - 1
        /\ x.at - y.at \notin -RateLimit + 1 .. RateLimit - 1
  BY <1>1, <1>4, <1>5
<1> QED
  BY <1>4, <1>6 DEF SerialInv, OrderSpacing

\* The commit of CreateOrder records one operation and one active order.
LEMMA CommitCreateSerial ==
    ASSUME IInv, IInv', SerialInv, NEW w \in Workers, CommitCreate(w)
    PROVE  SerialInv'
<1>1. PICK o \in OrderIds :
        /\ orders[o] = None
        /\ orders' = [orders EXCEPT ![o] =
               [user |-> call[w].caller, status |-> "CREATED", promo |-> PromoWritten(w),
                billed |-> NewRows(w, 1)]]
        /\ items' = [items EXCEPT ![o] = NewRows(w, 1)]
  BY DEF CommitCreate
<1>2. /\ pc[w] = "write" /\ call[w].op = "create" /\ Return(w) /\ now' = now
      /\ Record(w, "CREATE_ORDER")
  BY DEF CommitCreate, ApplyWrites
<1> DEFINE row == [user |-> call[w].caller, status |-> "CREATED", promo |-> PromoWritten(w),
                   billed |-> NewRows(w, 1)]
<1>3. row.user = call[w].caller /\ row.billed = NewRows(w, 1)
  OBVIOUS
<1> HIDE DEF row
<1>4. /\ orders'[o] = row /\ items'[o] = NewRows(w, 1)
      /\ \A q \in OrderIds \ {o} : orders'[q] = orders[q] /\ items'[q] = items[q]
  BY <1>1 DEF row, IInv, TypeOK, StoreType
<1>5. \A q \in Placed : orders'[q] = orders[q] /\ items'[q] = items[q]
  BY <1>1, <1>4 DEF Placed
<1>6. ActiveOrders(call[w].caller) = {}
  BY <1>2 DEF SerialInv, Decided, InTransaction
<1>7. \A u \in Accounts : \A q \in ActiveOrders(u)' :
         q \in ActiveOrders(u) \/ (u = call[w].caller /\ q = o)
  BY <1>3, <1>4 DEF ActiveOrders
<1>8. \A x \in ops' \ ops : x.user = call[w].caller
  BY <1>2 DEF Record
<1>9. OneAtMost'
  <2> SUFFICES ASSUME NEW u \in Accounts, NEW a \in ActiveOrders(u)', NEW b \in ActiveOrders(u)' PROVE a = b
    BY DEF OneAtMost
  <2> QED
    BY <1>6, <1>7 DEF SerialInv, OneAtMost
<1>10. BilledIsItems'
  BY <1>3, <1>4 DEF SerialInv, BilledIsItems, Placed
<1>11. OrderSpacing'
  BY <1>2, SpacingStays
<1>12. \A u \in Accounts \ {call[w].caller} : ActiveOrders(u)' \subseteq ActiveOrders(u)
  BY <1>7
<1> QED
  BY <1>2, <1>5, <1>8, <1>9, <1>10, <1>11, <1>12, CommitStepSerial

\* The commit of UpdateOrder records one operation.
LEMMA CommitUpdateSerial ==
    ASSUME IInv, IInv', SerialInv, NEW w \in Workers, CommitUpdate(w)
    PROVE  SerialInv'
<1> DEFINE o == call[w].order
<1>1. PICK b \in NextBatch(o) :
        /\ orders' = [orders EXCEPT ![o].promo = PromoWritten(w), ![o].billed = NewRows(w, b)]
        /\ items' = [items EXCEPT ![o] = (@ \ tx[w].doomed) \cup NewRows(w, b)]
  BY DEF CommitUpdate
<1>2. /\ pc[w] = "write" /\ call[w].op = "update" /\ Return(w) /\ now' = now
      /\ Record(w, "UPDATE_ORDER")
  BY DEF CommitUpdate, ApplyWrites
<1>3. o \in Placed /\ orders[o] \in OrderRow
  BY <1>2, WriteTypes DEF Placed, TypeOK, StoreType
<1>4. tx[w].doomed = items[o]
  BY <1>2 DEF SerialInv, Decided
<1>5. /\ orders'[o].billed = NewRows(w, b) /\ items'[o] = NewRows(w, b)
      /\ orders'[o].user = orders[o].user /\ orders'[o].status = orders[o].status
  BY <1>1, <1>3, <1>4 DEF IInv, TypeOK, StoreType, OrderRow, Placed
<1>6. \A q \in OrderIds \ {o} : orders'[q] = orders[q] /\ items'[q] = items[q]
  BY <1>1 DEF IInv, TypeOK, StoreType
<1>7. \A u \in Accounts : ActiveOrders(u)' \subseteq ActiveOrders(u)
  BY <1>3, <1>5, <1>6 DEF ActiveOrders, Placed
<1>8. \A x \in ops' \ ops : x.user = call[w].caller
  BY <1>2 DEF Record
<1>9. (OneAtMost /\ BilledIsItems)'
  BY <1>3, <1>5, <1>6, <1>7 DEF SerialInv, OneAtMost, BilledIsItems, Placed
<1>10. OrderSpacing'
  BY <1>2, SpacingStays
<1> QED
  BY <1>2, <1>6, <1>7, <1>8, <1>9, <1>10, CommitStepSerial DEF Placed

\* The commit of CancelOrder ends an active order.
LEMMA CommitCancelSerial ==
    ASSUME IInv, IInv', SerialInv, NEW w \in Workers, CommitCancel(w)
    PROVE  SerialInv'
<1> DEFINE o == call[w].order
<1>1. /\ pc[w] = "write" /\ call[w].op = "cancel" /\ Return(w) /\ now' = now
      /\ orders' = [orders EXCEPT ![o].status = "CANCELED"] /\ UNCHANGED <<items, ops>>
  BY DEF CommitCancel, ApplyWrites
<1>2. o \in Placed /\ orders[o] \in OrderRow
  BY <1>1, WriteTypes DEF Placed, TypeOK, StoreType
<1>3. /\ orders'[o].billed = orders[o].billed /\ orders'[o].status = "CANCELED"
      /\ \A q \in OrderIds \ {o} : orders'[q] = orders[q]
  BY <1>1, <1>2 DEF IInv, TypeOK, StoreType, OrderRow, Placed
<1>4. \A u \in Accounts : ActiveOrders(u)' \subseteq ActiveOrders(u)
  BY <1>2, <1>3 DEF ActiveOrders, Placed
<1>5. (OneAtMost /\ BilledIsItems)'
  BY <1>1, <1>2, <1>3, <1>4 DEF SerialInv, OneAtMost, BilledIsItems, Placed
<1>6. OrderSpacing'
  BY <1>1 DEF SerialInv, OrderSpacing
<1> QED
  BY <1>1, <1>3, <1>4, <1>5, <1>6, CommitStepSerial DEF Placed

-----------------------------------------------------------------------------
(* Every step. *)

\* The catalogue and the clock.
LEMMA OutsideSerial ==
    ASSUME IInv, IInv', SerialInv,
           ((CatalogNext \/ Tick) /\ UNCHANGED workerVars) \/ UNCHANGED vars
    PROVE  SerialInv'
<1>1. now \in Nat
  BY DEF IInv, TypeOK, StoreType
<1>2. ASSUME CatalogNext
      PROVE  now' = now /\ orders' = orders /\ items' = items /\ ops' = ops
  <2>1. PICK u \in Keepers :
            \/ \E p \in Products : \/ \E in \in ProductInputs : CreateProduct(u, p, in)
                                   \/ \E in \in UpdateInputs : UpdateProduct(u, p, in)
                                   \/ DeleteProduct(u, p)
            \/ \E c \in Codes, in \in PromoInputs : CreatePromoCode(c, in)
    BY <1>2, Zenon DEF CatalogNext
  <2>2. ASSUME NEW p \in Products, NEW in \in ProductInputs, CreateProduct(u, p, in)
        PROVE  now' = now /\ orders' = orders /\ items' = items /\ ops' = ops
    BY <2>2 DEF CreateProduct
  <2>3. ASSUME NEW p \in Products, NEW in \in UpdateInputs, UpdateProduct(u, p, in)
        PROVE  now' = now /\ orders' = orders /\ items' = items /\ ops' = ops
    BY <2>3 DEF UpdateProduct
  <2>4. ASSUME NEW p \in Products, DeleteProduct(u, p)
        PROVE  now' = now /\ orders' = orders /\ items' = items /\ ops' = ops
    BY <2>4 DEF DeleteProduct
  <2>5. ASSUME NEW c \in Codes, NEW in \in PromoInputs, CreatePromoCode(c, in)
        PROVE  now' = now /\ orders' = orders /\ items' = items /\ ops' = ops
    BY <2>5 DEF CreatePromoCode
  <2> QED
    BY <2>1, <2>2, <2>3, <2>4, <2>5, Zenon
<1>3. UNCHANGED <<workerVars, orders, items, ops>> /\ now <= now'
  <2>1. CASE CatalogNext /\ UNCHANGED workerVars
    BY <1>1, <1>2, <2>1
  <2>2. CASE Tick /\ UNCHANGED workerVars
    BY <1>1, <2>2 DEF Tick, tables
  <2>3. CASE UNCHANGED vars
    BY <1>1, <2>3 DEF vars, storeVars, tables
  <2> QED
    BY <2>1, <2>2, <2>3
<1>4. \A v \in Workers : Undisturbed(v)
  BY <1>3 DEF workerVars, Undisturbed, ActiveOrders
<1>5. \A v \in Workers : Decided(v)'
  BY <1>4, DecidedStays DEF SerialInv
<1>6. (Disjoint /\ OneAtMost /\ BilledIsItems /\ OrderSpacing)'
  BY <1>3 DEF SerialInv, Disjoint, Busy, workerVars, OneAtMost, ActiveOrders, BilledIsItems, Placed,
              OrderSpacing
<1> QED
  BY <1>5, <1>6 DEF SerialInv

\* Every step keeps the invariant of serial clients.
LEMMA NextSerial ==
    ASSUME OneAtATime, IInv, IInv', SerialInv, [Next]_vars
    PROVE  SerialInv'
<1>1. ASSUME NEW w \in Workers, Serve(w) PROVE SerialInv'
  <2>1. CASE AnswerGet(w) \/ Refuse(w)
    BY <2>1, EndStep DEF AnswerGet, Refuse
  <2>2. CASE GetOrderByID(w) \/ CheckRateLimit(w) \/ GetActiveOrder(w) \/ GetOrderItems(w)
    BY <2>2, GetOrderByIDSerial, CheckRateLimitSerial, GetActiveOrderSerial, GetOrderItemsSerial
  <2>3. CASE CommitCreate(w) \/ CommitUpdate(w) \/ CommitCancel(w)
    BY <2>3, CommitCreateSerial, CommitUpdateSerial, CommitCancelSerial
  <2> QED
    BY <1>1, <2>1, <2>2, <2>3, GoesOn DEF Serve
<1>2. ASSUME NEW w \in Workers, StartAny(w) PROVE SerialInv'
  BY <1>2, StartSerial
<1>3. ASSUME NEW w \in Workers, Abort(w) \/ DeadlockAbort(w) PROVE SerialInv'
  BY <1>3, EndStep DEF Abort, DeadlockAbort
<1> QED
  BY <1>1, <1>2, <1>3, OutsideSerial DEF Next, OrdersNext

-----------------------------------------------------------------------------
(* Theorems. *)

\* The inductive invariant: what requests have decided in reads that no lock
\* protects is still so when they write.
THEOREM SerialInvariant == ASSUME OneAtATime PROVE Spec => []SerialInv
<1>1. Init => SerialInv
  <2> SUFFICES ASSUME Init PROVE SerialInv
    OBVIOUS
  <2>1. \A w \in Workers : pc[w] = "idle"
    BY DEF Init, OrdersInit
  <2>2. Disjoint /\ \A w \in Workers : Decided(w)
    BY <2>1 DEF Disjoint, Busy, Decided, InTransaction
  <2>3. OneAtMost /\ BilledIsItems /\ OrderSpacing
    BY DEF Init, StoreInit, OneAtMost, ActiveOrders, BilledIsItems, Placed, OrderSpacing
  <2> QED
    BY <2>2, <2>3 DEF SerialInv
<1>2. IInv /\ IInv' /\ SerialInv /\ [Next]_vars => SerialInv'
  BY NextSerial
<1> QED
  BY <1>1, <1>2, Invariant, PTL DEF Spec

\* OneActiveOrder: a user has at most one active order (GetActiveOrderByUserID
\* in Create).
THEOREM AtMostOneActive == ASSUME OneAtATime PROVE Spec => []OneActiveOrder
<1>1. SerialInv => OneActiveOrder
  <2> SUFFICES ASSUME SerialInv, NEW u \in Accounts PROVE Cardinality(ActiveOrders(u)) <= 1
    BY DEF OneActiveOrder
  <2>1. CASE ActiveOrders(u) = {}
    BY <2>1, FS_EmptySet
  <2>2. CASE ActiveOrders(u) # {}
    <3>1. PICK o : o \in ActiveOrders(u)
      BY <2>2
    <3>2. ActiveOrders(u) = {o}
      BY <3>1 DEF SerialInv, OneAtMost
    <3>3. Cardinality({o}) = 1
      BY FS_Singleton
    <3> QED
      BY <3>2, <3>3
  <2> QED
    BY <2>1, <2>2
<1> QED
  BY <1>1, SerialInvariant, PTL

\* OrderSpacing: operations of a user of one kind are RateLimit apart.
THEOREM OperationsSpaced == ASSUME OneAtATime PROVE Spec => []OrderSpacing
<1>1. SerialInv => OrderSpacing
  BY DEF SerialInv
<1> QED
  BY <1>1, SerialInvariant, PTL

\* BilledIsItems: the amounts of an order are those of its rows.
THEOREM AmountsOfRows == ASSUME OneAtATime PROVE Spec => []BilledIsItems
<1>1. SerialInv => BilledIsItems
  BY DEF SerialInv
<1> QED
  BY <1>1, SerialInvariant, PTL

\* Only a commit changes the rows of orders.
LEMMA OrdersKept ==
    ASSUME [Next]_vars, ~\E w \in Workers : CommitCreate(w) \/ CommitUpdate(w) \/ CommitCancel(w)
    PROVE  orders' = orders
<1> USE DEF storeVars, tables
<1>1. CASE OrdersNext
  <2>1. PICK w \in Workers : StartAny(w) \/ Serve(w) \/ Abort(w) \/ DeadlockAbort(w)
    BY <1>1 DEF OrdersNext
  <2>2. CASE StartAny(w)
    BY <2>2 DEF StartAny, StartCreate, StartUpdate, StartOther, Start
  <2>3. CASE Abort(w) \/ DeadlockAbort(w) \/ AnswerGet(w) \/ Refuse(w)
    BY <2>3 DEF Abort, DeadlockAbort, AnswerGet, Refuse
  <2>4. CASE \/ GetOrderByID(w) \/ CheckRateLimit(w) \/ GetActiveOrder(w)
             \/ GetOrderItems(w) \/ IncrementStock(w) \/ GetProductForUpdate(w)
             \/ DecrementStock(w) \/ DeleteOrderItems(w)
    BY <2>4 DEF GetOrderByID, CheckRateLimit, GetActiveOrder, GetOrderItems, IncrementStock,
                GetProductForUpdate, DecrementStock, DeleteOrderItems
  <2>5. CASE \/ GetPromoCodeByCode(w) \/ IncrementPromoUses(w)
             \/ GetPromoCodeForUpdate(w) \/ DecrementPromoUses(w)
    BY <2>5 DEF GetPromoCodeByCode, IncrementPromoUses, GetPromoCodeForUpdate,
                DecrementPromoUses
  <2> QED
    BY <2>1, <2>2, <2>3, <2>4, <2>5 DEF Serve
<1>2. CASE CatalogNext
  BY <1>2 DEF CatalogNext, CreateProduct, UpdateProduct, DeleteProduct, CreatePromoCode
<1>3. CASE Tick \/ UNCHANGED vars
  BY <1>3 DEF Tick, vars
<1> QED
  BY <1>1, <1>2, <1>3 DEF Next

\* CanceledFrozen: Update and Cancel check the status before their transactions
\* begin, and it is still that status when they commit.
THEOREM NeverAfterCancel == ASSUME OneAtATime PROVE Spec => CanceledFrozen
<1> DEFINE Frozen == \A o \in Placed \ Standing : orders'[o] = orders[o] /\ items'[o] = items[o]
<1>1. ASSUME IInv, NEW w \in Workers, CommitCreate(w) PROVE Frozen
  BY <1>1 DEF CommitCreate, Placed, IInv, TypeOK, StoreType
<1>2. ASSUME IInv, SerialInv, NEW w \in Workers, CommitUpdate(w) PROVE Frozen
  <2>1. call[w].order \in Standing
    BY <1>2 DEF SerialInv, Decided, CommitUpdate
  <2> QED
    BY <1>2, <2>1 DEF CommitUpdate, Placed, IInv, TypeOK, StoreType
<1>3. ASSUME IInv, SerialInv, NEW w \in Workers, CommitCancel(w) PROVE Frozen
  <2>1. call[w].order \in Standing
    BY <1>3 DEF SerialInv, Decided, CommitCancel
  <2> QED
    BY <1>3, <2>1 DEF CommitCancel, Placed, IInv, TypeOK, StoreType
<1>4. ASSUME [Next]_vars,
             ~\E w \in Workers : CommitCreate(w) \/ CommitUpdate(w) \/ CommitCancel(w)
      PROVE  Frozen
  BY <1>4, OrdersKept, ItemsKept
<1>5. IInv /\ SerialInv /\ [Next]_vars => Frozen
  BY <1>1, <1>2, <1>3, <1>4
<1>6. IInv /\ SerialInv /\ [Next]_vars => [Frozen]_vars
  BY <1>5
<1> QED
  BY <1>6, Invariant, SerialInvariant, PTL DEF Spec, CanceledFrozen
=============================================================================
