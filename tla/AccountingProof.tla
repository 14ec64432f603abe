--------------------------- MODULE AccountingProof ----------------------------
(***************************************************************************)
(* Stock and promo codes are accounted for to the last unit and use, and   *)
(* the marketplace implements Inventory, for clients that send the         *)
(* requests of one caller, and those about one order, one at a time.       *)
(***************************************************************************)
EXTENDS SerialProof, SetLemmas

-----------------------------------------------------------------------------
(* Units of a product in rows of order items.                              *)

\* What each row counts for.
QtyOf(rows, p) == [r \in rows |-> IF r.product = p THEN r.qty ELSE 0]

\* UnitsOf is a sum over rows.
LEMMA UnitsSum ==
    ASSUME NEW rows, NEW p
    PROVE  UnitsOf(rows, p) = SumFunctionOnSet(QtyOf(rows, p), rows)
  BY DEF UnitsOf, SumFunction, QtyOf

\* What a row counts for is a natural number.
LEMMA QtyType ==
    ASSUME NEW rows \in SUBSET ItemRow, NEW p, NEW r \in rows
    PROVE  QtyOf(rows, p)[r] \in Nat
  BY DEF QtyOf, ItemRow

\* Rows hold a natural number of units, no fewer than any row of the product.
LEMMA UnitsType ==
    ASSUME NEW rows \in SUBSET ItemRow, IsFiniteSet(rows), NEW p
    PROVE  /\ UnitsOf(rows, p) \in Nat
           /\ \A r \in rows : r.product = p => UnitsOf(rows, p) >= r.qty
<1>1. \A r \in rows : QtyOf(rows, p)[r] \in Nat
  BY QtyType
<1>2. SumFunctionOnSet(QtyOf(rows, p), rows) \in Nat
  BY <1>1, SumType
<1>3. \A r \in rows : SumFunctionOnSet(QtyOf(rows, p), rows) >= QtyOf(rows, p)[r]
  BY <1>1, SumAtLeast
<1> QED
  BY <1>2, <1>3, UnitsSum DEF QtyOf

\* Rows of other products hold no units of this one.
LEMMA NoUnits ==
    ASSUME NEW rows, IsFiniteSet(rows), NEW p, \A r \in rows : r.product # p
    PROVE  UnitsOf(rows, p) = 0
<1>1. \A r \in rows : QtyOf(rows, p)[r] = 0
  BY DEF QtyOf
<1> QED
  BY <1>1, SumOfZeros, UnitsSum

\* A row taken away takes its own units away.
LEMMA UnitsWithout ==
    ASSUME NEW rows \in SUBSET ItemRow, IsFiniteSet(rows), NEW p, NEW r \in rows
    PROVE  UnitsOf(rows, p) = UnitsOf(rows \ {r}, p) + (IF r.product = p THEN r.qty ELSE 0)
<1> DEFINE rest == rows \ {r}
<1>1. IsFiniteSet(rest) /\ rest \in SUBSET ItemRow
  BY FS_RemoveElement
<1>2. \A x \in rows : QtyOf(rows, p)[x] \in Int
  BY QtyType
<1>3. SumFunctionOnSet(QtyOf(rows, p), rows)
        = QtyOf(rows, p)[r] + SumFunctionOnSet(QtyOf(rows, p), rest)
  BY <1>2, SumWithout
<1>4. \A x \in rest : QtyOf(rows, p)[x] = QtyOf(rest, p)[x]
  BY DEF QtyOf
<1>5. SumFunctionOnSet(QtyOf(rows, p), rest) = SumFunctionOnSet(QtyOf(rest, p), rest)
  BY <1>1, <1>4, SumSame
<1>6. UnitsOf(rows, p) = QtyOf(rows, p)[r] + UnitsOf(rest, p)
  BY <1>3, <1>5, UnitsSum
<1>7. QtyOf(rows, p)[r] = IF r.product = p THEN r.qty ELSE 0
  BY DEF QtyOf
<1>8. UnitsOf(rest, p) \in Nat /\ QtyOf(rows, p)[r] \in Int
  BY <1>1, <1>2, UnitsType
<1> HIDE DEF rest
<1>9. UnitsOf(rows, p) = UnitsOf(rest, p) + QtyOf(rows, p)[r]
  BY <1>6, <1>8
<1> QED
  BY <1>7, <1>9 DEF rest

-----------------------------------------------------------------------------
(* Units of a product in the lines of a request.                           *)

\* What each line counts for.
LineQty(w, p) ==
    [i \in 1 .. Len(tx[w].entries) |->
        IF tx[w].entries[i].product = p THEN tx[w].entries[i].qty ELSE 0]

\* Taken is a sum over the lines served so far.
LEMMA TakenSum ==
    ASSUME NEW w \in Workers, NEW p
    PROVE  Taken(w, p) = SumFunctionOnSet(LineQty(w, p), 1 .. tx[w].sold)
  BY DEF Taken, LineQty

\* The lines served hold a natural number of units.
LEMMA LineQtyType ==
    ASSUME TypeOK, NEW w \in Workers, NEW p
    PROVE  /\ \A i \in 1 .. Len(tx[w].entries) : LineQty(w, p)[i] \in Nat
           /\ tx[w].sold <= Len(tx[w].entries) => Taken(w, p) \in Nat
<1>1. \A i \in 1 .. Len(tx[w].entries) : LineQty(w, p)[i] \in Nat
  BY EntryTypes DEF LineQty
<1>2. ASSUME tx[w].sold <= Len(tx[w].entries) PROVE Taken(w, p) \in Nat
  <2>1. tx[w].sold \in Nat /\ Len(tx[w].entries) \in Nat
    BY EntryTypes
  <2> DEFINE S == 1 .. tx[w].sold
  <2>2. IsFiniteSet(S)
    BY <2>1, FS_Interval
  <2>3. \A i \in S : LineQty(w, p)[i] \in Int /\ LineQty(w, p)[i] >= 0
    <3>1. \A i \in S : i \in 1 .. Len(tx[w].entries)
      BY <1>2, <2>1
    <3> QED
      BY <1>1, <3>1
  <2> HIDE DEF S
  <2>4. SumFunctionOnSet(LineQty(w, p), S) \in Nat
    BY <2>2, <2>3, SumType
  <2> QED
    BY <2>4, TakenSum DEF S
<1> QED
  BY <1>1, <1>2

\* Before the first line is taken.
LEMMA NothingTaken ==
    ASSUME NEW w \in Workers, NEW p, tx[w].sold = 0
    PROVE  Taken(w, p) = 0
<1>1. 1 .. 0 = {}
  OBVIOUS
<1> QED
  BY <1>1, SumOfNothing, TakenSum

\* The rows of an order hold what its lines took, whichever batch they are.
LEMMA NewRowsUnits ==
    ASSUME TypeOK, NEW w \in Workers, NEW b \in Nat, NEW p, tx[w].sold = Len(tx[w].entries)
    PROVE  IsFiniteSet(NewRows(w, b)) /\ UnitsOf(NewRows(w, b), p) = Taken(w, p)
<1> DEFINE n == Len(tx[w].entries)
           R == [i \in 1 .. n |-> [batch |-> b, line |-> i, product |-> tx[w].entries[i].product,
                                   qty |-> tx[w].entries[i].qty, price |-> tx[w].entries[i].price]]
           g == QtyOf(NewRows(w, b), p)
<1>1. n \in Nat
  BY EntryTypes
<1>2. NewRows(w, b) = {R[i] : i \in 1 .. n}
  BY DEF NewRows
<1>3. \A i \in 1 .. n : R[i].line = i /\ R[i].product = tx[w].entries[i].product
                      /\ R[i].qty = tx[w].entries[i].qty /\ R[i] \in NewRows(w, b)
  BY <1>2
<1>0. R \in [1 .. n -> NewRows(w, b)]
  BY <1>3
<1>4. \A i \in 1 .. n : LineQty(w, p)[i] \in Int
  BY LineQtyType
<1> HIDE DEF R
<1>5. \A i \in 1 .. n : g[R[i]] = LineQty(w, p)[i]
  BY <1>3 DEF QtyOf, LineQty
<1>6. \A i, j \in 1 .. n : i # j => R[i] # R[j]
  BY <1>3
<1> HIDE DEF n, g
<1>7. \A x \in NewRows(w, b) : \E i \in 1 .. n : x = R[i]
  BY <1>2
<1>8. Lists(R, n, NewRows(w, b), LineQty(w, p), g)
  BY <1>4, <1>5, <1>6, <1>7, <1>0 DEF Lists
<1>9. /\ IsFiniteSet(NewRows(w, b))
      /\ SumFunctionOnSet(g, NewRows(w, b)) = SumFunctionOnSet(LineQty(w, p), 1 .. n)
  BY <1>1, <1>8, SumOfList
<1>10. UnitsOf(NewRows(w, b), p) = SumFunctionOnSet(g, NewRows(w, b))
  BY UnitsSum DEF g
<1>11. Taken(w, p) = SumFunctionOnSet(LineQty(w, p), 1 .. n)
  BY TakenSum DEF n
<1> QED
  BY <1>9, <1>10, <1>11

-----------------------------------------------------------------------------
(* Units of a product in the orders of a set S, whose rows table t keeps.  *)

HeldIn(S, t, p) == SumFunctionOnSet([o \in S |-> UnitsOf(t[o], p)], S)

Booked(S, t) ==
    IsFiniteSet(S) /\ \A o \in S : t[o] \in SUBSET ItemRow /\ IsFiniteSet(t[o])

\* Held is such a sum, over the orders that were not canceled.
LEMMA HeldSum == \A p : Held(p) = HeldIn(Standing, items, p)
  BY DEF Held, HeldIn, SumFunction

\* Orders hold an integer number of units.
LEMMA HeldType ==
    ASSUME NEW S, NEW t, Booked(S, t), NEW p
    PROVE  HeldIn(S, t, p) \in Int
<1> DEFINE f == [o \in S |-> UnitsOf(t[o], p)]
<1>1. \A o \in S : f[o] \in Int
  BY UnitsType DEF Booked
<1> HIDE DEF f
<1>2. SumFunctionOnSet(f, S) \in Int
  BY <1>1, SumType DEF Booked
<1> QED
  BY <1>2 DEF HeldIn, f

\* The tables t and t2 differ in the rows of order o only.
SameBut(o, S, t, t2) == \A q \in S \ {o} : t2[q] = t[q]

\* Order o is in S2 and not in S, and this is all the difference.
Joins(o, S, S2) == o \notin S /\ S2 = S \cup {o}

\* An order is made.
LEMMA HeldMore ==
    ASSUME NEW S, NEW S2, NEW t, NEW t2, NEW o, NEW p, Joins(o, S, S2), Booked(S, t), Booked(S2, t2),
           SameBut(o, S, t, t2)
    PROVE  HeldIn(S2, t2, p) = HeldIn(S, t, p) + UnitsOf(t2[o], p)
<1> USE DEF Joins, SameBut
<1> DEFINE f == [q \in S |-> UnitsOf(t[q], p)]
           g == [q \in S2 |-> UnitsOf(t2[q], p)]
<1>1. \A q \in S \cup {o} : g[q] \in Int
  BY UnitsType DEF Booked
<1>2. (\A q \in S : f[q] = g[q]) /\ g[o] = UnitsOf(t2[o], p) /\ IsFiniteSet(S)
  BY DEF Booked
<1> HIDE DEF f, g
<1>3. SumFunctionOnSet(g, S \cup {o}) = SumFunctionOnSet(g, S) + g[o]
  BY <1>1, <1>2, SumWith
<1>4. SumFunctionOnSet(f, S) = SumFunctionOnSet(g, S)
  BY <1>2, SumSame
<1> QED
  BY <1>2, <1>3, <1>4 DEF HeldIn, f, g

\* The rows of an order change.
LEMMA HeldOther ==
    ASSUME NEW S, NEW t, NEW t2, NEW o, NEW p, o \in S, Booked(S, t), Booked(S, t2),
           SameBut(o, S, t, t2)
    PROVE  HeldIn(S, t2, p) = HeldIn(S, t, p) - UnitsOf(t[o], p) + UnitsOf(t2[o], p)
<1> DEFINE f == [q \in S |-> UnitsOf(t[q], p)]
           g == [q \in S |-> UnitsOf(t2[q], p)]
<1>1. \A q \in S : f[q] \in Int /\ g[q] \in Int
  BY UnitsType DEF Booked
<1>2. /\ \A q \in S \ {o} : g[q] = f[q]
      /\ f[o] = UnitsOf(t[o], p) /\ g[o] = UnitsOf(t2[o], p) /\ IsFiniteSet(S)
  BY DEF Booked, SameBut
<1> HIDE DEF f, g
<1>3. SumFunctionOnSet(g, S) = SumFunctionOnSet(f, S) - f[o] + g[o]
  BY <1>1, <1>2, SumChanged
<1> QED
  BY <1>2, <1>3 DEF HeldIn, f, g

\* An order is canceled.
LEMMA HeldLess ==
    ASSUME NEW S, NEW S2, NEW t, NEW o, NEW p, Joins(o, S, S2), Booked(S2, t)
    PROVE  HeldIn(S, t, p) = HeldIn(S2, t, p) - UnitsOf(t[o], p)
<1>1. Booked(S, t) /\ o \in S2
  <2>1. S = S2 \ {o} /\ o \in S2
    BY DEF Joins
  <2> QED
    BY <2>1, FS_RemoveElement DEF Booked
<1>2. HeldIn(S, t, p) \in Int /\ UnitsOf(t[o], p) \in Int
  BY <1>1, HeldType, UnitsType DEF Booked
<1>3. SameBut(o, S, t, t)
  BY DEF SameBut
<1>4. HeldIn(S2, t, p) = HeldIn(S, t, p) + UnitsOf(t[o], p)
  BY <1>1, <1>3, HeldMore
<1> QED
  BY <1>2, <1>4

\* No order holds the product.
LEMMA HeldNone ==
    ASSUME NEW S, NEW t, NEW p, Booked(S, t), \A o \in S : \A r \in t[o] : r.product # p
    PROVE  HeldIn(S, t, p) = 0
<1> DEFINE f == [o \in S |-> UnitsOf(t[o], p)]
<1>1. \A o \in S : f[o] = 0
  BY NoUnits DEF Booked
<1> HIDE DEF f
<1> QED
  BY <1>1, SumOfZeros DEF HeldIn, f, Booked

-----------------------------------------------------------------------------
(* What a request owes, while others step.                                 *)

\* v does not step, and the order it has read stays as it is.
Settled(v) ==
    /\ pc'[v] = pc[v] /\ call'[v] = call[v] /\ tx'[v] = tx[v]
    /\ pc[v] \notin {"idle", "order"} /\ call[v].op # "create" =>
           orders'[call[v].order] = orders[call[v].order] /\ items'[call[v].order] = items[call[v].order]

\* What a request owes is left alone by the steps of the others.
LEMMA LedgerStays ==
    ASSUME NEW v \in Workers, Reaches(v), Ledger(v), Settled(v)
    PROVE  Ledger(v)'
<1>1. Restoring(v)'
  BY DEF Ledger, Restoring, Settled, Reaches
<1>2. StockOwed(v)'
  <2>1. \A p : Taken(v, p)' = Taken(v, p)
    BY DEF Settled, Taken
  <2>2. pc[v] \in InTransaction => PutBack(v)' = PutBack(v)
    BY DEF Settled, PutBack, InTransaction
  <2>3. pc[v] \in InTransaction => \A p : UnitsOf(PutBack(v)', p) = UnitsOf(PutBack(v), p)
    BY <2>2
  <2> QED
    BY <2>1, <2>3 DEF Ledger, StockOwed, Settled
<1>3. PromoOwed(v)'
  BY DEF Ledger, PromoOwed, Settled
<1> QED
  BY <1>1, <1>2, <1>3 DEF Ledger

\* A step of w that leaves the tables alone.
LEMMA QuietAccount ==
    ASSUME IInv, AccountInv, UNCHANGED <<product, promo, orders, items, supplied>>,
           NEW w \in Workers, OnlyOf(w), Ledger(w)'
    PROVE  AccountInv'
<1>1. \A v \in Workers \ {w} : Ledger(v)'
  BY LedgerStays DEF OnlyOf, Settled, AccountInv, IInv, WorkerInv
<1>2. Placed' = Placed /\ Standing' = Standing
  BY DEF Placed, Standing
<1>3. FiniteTables'
  BY <1>2 DEF AccountInv, FiniteTables
<1>4. Conservation'
  BY <1>2 DEF AccountInv, Conservation, Held
<1>5. PromoAccounting' /\ Unlisted'
  BY <1>2 DEF AccountInv, PromoAccounting, Unlisted
<1> QED
  BY <1>1, <1>3, <1>4, <1>5 DEF AccountInv

\* A request ends, and nothing of it remains.
LEMMA EndAccount ==
    ASSUME IInv, AccountInv, NEW w \in Workers, Return(w), UNCHANGED <<now, tables, supplied>>
    PROVE  AccountInv'
<1>1. OnlyOf(w) /\ pc'[w] = "idle" /\ call'[w] = None /\ tx'[w] = NoTx
  BY Returned DEF Return, IInv, TypeOK, OrdersType
<1>2. Ledger(w)'
  BY <1>1 DEF Ledger, Restoring, StockOwed, PromoOwed, NoTx, InTransaction
<1> QED
  BY <1>1, <1>2, QuietAccount DEF tables

-----------------------------------------------------------------------------
(* What a request owes, step by step. *)

\* Before BEGIN nothing is owed.
LEMMA OwesNothing ==
    ASSUME IInv, AccountInv, NEW w \in Workers, pc[w] \notin InTransaction
    PROVE  /\ \A p \in Products : tx[w].delta[p] = 0
           /\ pc[w] # "restore" /\ tx[w].todo = {} /\ tx[w].next = None
           /\ tx[w].sold = 0 /\ tx[w].uses = 0 /\ tx[w].keep = FALSE
<1>1. Ledger(w) /\ WorkerInv(w) /\ pc[w] \in Labels /\ tx[w] \in Tx
  BY DEF AccountInv, IInv, TypeOK, OrdersType
<1>2. tx[w].sold = 0
  <2>1. CASE pc[w] = "idle"
    BY <1>1, <2>1 DEF WorkerInv, IdleClean, NoTx
  <2>2. CASE pc[w] # "idle"
    BY <1>1, <2>2 DEF WorkerInv, Progress, Labels, InTransaction
  <2> QED
    BY <2>1, <2>2
<1>3. tx[w].uses = 0 /\ tx[w].keep = FALSE
  BY <1>1 DEF WorkerInv, PromoLocked, InTransaction, Tx
<1> QED
  BY <1>1, <1>2, <1>3 DEF Ledger, Restoring, StockOwed, InTransaction

\* The statements before BEGIN.
LEMMA BeforeBegin ==
    ASSUME IInv, AccountInv, NEW w \in Workers,
           StartAny(w) \/ GetOrderByID(w) \/ CheckRateLimit(w)
    PROVE  AccountInv'
<1> USE DEF storeVars, tables
<1>1. tx[w] \in Tx /\ tx \in [Workers -> Tx] /\ pc \in [Workers -> Labels] /\ Reaches(w) /\ Ledger(w)
  BY DEF AccountInv, IInv, TypeOK, OrdersType, WorkerInv
<1>2. pc[w] \notin InTransaction
  BY DEF StartAny, StartCreate, StartUpdate, StartOther, Start, GetOrderByID, CheckRateLimit,
         InTransaction
<1> DEFINE Fits ==
      /\ UNCHANGED <<product, promo, orders, items, supplied>> /\ OnlyOf(w)
      /\ pc'[w] \in {"order", "limit", "active", "items"}
      /\ tx'[w].delta = tx[w].delta /\ tx'[w].todo = tx[w].todo /\ tx'[w].next = tx[w].next
      /\ tx'[w].sold = tx[w].sold
      /\ pc'[w] # "order" /\ call'[w].op # "create" =>
             tx'[w].seen.promo = orders[call'[w].order].promo
<1>3. Fits
  <2>1. CASE StartAny(w)
    <3>1. PICK c \in Call, label \in {"order", "limit"} :
               Start(w, c, label) /\ (label = "limit" <=> c.op = "create")
      BY <2>1, Started
    <3> QED
      BY <1>1, <3>1 DEF Start, OnlyOf, IInv, TypeOK, OrdersType
  <2>2. CASE GetOrderByID(w)
    BY <1>1, <2>2 DEF GetOrderByID, GoTo, OnlyOf, Tx
  <2>3. CASE CheckRateLimit(w)
    BY <1>1, <2>3 DEF CheckRateLimit, GoTo, OnlyOf, Ledger, PromoOwed, Labels
  <2> QED
    BY <2>1, <2>2, <2>3
<1>4. Ledger(w)'
  BY <1>2, <1>3, OwesNothing DEF Ledger, Restoring, StockOwed, PromoOwed, InTransaction
<1> QED
  BY <1>3, <1>4, QuietAccount

\* No rows, no units.
LEMMA NoRows == \A p : UnitsOf({}, p) = 0
  BY FS_EmptySet, NoUnits

\* The active-order check reads only.
LEMMA GetActiveOrderAccount ==
    ASSUME IInv, AccountInv, NEW w \in Workers, GetActiveOrder(w)
    PROVE  AccountInv'
<1> USE DEF storeVars, tables
<1>1. tx[w] \in Tx /\ tx \in [Workers -> Tx] /\ pc \in [Workers -> Labels]
  BY DEF IInv, TypeOK, OrdersType
<1>2. /\ UNCHANGED <<product, promo, orders, items, supplied>> /\ OnlyOf(w) /\ call' = call
      /\ pc[w] = "active" /\ pc'[w] = "lines" /\ call[w].op = "create"
      /\ tx'[w].delta = tx[w].delta /\ tx'[w].todo = tx[w].todo /\ tx'[w].next = tx[w].next
      /\ tx'[w].sold = tx[w].sold
  BY <1>1 DEF GetActiveOrder, GoTo, OnlyOf, Tx, IInv, WorkerInv, Reaches
<1>3. /\ \A p \in Products : tx[w].delta[p] = 0
      /\ tx[w].todo = {} /\ tx[w].next = None /\ tx[w].sold = 0
  BY <1>2, OwesNothing DEF InTransaction
<1>4. Restoring(w)' /\ PromoOwed(w)'
  BY <1>2, <1>3 DEF Restoring, PromoOwed
<1>5. StockOwed(w)'
  <2>1. \A p : Taken(w, p)' = 0
    BY <1>2, <1>3, SumOfNothing DEF Taken
  <2>2. PutBack(w)' = {}
    BY <1>2 DEF PutBack
  <2>3. \A p : UnitsOf(PutBack(w)', p) = 0
    BY <2>2, NoRows
  <2> QED
    BY <1>2, <1>3, <2>1, <2>3 DEF StockOwed
<1> QED
  BY <1>2, <1>4, <1>5, QuietAccount DEF Ledger

\* Reading the rows to put back fixes what UpdateOrder and CancelOrder owe.
LEMMA GetOrderItemsAccount ==
    ASSUME IInv, AccountInv, NEW w \in Workers, GetOrderItems(w)
    PROVE  AccountInv'
<1> USE DEF storeVars, tables
<1> DEFINE rows == items[call[w].order]
<1>1. tx[w] \in Tx /\ tx \in [Workers -> Tx] /\ pc \in [Workers -> Labels] /\ Reaches(w)
      /\ pc[w] = "items" /\ call[w].op \in {"update", "cancel"} /\ call[w].order \in OrderIds
  BY DEF GetOrderItems, IInv, TypeOK, OrdersType, WorkerInv, Reaches, Call, Ops
<1>2. PICK r \in rows \cup {None} :
        /\ RestoreNext(w, rows, r)
        /\ tx' = [tx EXCEPT ![w].began = now, ![w].next = r, ![w].todo = rows \ {r}]
  BY DEF GetOrderItems
<1>3. None \notin rows
  BY <1>1, StoreAssumption DEF IInv, TypeOK, StoreType
<1>4. /\ UNCHANGED <<product, promo, orders, items, supplied>> /\ OnlyOf(w) /\ call' = call
      /\ tx'[w].delta = tx[w].delta /\ tx'[w].sold = tx[w].sold /\ tx'[w].seen = tx[w].seen
      /\ tx'[w].uses = tx[w].uses /\ tx'[w].next = r /\ tx'[w].todo = rows \ {r}
  BY <1>1, <1>2 DEF GetOrderItems, RestoreNext, GoTo, OnlyOf, Tx
<1>5. /\ r = None => rows = {} /\ pc'[w] = AfterRestore(w)
      /\ r # None => r \in rows /\ pc'[w] = "restore"
  BY <1>1, <1>2, <1>3 DEF RestoreNext, GoTo
<1>6. pc'[w] \in {"restore", "lines", "promo", "write"}
      /\ (pc'[w] = "promo" => call[w].op = "cancel")
      /\ (pc'[w] = "write" => call[w].op = "cancel" /\ tx[w].seen.promo = None)
  BY <1>1, <1>5 DEF AfterRestore, PromoOf
<1>7. /\ \A p \in Products : tx[w].delta[p] = 0
      /\ tx[w].sold = 0 /\ tx[w].uses = 0
  BY <1>1, OwesNothing DEF InTransaction
<1>8. Restoring(w)'
  BY <1>4, <1>5, <1>6, <1>7 DEF Restoring, AfterRestore
<1>9. PromoOwed(w)'
  BY <1>1, <1>4, <1>6, <1>7 DEF PromoOwed, AccountInv, Ledger
<1>10. StockOwed(w)'
  <2>1. \A p : Taken(w, p)' = 0
    BY <1>4, <1>7, SumOfNothing DEF Taken
  <2>2. PutBack(w)' = {}
    BY <1>1, <1>4, <1>5 DEF PutBack
  <2>3. \A p : UnitsOf(PutBack(w)', p) = 0
    BY <2>2, NoRows
  <2> QED
    BY <1>4, <1>7, <2>1, <2>3 DEF StockOwed
<1> QED
  BY <1>4, <1>8, <1>9, <1>10, QuietAccount DEF Ledger

\* A row put back moves its units from the rows to the delta of the transaction.
LEMMA IncrementStockAccount ==
    ASSUME IInv, AccountInv, NEW w \in Workers, IncrementStock(w)
    PROVE  AccountInv'
<1> USE DEF storeVars, tables
<1> DEFINE rows == items[call[w].order]
           old == tx[w].next
<1>1. tx[w] \in Tx /\ tx \in [Workers -> Tx] /\ pc \in [Workers -> Labels] /\ Reaches(w)
      /\ pc[w] = "restore" /\ call[w].op \in {"update", "cancel"} /\ call[w].order \in OrderIds
  BY DEF IncrementStock, IInv, TypeOK, OrdersType, WorkerInv, Reaches, Call, Ops
<1>2. Restoring(w) /\ StockOwed(w) /\ PromoOwed(w) /\ PromoLocked(w)
  BY DEF AccountInv, Ledger, IInv, WorkerInv
<1>3. PICK r \in tx[w].todo \cup {None} :
        /\ RestoreNext(w, tx[w].todo, r)
        /\ tx' = [tx EXCEPT ![w].delta[old.product] = @ + old.qty,
                            ![w].next = r, ![w].todo = @ \ {r}]
  BY DEF IncrementStock
<1>4. /\ tx[w].todo \subseteq rows /\ old \in rows \ tx[w].todo
      /\ rows \in SUBSET ItemRow /\ IsFiniteSet(rows) /\ None \notin rows
  BY <1>1, <1>2, StoreAssumption DEF Restoring, IInv, TypeOK, StoreType, AccountInv, FiniteTables
<1>5. /\ UNCHANGED <<product, promo, orders, items, supplied>> /\ OnlyOf(w) /\ call' = call
      /\ tx'[w].delta = [tx[w].delta EXCEPT ![old.product] = @ + old.qty]
      /\ tx'[w].sold = tx[w].sold /\ tx'[w].seen = tx[w].seen /\ tx'[w].entries = tx[w].entries
      /\ tx'[w].uses = tx[w].uses /\ tx'[w].next = r /\ tx'[w].todo = tx[w].todo \ {r}
  BY <1>1, <1>3 DEF IncrementStock, RestoreNext, GoTo, OnlyOf, Tx
<1>6. /\ r = None => tx[w].todo = {} /\ pc'[w] = AfterRestore(w)
      /\ r # None => r \in tx[w].todo /\ pc'[w] = "restore"
  BY <1>1, <1>3, <1>4 DEF RestoreNext, GoTo
<1>7. pc'[w] \in {"restore", "lines", "promo", "write"}
      /\ (pc'[w] = "promo" => call[w].op = "cancel")
      /\ (pc'[w] = "write" => call[w].op = "cancel" /\ tx[w].seen.promo = None)
  BY <1>1, <1>6 DEF AfterRestore, PromoOf
<1>8. tx[w].uses = 0
  BY <1>1, <1>2 DEF PromoLocked
<1>9. Restoring(w)'
  <2>1. call[w].op = "cancel" => tx[w].sold = 0
    BY <1>1, <1>2, OrdersAssumption DEF Restoring, Reaches
  <2>2. CASE r = None
    BY <1>5, <1>6, <1>7, <2>1, <2>2 DEF Restoring, AfterRestore
  <2>3. CASE r # None
    BY <1>4, <1>5, <1>6, <2>1, <2>3 DEF Restoring
  <2> QED
    BY <2>2, <2>3
<1>10. PromoOwed(w)'
  BY <1>1, <1>2, <1>5, <1>7, <1>8 DEF PromoOwed
<1>11. StockOwed(w)'
  <2> DEFINE back == rows \ tx[w].todo
  <2>1. PutBack(w) = back \ {old} /\ PutBack(w)' = back /\ old \in back
    BY <1>1, <1>4, <1>5, <1>6 DEF PutBack
  <2>2. back \in SUBSET ItemRow /\ IsFiniteSet(back)
    BY <1>4, FS_Subset
  <2>3. \A p : Taken(w, p)' = Taken(w, p)
    BY <1>5 DEF Taken
  <2> SUFFICES ASSUME NEW p \in Products
               PROVE  tx'[w].delta[p] = UnitsOf(back, p) - Taken(w, p)
    BY <1>7, <2>1, <2>3 DEF StockOwed, InTransaction
  <2>4. tx[w].delta[p] = UnitsOf(back \ {old}, p) - Taken(w, p)
    BY <1>1, <1>2, <2>1 DEF StockOwed, InTransaction
  <2>5. UnitsOf(back, p) = UnitsOf(back \ {old}, p) + (IF old.product = p THEN old.qty ELSE 0)
    BY <2>1, <2>2, UnitsWithout
  <2>6. tx'[w].delta[p] = tx[w].delta[p] + (IF old.product = p THEN old.qty ELSE 0)
    <3>1. tx[w].delta \in [Products -> Int]
      BY <1>1 DEF Tx
    <3> HIDE DEF old
    <3> QED
      BY <1>5, <3>1
  <2>7. /\ UnitsOf(back \ {old}, p) \in Int /\ (IF old.product = p THEN old.qty ELSE 0) \in Int
    <3>1. UnitsOf(back \ {old}, p) \in Nat
      BY <2>2, FS_RemoveElement, UnitsType
    <3>2. old.qty \in Nat
      BY <2>1, <2>2 DEF ItemRow
    <3> QED
      BY <3>1, <3>2
  <2>8. Taken(w, p) \in Int
    BY <1>1, LineQtyType DEF IInv, WorkerInv, Progress
  <2> HIDE DEF back, old
  <2> QED
    BY <2>4, <2>5, <2>6, <2>7, <2>8
<1> QED
  BY <1>5, <1>9, <1>10, <1>11, QuietAccount DEF Ledger

\* What the lines of an open transaction have taken.
LEMMA TakenType ==
    ASSUME IInv, AccountInv, NEW w \in Workers, pc[w] # "idle", NEW p
    PROVE  Taken(w, p) \in Nat
<1>1. tx[w].sold <= Len(tx[w].entries) \/ tx[w].sold = 0
  <2>1. /\ Progress(w) /\ Reaches(w) /\ Restoring(w) /\ pc[w] \in Labels
        /\ tx[w].sold \in Nat /\ Len(tx[w].entries) \in Nat
    BY EntryTypes DEF IInv, WorkerInv, TypeOK, OrdersType, AccountInv, Ledger
  <2>2. CASE pc[w] = "stock"
    BY <2>1, <2>2 DEF Progress
  <2>3. CASE pc[w] \in {"promo", "claim", "delete", "write"}
    BY <2>1, <2>3 DEF Restoring, Reaches
  <2> QED
    BY <2>1, <2>2, <2>3 DEF Progress, Labels
<1>2. tx[w].sold = 0 => Taken(w, p) = 0
  BY NothingTaken
<1> QED
  BY <1>1, <1>2, LineQtyType DEF IInv

\* Locking a product moves no units.
LEMMA GetProductForUpdateAccount ==
    ASSUME IInv, AccountInv, NEW w \in Workers, GetProductForUpdate(w)
    PROVE  AccountInv'
<1> USE DEF storeVars, tables
<1>1. tx[w] \in Tx /\ tx \in [Workers -> Tx] /\ pc \in [Workers -> Labels]
      /\ pc[w] = "lines" /\ tx[w].sold = 0
  BY DEF GetProductForUpdate, ReadsProduct, IInv, TypeOK, OrdersType, WorkerInv, Progress
<1>2. /\ UNCHANGED <<product, promo, orders, items, supplied>> /\ OnlyOf(w) /\ call' = call
      /\ pc'[w] \in {"lines", "stock"}
      /\ tx'[w].delta = tx[w].delta /\ tx'[w].todo = tx[w].todo /\ tx'[w].next = tx[w].next
      /\ tx'[w].sold = tx[w].sold /\ tx'[w].seen = tx[w].seen
  BY <1>1 DEF GetProductForUpdate, GoTo, OnlyOf, Tx
<1>3. Restoring(w) /\ StockOwed(w) /\ PromoOwed(w)
  BY DEF AccountInv, Ledger
<1>4. Restoring(w)' /\ PromoOwed(w)'
  BY <1>1, <1>2, <1>3 DEF Restoring, PromoOwed
<1>5. StockOwed(w)'
  <2>1. \A p : Taken(w, p)' = 0 /\ Taken(w, p) = 0
    BY <1>1, <1>2, SumOfNothing DEF Taken
  <2>2. PutBack(w)' = PutBack(w)
    BY <1>2 DEF PutBack
  <2>3. \A p : UnitsOf(PutBack(w)', p) = UnitsOf(PutBack(w), p)
    BY <2>2
  <2> QED
    BY <1>1, <1>2, <1>3, <2>1, <2>3 DEF StockOwed, InTransaction
<1> QED
  BY <1>2, <1>4, <1>5, QuietAccount DEF Ledger

\* A line served moves its units to the delta of the transaction.
LEMMA DecrementStockAccount ==
    ASSUME IInv, AccountInv, NEW w \in Workers, DecrementStock(w)
    PROVE  AccountInv'
<1> USE DEF storeVars, tables
<1> DEFINE i == tx[w].sold + 1
           e == tx[w].entries[i]
<1>1. tx[w] \in Tx /\ tx \in [Workers -> Tx] /\ pc \in [Workers -> Labels]
      /\ pc[w] = "stock" /\ call[w].op \in {"create", "update"} /\ tx[w].sold < Len(tx[w].entries)
  BY DEF DecrementStock, IInv, TypeOK, OrdersType, WorkerInv, Progress, Reaches
<1>2. /\ tx[w].sold \in Nat /\ Len(tx[w].entries) \in Nat /\ i \in 1 .. Len(tx[w].entries)
      /\ e.product \in Products /\ e.qty \in Nat \ {0} /\ tx[w].delta \in [Products -> Int]
  <2>1. tx[w].sold \in Nat /\ Len(tx[w].entries) \in Nat /\ tx[w].delta \in [Products -> Int]
    BY EntryTypes DEF IInv
  <2>2. i \in 1 .. Len(tx[w].entries)
    BY <1>1, <2>1
  <2> QED
    BY <2>1, <2>2, EntryTypes DEF IInv
<1>3. /\ UNCHANGED <<product, promo, orders, items, supplied>> /\ OnlyOf(w) /\ call' = call
      /\ pc'[w] = IF i = Len(tx[w].entries) THEN AfterStock(w) ELSE "stock"
      /\ tx'[w].delta = [tx[w].delta EXCEPT ![e.product] = @ - e.qty]
      /\ tx'[w].todo = tx[w].todo /\ tx'[w].next = tx[w].next
      /\ tx'[w].entries = tx[w].entries /\ tx'[w].keep = tx[w].keep /\ tx'[w].uses = tx[w].uses
      /\ tx'[w].sold = i /\ tx'[w].seen = tx[w].seen
  BY <1>1 DEF DecrementStock, CurrentSale, GoTo, OnlyOf, Tx
<1>4. Restoring(w) /\ StockOwed(w) /\ PromoOwed(w) /\ PromoLocked(w)
  BY DEF AccountInv, Ledger, IInv, WorkerInv
<1>5. /\ pc'[w] \in {"stock", "promo", "write", "delete"}
      /\ pc'[w] # "stock" => i = Len(tx[w].entries)
      /\ pc'[w] = "write" => call[w].op = "create" /\ call[w].code = None
      /\ pc'[w] = "delete" => tx[w].seen.promo = None
      /\ tx[w].uses = 0 /\ tx[w].keep = FALSE
  BY <1>1, <1>3, <1>4 DEF AfterStock, PromoOf, PromoLocked, Tx
<1>6. tx[w].entries # <<>>
  BY <1>1, <1>2
<1>7. Restoring(w)'
  BY <1>1, <1>3, <1>4, <1>5, <1>6 DEF Restoring
<1>8. PromoOwed(w)'
  BY <1>1, <1>3, <1>4, <1>5 DEF PromoOwed
<1>9. StockOwed(w)'
  <2>1. PutBack(w)' = PutBack(w)
    BY <1>3 DEF PutBack
  <2>2. \A p : UnitsOf(PutBack(w)', p) = UnitsOf(PutBack(w), p)
    BY <2>1
  <2> SUFFICES ASSUME NEW p \in Products
               PROVE  tx'[w].delta[p] = UnitsOf(PutBack(w), p) - Taken(w, p)'
    BY <1>5, <2>2 DEF StockOwed, InTransaction
  <2>3. tx[w].delta[p] = UnitsOf(PutBack(w), p) - Taken(w, p)
    BY <1>1, <1>4 DEF StockOwed, InTransaction
  <2>4. tx'[w].delta[p] = tx[w].delta[p] - (IF e.product = p THEN e.qty ELSE 0)
    <3> HIDE DEF e
    <3> QED
      BY <1>2, <1>3
  <2>5. Taken(w, p)' = Taken(w, p) + (IF e.product = p THEN e.qty ELSE 0)
    <3> DEFINE S == 1 .. tx[w].sold
               f == LineQty(w, p)
    <3>1. 1 .. i = S \cup {i} /\ i \notin S /\ S \cup {i} \subseteq 1 .. Len(tx[w].entries)
      BY <1>1, <1>2
    <3>2. IsFiniteSet(S)
      <4>1. 1 \in Int /\ tx[w].sold \in Int
        BY <1>2
      <4> QED
        BY <4>1, FS_Interval
    <3>3. Taken(w, p)' = SumFunctionOnSet(f, 1 .. i)
      BY <1>3 DEF Taken, LineQty
    <3>4. Taken(w, p) = SumFunctionOnSet(f, S)
      BY TakenSum
    <3>5. f[i] = IF e.product = p THEN e.qty ELSE 0
      BY <1>2 DEF LineQty
    <3>6. \A x \in S \cup {i} : f[x] \in Int
      BY <3>1, LineQtyType DEF IInv
    <3> HIDE DEF S, f, i, e
    <3>7. SumFunctionOnSet(f, S \cup {i}) = SumFunctionOnSet(f, S) + f[i]
      BY <3>1, <3>2, <3>6, SumWith
    <3> QED
      BY <3>1, <3>3, <3>4, <3>5, <3>7
  <2>6. (IF e.product = p THEN e.qty ELSE 0) \in Int
    BY <1>2
  <2>7. Taken(w, p) \in Int /\ UnitsOf(PutBack(w), p) \in Int
    <3>1. Taken(w, p) \in Nat
      BY <1>1, TakenType
    <3>2. PutBack(w) \in SUBSET ItemRow /\ IsFiniteSet(PutBack(w))
      <4>1. CASE call[w].op = "create"
        BY <4>1, FS_EmptySet DEF PutBack
      <4>2. CASE call[w].op = "update"
        <5>1. call[w].order \in OrderIds
          BY <1>1, <4>2 DEF IInv, TypeOK, OrdersType, WorkerInv, Reaches, Call
        <5> QED
          BY <4>2, <5>1, FS_Subset DEF PutBack, IInv, TypeOK, StoreType, AccountInv, FiniteTables
      <4> QED
        BY <1>1, <4>1, <4>2
    <3>3. UnitsOf(PutBack(w), p) \in Nat
      BY <3>2, UnitsType
    <3> QED
      BY <3>1, <3>3
  <2> HIDE DEF e
  <2> QED
    BY <2>3, <2>4, <2>5, <2>6, <2>7
<1> QED
  BY <1>3, <1>7, <1>8, <1>9, QuietAccount DEF Ledger

-----------------------------------------------------------------------------
(* The promo code of an order. *)

\* The orders that carry code c and were not canceled.
Carriers(c) == {o \in Standing : orders[o].promo = c}

\* The code of an order that stands has been counted.
LEMMA CodeCounted ==
    ASSUME IInv, SerialInv, AccountInv, NEW w \in Workers, pc[w] \in {"promo", "delete", "write"},
           call[w].op \in {"update", "cancel"}, tx[w].seen.promo # None
    PROVE  /\ tx[w].seen.promo \in Codes /\ promo[tx[w].seen.promo] # None
           /\ call[w].order \in Carriers(tx[w].seen.promo)
           /\ promo[tx[w].seen.promo].uses > 0
<1> DEFINE c == tx[w].seen.promo
<1>1. c \in Codes /\ promo[c] # None /\ orders[call[w].order].promo = c
  <2>1. tx[w].seen # None /\ promo[c] # None /\ orders[call[w].order].promo = c
    BY DEF IInv, WorkerInv, Reaches, AccountInv, Ledger, PromoOwed
  <2>2. tx[w].seen \in OrderRow
    BY <2>1 DEF IInv, TypeOK, OrdersType, Tx
  <2> QED
    BY <2>1, <2>2 DEF OrderRow
<1>2. call[w].order \in Carriers(c)
  BY <1>1 DEF SerialInv, Decided, Carriers
<1>3. promo[c].uses = Cardinality(Carriers(c))
  BY <1>1 DEF AccountInv, PromoAccounting, Carriers
<1>4. IsFiniteSet(Carriers(c))
  BY FS_Subset DEF Carriers, Standing, AccountInv, FiniteTables
<1>5. Cardinality(Carriers(c)) \in Nat /\ Cardinality(Carriers(c)) # 0
  BY <1>2, <1>4, FS_CardinalityType, FS_EmptySet
<1> QED
  BY <1>1, <1>2, <1>3, <1>5

\* The statements about the promo code, and the DELETE.
LEMMA PromoStepsAccount ==
    ASSUME IInv, SerialInv, AccountInv, NEW w \in Workers,
           \/ GetPromoCodeByCode(w) \/ IncrementPromoUses(w)
           \/ GetPromoCodeForUpdate(w) \/ DecrementPromoUses(w) \/ DeleteOrderItems(w)
    PROVE  AccountInv'
<1> USE DEF storeVars, tables
<1>1. /\ tx[w] \in Tx /\ tx \in [Workers -> Tx] /\ pc \in [Workers -> Labels]
      /\ Restoring(w) /\ StockOwed(w) /\ PromoOwed(w) /\ PromoLocked(w) /\ Reaches(w)
  BY DEF IInv, TypeOK, OrdersType, AccountInv, Ledger, WorkerInv
<1> DEFINE Fits ==
      /\ UNCHANGED <<product, promo, orders, items, supplied>> /\ OnlyOf(w) /\ call' = call
      /\ pc[w] \in {"promo", "claim", "delete"} /\ pc'[w] \in {"claim", "delete", "write"}
      /\ tx'[w].delta = tx[w].delta /\ tx'[w].todo = tx[w].todo /\ tx'[w].next = tx[w].next
      /\ tx'[w].entries = tx[w].entries /\ tx'[w].sold = tx[w].sold /\ tx'[w].seen = tx[w].seen
<1>2. Fits
  <2>1. CASE GetPromoCodeByCode(w) \/ IncrementPromoUses(w)
    BY <1>1, <2>1 DEF GetPromoCodeByCode, IncrementPromoUses, GoTo, OnlyOf, Tx
  <2>2. CASE GetPromoCodeForUpdate(w) \/ DecrementPromoUses(w)
    BY <1>1, <2>2 DEF GetPromoCodeForUpdate, DecrementPromoUses, GoTo, OnlyOf, Tx
  <2>3. CASE DeleteOrderItems(w)
    BY <1>1, <2>3 DEF DeleteOrderItems, GoTo, OnlyOf, Tx
  <2> QED
    BY <2>1, <2>2, <2>3
<1>3. PromoOwed(w)'
  <2>1. CASE GetPromoCodeByCode(w)
    BY <1>1, <2>1 DEF GetPromoCodeByCode, GoTo, PromoOwed
  <2>2. CASE IncrementPromoUses(w)
    <3>1. /\ call[w].op = "create" /\ call[w].code # None
          /\ tx'[w].uses = 1 /\ tx'[w].keep = TRUE
      BY <1>1, <2>2 DEF IncrementPromoUses, Reaches, PromoLocked, Tx
    <3> QED
      BY <1>2, <3>1 DEF PromoOwed
  <2>3. CASE GetPromoCodeForUpdate(w)
    <3>1. /\ pc[w] = "promo" /\ call[w].op = "update" /\ tx[w].seen.promo # None
          /\ pc'[w] = "delete"
      BY <1>1, <2>3 DEF GetPromoCodeForUpdate, PromoLocked, PromoOf, GoTo
    <3>2. promo[tx[w].seen.promo].uses > 0
      BY <3>1, CodeCounted
    <3>3. tx'[w].keep \in BOOLEAN /\ tx'[w].uses = IF tx'[w].keep THEN 0 ELSE -1
      BY <1>1, <2>3, <3>1, <3>2 DEF GetPromoCodeForUpdate, PromoOf, Refund, Tx
    <3> QED
      BY <1>1, <1>2, <3>1, <3>3 DEF PromoOwed
  <2>4. CASE DecrementPromoUses(w)
    <3>1. /\ pc[w] = "promo" /\ call[w].op = "cancel" /\ tx[w].seen.promo # None
          /\ pc'[w] = "write"
      BY <1>1, <2>4 DEF DecrementPromoUses, PromoLocked, PromoOf, GoTo
    <3>2. promo[tx[w].seen.promo].uses > 0
      BY <3>1, CodeCounted
    <3>3. tx'[w].uses = -1
      BY <1>1, <2>4, <3>1, <3>2 DEF DecrementPromoUses, PromoOf, Refund, Tx
    <3> QED
      BY <1>1, <1>2, <3>1, <3>3 DEF PromoOwed
  <2>5. CASE DeleteOrderItems(w)
    <3>1. /\ pc[w] = "delete" /\ call[w].op = "update" /\ pc'[w] = "write"
          /\ tx'[w].keep = tx[w].keep /\ tx'[w].uses = tx[w].uses
      BY <1>1, <2>5 DEF DeleteOrderItems, Reaches, GoTo, Tx
    <3> QED
      BY <1>1, <1>2, <3>1 DEF PromoOwed
  <2> QED
    BY <2>1, <2>2, <2>3, <2>4, <2>5
<1>4. Restoring(w)'
  BY <1>1, <1>2 DEF Restoring, Reaches
<1>5. StockOwed(w)'
  <2>1. PutBack(w)' = PutBack(w)
    BY <1>2 DEF PutBack
  <2>2. \A p : UnitsOf(PutBack(w)', p) = UnitsOf(PutBack(w), p)
    BY <2>1
  <2>3. \A p : Taken(w, p)' = Taken(w, p)
    BY <1>2 DEF Taken
  <2> QED
    BY <1>1, <1>2, <2>2, <2>3 DEF StockOwed, InTransaction
<1> QED
  BY <1>2, <1>3, <1>4, <1>5, QuietAccount DEF Ledger

-----------------------------------------------------------------------------
(* Commits. *)

\* What a transaction has done to the stock when it commits.
LEMMA DeltaAtWrite ==
    ASSUME IInv, AccountInv, NEW w \in Workers, pc[w] = "write", NEW p \in Products
    PROVE  /\ call[w].op = "create" =>
                  \A b \in Nat : tx[w].delta[p] = 0 - UnitsOf(NewRows(w, b), p)
           /\ call[w].op = "update" =>
                  \A b \in Nat : tx[w].delta[p] = UnitsOf(items[call[w].order], p) - UnitsOf(NewRows(w, b), p)
           /\ call[w].op = "cancel" => tx[w].delta[p] = UnitsOf(items[call[w].order], p)
<1>1. /\ tx[w].todo = {} /\ tx[w].next = None
      /\ call[w].op \in {"create", "update"} => tx[w].sold = Len(tx[w].entries)
      /\ call[w].op = "cancel" => tx[w].sold = 0
      /\ tx[w].delta[p] = UnitsOf(PutBack(w), p) - Taken(w, p)
  BY OrdersAssumption DEF AccountInv, Ledger, Restoring, StockOwed, InTransaction, IInv, WorkerInv, Reaches
<1>2. call[w].op \in {"update", "cancel"} =>
        call[w].order \in OrderIds /\ None \notin items[call[w].order]
  BY WriteTypes, StoreAssumption DEF TypeOK, StoreType
<1>3. call[w].op \in {"update", "cancel"} => PutBack(w) = items[call[w].order]
  BY <1>1, <1>2 DEF PutBack
<1>4. call[w].op = "create" => UnitsOf(PutBack(w), p) = 0
  BY NoRows DEF PutBack
<1>5. call[w].op \in {"create", "update"} => \A b \in Nat : UnitsOf(NewRows(w, b), p) = Taken(w, p)
  BY <1>1, NewRowsUnits DEF IInv
<1>6. call[w].op = "cancel" => Taken(w, p) = 0
  BY <1>1, NothingTaken
<1>7. call[w].op \in {"update", "cancel"} => UnitsOf(PutBack(w), p) \in Nat
  BY <1>2, <1>3, UnitsType DEF IInv, TypeOK, StoreType, AccountInv, FiniteTables
<1> QED
  BY <1>1, <1>3, <1>4, <1>5, <1>6, <1>7

\* The committed stock moves by what the transaction has done to it.
LEMMA StockApplied ==
    ASSUME IInv, NEW w \in Workers, pc[w] = "write", ApplyWrites(w), NEW p \in Products
    PROVE  /\ product[p] = None => product'[p] = None
           /\ product[p] # None => /\ product'[p] # None
                                   /\ product'[p].stock = product[p].stock + tx[w].delta[p]
<1>1. /\ product'[p] = IF tx[w].delta[p] = 0 THEN product[p]
                       ELSE [product[p] EXCEPT !.stock = @ + tx[w].delta[p]]
  BY DEF ApplyWrites
<1>2. product[p] # None => product[p] \in ProductRow /\ product[p].stock \in Nat
  BY DEF IInv, TypeOK, StoreType, ProductRow
<1>3. product[p] = None => tx[w].delta[p] = 0
  BY DEF IInv, WorkerInv, StockLocked
<1>4. product[p] # None => product'[p] # None
  BY Applied
<1>5. tx[w].delta[p] # 0 => product[p] # None
  BY <1>3
<1> QED
  BY <1>1, <1>2, <1>3, <1>4 DEF ProductRow

\* A commit that adds to the stock what the orders give up conserves each product.
LEMMA CommitConserves ==
    ASSUME IInv, AccountInv, NEW w \in Workers, pc[w] = "write", ApplyWrites(w), supplied' = supplied,
           \A p \in Products : Held(p)' = Held(p) - tx[w].delta[p],
           \A p \in Products : Held(p) \in Int
    PROVE  Conservation' /\ Unlisted'
<1>0. Unlisted'
  BY StockApplied DEF AccountInv, Unlisted
<1> SUFFICES ASSUME NEW p \in Products, product'[p] # None
             PROVE  product'[p].stock + Held(p)' = supplied'[p]
  BY <1>0 DEF Conservation
<1>1. product[p] # None /\ product'[p].stock = product[p].stock + tx[w].delta[p]
  BY StockApplied
<1>2. product[p].stock + Held(p) = supplied[p]
  BY <1>1 DEF AccountInv, Conservation
<1>3. product[p].stock \in Int /\ tx[w].delta[p] \in Int /\ Held(p) \in Int
  BY <1>1 DEF IInv, TypeOK, StoreType, OrdersType, Tx, ProductRow
<1>4. Held(p)' = Held(p) - tx[w].delta[p]
  OBVIOUS
<1> QED
  BY <1>1, <1>2, <1>3, <1>4

\* The committed count of uses moves with the orders that carry the code.
LEMMA CommitCounts ==
    ASSUME IInv, AccountInv, NEW w \in Workers, pc[w] = "write", ApplyWrites(w), NEW o,
           \A c \in Codes :
               \/ /\ tx[w].uses = 1 /\ c = PromoOf(w)
                  /\ o \notin Carriers(c) /\ Carriers(c)' = Carriers(c) \cup {o}
               \/ /\ tx[w].uses = -1 /\ c = PromoOf(w)
                  /\ o \in Carriers(c) /\ Carriers(c)' = Carriers(c) \ {o}
               \/ /\ tx[w].uses = 0 \/ c # PromoOf(w)
                  /\ Carriers(c)' = Carriers(c)
    PROVE  PromoAccounting'
<1> SUFFICES ASSUME NEW c \in Codes, promo'[c] # None
             PROVE  promo'[c].uses = Cardinality(Carriers(c)')
  BY DEF PromoAccounting, Carriers
<1> DEFINE moves == tx[w].uses # 0 /\ c = PromoOf(w)
<1>1. promo'[c] = IF moves THEN [promo[c] EXCEPT !.uses = @ + tx[w].uses] ELSE promo[c]
  BY DEF ApplyWrites
<1>2. promo[c] # None
  BY <1>1 DEF IInv, WorkerInv, PromoLocked
<1>3. promo[c] \in PromoRow /\ promo[c].uses \in Nat
  BY <1>2 DEF IInv, TypeOK, StoreType, PromoRow
<1>4. promo'[c].uses = IF moves THEN promo[c].uses + tx[w].uses ELSE promo[c].uses
  BY <1>1, <1>3 DEF PromoRow
<1>5. promo[c].uses = Cardinality(Carriers(c))
  BY <1>2 DEF AccountInv, PromoAccounting, Carriers
<1>6. IsFiniteSet(Carriers(c))
  BY FS_Subset DEF Carriers, Standing, AccountInv, FiniteTables
<1>7. CASE /\ tx[w].uses = 1 /\ c = PromoOf(w)
           /\ o \notin Carriers(c) /\ Carriers(c)' = Carriers(c) \cup {o}
  <2>1. Cardinality(Carriers(c) \cup {o}) = Cardinality(Carriers(c)) + 1
    BY <1>6, <1>7, FS_AddElement
  <2> QED
    BY <1>4, <1>5, <1>7, <2>1
<1>8. CASE /\ tx[w].uses = -1 /\ c = PromoOf(w)
           /\ o \in Carriers(c) /\ Carriers(c)' = Carriers(c) \ {o}
  <2>1. Cardinality(Carriers(c) \ {o}) = Cardinality(Carriers(c)) - 1
    BY <1>6, <1>8, FS_RemoveElement
  <2> QED
    BY <1>3, <1>4, <1>5, <1>8, <2>1
<1>9. CASE (tx[w].uses = 0 \/ c # PromoOf(w)) /\ Carriers(c)' = Carriers(c)
  BY <1>4, <1>5, <1>9
<1> QED
  BY <1>7, <1>8, <1>9

\* The requests that do not commit owe what they owed.
LEMMA CommitLedgers ==
    ASSUME IInv, SerialInv, AccountInv, NEW w \in Workers, pc[w] = "write", Return(w),
           \A o \in Placed : o # call[w].order => orders'[o] = orders[o] /\ items'[o] = items[o]
    PROVE  \A v \in Workers : Ledger(v)'
<1>1. OnlyOf(w) /\ pc'[w] = "idle" /\ call'[w] = None /\ tx'[w] = NoTx
  BY Returned DEF Return, IInv, TypeOK, OrdersType
<1>2. Ledger(w)'
  BY <1>1 DEF Ledger, Restoring, StockOwed, PromoOwed, NoTx, InTransaction
<1>3. ASSUME NEW v \in Workers \ {w} PROVE Ledger(v)'
  <2>1. ASSUME pc[v] \notin {"idle", "order"}, call[v].op # "create"
        PROVE  orders'[call[v].order] = orders[call[v].order] /\ items'[call[v].order] = items[call[v].order]
    <3>1. call[v].order # None /\ call[v].order # call[w].order
      BY <2>1 DEF SerialInv, Disjoint, Busy, IInv, WorkerInv, Reaches
    <3>2. call[v].order \in Placed
      BY <2>1, <3>1 DEF IInv, TypeOK, OrdersType, WorkerInv, Reaches, Call, Placed
    <3> QED
      BY <3>1, <3>2
  <2>2. Settled(v)
    BY <1>1, <2>1 DEF OnlyOf, Settled
  <2> QED
    BY <2>2, LedgerStays DEF AccountInv, IInv, WorkerInv
<1> QED
  BY <1>2, <1>3

\* The tables of orders as the sums see them.
LEMMA StandingBooked ==
    ASSUME IInv, AccountInv
    PROVE  Booked(Standing, items) /\ \A p : Held(p) \in Int
<1>1. Booked(Standing, items)
  BY FS_Subset DEF Booked, Standing, Placed, IInv, TypeOK, StoreType, AccountInv, FiniteTables
<1> QED
  BY <1>1, HeldType, HeldSum

\* The commit of CreateOrder: the new order holds what its lines took.
LEMMA CommitCreateAccount ==
    ASSUME IInv, IInv', SerialInv, AccountInv, NEW w \in Workers, CommitCreate(w)
    PROVE  AccountInv'
<1>1. PICK o \in OrderIds :
        /\ orders[o] = None
        /\ orders' = [orders EXCEPT ![o] =
               [user |-> call[w].caller, status |-> "CREATED", promo |-> PromoWritten(w),
                billed |-> NewRows(w, 1)]]
        /\ items' = [items EXCEPT ![o] = NewRows(w, 1)]
  BY DEF CommitCreate
<1>2. pc[w] = "write" /\ call[w].op = "create" /\ ApplyWrites(w) /\ Return(w) /\ supplied' = supplied
  BY DEF CommitCreate, ApplyWrites
<1> DEFINE row == [user |-> call[w].caller, status |-> "CREATED", promo |-> PromoWritten(w),
                   billed |-> NewRows(w, 1)]
<1>3. row # None /\ row.status = "CREATED" /\ row.promo = PromoWritten(w)
  <2>1. orders'[o] = row /\ IInv'
    BY <1>1 DEF IInv, TypeOK, StoreType
  <2>2. row \in OrderRow
    BY <1>2, WriteTypes, NewRowsType DEF OrderRow, Call, OrderStatus
  <2> QED
    BY <2>2, StoreAssumption
<1> HIDE DEF row
<1>4. /\ orders'[o] = row /\ items'[o] = NewRows(w, 1)
      /\ \A q \in OrderIds \ {o} : orders'[q] = orders[q] /\ items'[q] = items[q]
  BY <1>1 DEF row, IInv, TypeOK, StoreType
<1>5. o \notin Placed /\ Placed' = Placed \cup {o} /\ Standing' = Standing \cup {o}
      /\ \A q \in Placed : orders'[q] = orders[q] /\ items'[q] = items[q]
  BY <1>1, <1>3, <1>4 DEF Placed, Standing
<1>6. IsFiniteSet(NewRows(w, 1)) /\ NewRows(w, 1) \in SUBSET ItemRow
  <2>1. tx[w].sold = Len(tx[w].entries)
    BY <1>2 DEF AccountInv, Ledger, Restoring, IInv, WorkerInv, Reaches
  <2> QED
    BY <2>1, NewRowsUnits, NewRowsType DEF IInv
<1>7. FiniteTables'
  <2>1. IsFiniteSet(Placed')
    BY <1>5, FS_AddElement DEF AccountInv, FiniteTables
  <2>2. \A q \in OrderIds : IsFiniteSet(items'[q])
    BY <1>4, <1>6 DEF AccountInv, FiniteTables
  <2> QED
    BY <2>1, <2>2 DEF FiniteTables
<1>8. \A v \in Workers : Ledger(v)'
  BY <1>2, <1>5, CommitLedgers
<1>9. Conservation' /\ Unlisted'
  <2> SUFFICES ASSUME NEW p \in Products PROVE Held(p)' = Held(p) - tx[w].delta[p]
    BY <1>2, CommitConserves, StandingBooked
  <2>1. tx[w].delta[p] = 0 - UnitsOf(NewRows(w, 1), p)
    BY <1>2, DeltaAtWrite
  <2>2. UnitsOf(NewRows(w, 1), p) \in Nat
    BY <1>6, UnitsType
  <2>3. Booked(Standing, items) /\ Held(p) \in Int /\ Held(p) = HeldIn(Standing, items, p)
    BY StandingBooked, HeldSum
  <2>4. Booked(Standing', items')
    <3>1. IsFiniteSet(Standing) /\ \A q \in Standing : items[q] \in SUBSET ItemRow /\ IsFiniteSet(items[q])
      BY <2>3 DEF Booked
    <3>2. IsFiniteSet(Standing')
      BY <1>5, <3>1, FS_AddElement
    <3>3. \A q \in Standing : items'[q] = items[q]
      BY <1>5 DEF Standing
    <3>4. \A q \in Standing' : items'[q] \in SUBSET ItemRow /\ IsFiniteSet(items'[q])
      BY <1>4, <1>5, <1>6, <3>1, <3>3
    <3> QED
      BY <3>2, <3>4 DEF Booked
  <2>5. Held(p)' = HeldIn(Standing', items', p)
    BY <1>5 DEF Held, HeldIn, SumFunction
  <2>6. Joins(o, Standing, Standing') /\ SameBut(o, Standing, items, items')
    BY <1>5 DEF Standing, Joins, SameBut
  <2>7. HeldIn(Standing', items', p) = HeldIn(Standing, items, p) + UnitsOf(items'[o], p)
    BY <2>3, <2>4, <2>6, HeldMore
  <2>8. UnitsOf(items'[o], p) = UnitsOf(NewRows(w, 1), p)
    BY <1>4
  <2> QED
    BY <1>5, <2>1, <2>2, <2>3, <2>5, <2>7, <2>8
<1>10. PromoAccounting'
  <2>1. PromoOf(w) = call[w].code /\ tx[w].keep = (call[w].code # None)
        /\ tx[w].uses = (IF tx[w].keep THEN 1 ELSE 0)
    BY <1>2 DEF PromoOf, AccountInv, Ledger, PromoOwed
  <2>2. row.promo = call[w].code
    BY <1>3, <2>1 DEF PromoWritten
  <2>3. ASSUME NEW c \in Codes
        PROVE  /\ o \notin Carriers(c)
               /\ c = call[w].code => Carriers(c)' = Carriers(c) \cup {o}
               /\ c # call[w].code => Carriers(c)' = Carriers(c)
    BY <1>4, <1>5, <2>2 DEF Carriers, Standing
  <2>4. \A c \in Codes : c # None
    BY StoreAssumption
  <2> QED
    BY <1>2, <2>1, <2>3, <2>4, CommitCounts
<1> QED
  BY <1>7, <1>8, <1>9, <1>10 DEF AccountInv

\* The order of an update or a cancel.
LEMMA OwnOrder ==
    ASSUME IInv, SerialInv, AccountInv, NEW w \in Workers, pc[w] = "write",
           call[w].op \in {"update", "cancel"}
    PROVE  /\ call[w].order \in OrderIds /\ call[w].order \in Standing
           /\ orders[call[w].order] \in OrderRow
           /\ PromoOf(w) = orders[call[w].order].promo /\ PromoOf(w) = tx[w].seen.promo
           /\ tx[w].uses = IF PromoOf(w) = None \/ (call[w].op = "update" /\ tx[w].keep) THEN 0 ELSE -1
<1>1. call[w].order \in OrderIds /\ call[w].order \in Standing
  BY WriteTypes DEF SerialInv, Decided
<1>2. orders[call[w].order] \in OrderRow
  BY <1>1 DEF IInv, TypeOK, StoreType, Standing, Placed
<1>3. PromoOf(w) = tx[w].seen.promo /\ tx[w].seen.promo = orders[call[w].order].promo
  BY DEF PromoOf, AccountInv, Ledger, PromoOwed
<1>4. tx[w].uses = IF PromoOf(w) = None \/ (call[w].op = "update" /\ tx[w].keep) THEN 0 ELSE -1
  BY <1>3 DEF AccountInv, Ledger, PromoOwed
<1> QED
  BY <1>1, <1>2, <1>3, <1>4

\* The commit of UpdateOrder: the new rows replace those that were put back.
LEMMA CommitUpdateAccount ==
    ASSUME IInv, IInv', SerialInv, AccountInv, NEW w \in Workers, CommitUpdate(w)
    PROVE  AccountInv'
<1> DEFINE o == call[w].order
<1>1. PICK b \in NextBatch(o) :
        /\ orders' = [orders EXCEPT ![o].promo = PromoWritten(w), ![o].billed = NewRows(w, b)]
        /\ items' = [items EXCEPT ![o] = (@ \ tx[w].doomed) \cup NewRows(w, b)]
  BY DEF CommitUpdate
<1>2. pc[w] = "write" /\ call[w].op = "update" /\ ApplyWrites(w) /\ Return(w) /\ supplied' = supplied
  BY DEF CommitUpdate, ApplyWrites
<1>3. /\ o \in OrderIds /\ o \in Standing /\ orders[o] \in OrderRow
      /\ PromoOf(w) = orders[o].promo
      /\ tx[w].uses = IF PromoOf(w) = None \/ tx[w].keep THEN 0 ELSE -1
  BY <1>2, OwnOrder
<1>4. b \in Nat
  BY <1>1, <1>3 DEF NextBatch, IInv, TypeOK, StoreType, ItemRow
<1>5. /\ orders'[o].promo = PromoWritten(w) /\ orders'[o].status = orders[o].status
      /\ orders'[o] # None
      /\ items'[o] = NewRows(w, b)
      /\ \A q \in OrderIds \ {o} : orders'[q] = orders[q] /\ items'[q] = items[q]
  <2>1. tx[w].doomed = items[o]
    BY <1>2 DEF SerialInv, Decided
  <2>2. items'[o] = NewRows(w, b)
    BY <1>1, <1>3, <2>1 DEF IInv, TypeOK, StoreType
  <2>3. orders'[o].promo = PromoWritten(w) /\ orders'[o].status = orders[o].status
    BY <1>1, <1>3 DEF IInv, TypeOK, StoreType, OrderRow
  <2>4. orders'[o] # None
    <3>1. [orders[o] EXCEPT !.promo = PromoWritten(w), !.billed = NewRows(w, b)] \in OrderRow
      BY <1>2, <1>3, <1>4, WriteTypes, NewRowsType DEF OrderRow
    <3> QED
      BY <1>1, <1>3, <3>1, StoreAssumption DEF IInv, TypeOK, StoreType
  <2> QED
    BY <1>1, <1>3, <2>2, <2>3, <2>4 DEF IInv, TypeOK, StoreType
<1> HIDE DEF o
<1>6. Placed' = Placed /\ Standing' = Standing
  BY <1>3, <1>5 DEF Placed, Standing
<1>7. IsFiniteSet(NewRows(w, b)) /\ NewRows(w, b) \in SUBSET ItemRow
  <2>1. tx[w].sold = Len(tx[w].entries)
    BY <1>2 DEF AccountInv, Ledger, Restoring
  <2> QED
    BY <1>4, <2>1, NewRowsUnits, NewRowsType DEF IInv
<1>8. FiniteTables'
  BY <1>5, <1>6, <1>7 DEF AccountInv, FiniteTables
<1>9. \A v \in Workers : Ledger(v)'
  BY <1>2, <1>5, CommitLedgers DEF o, Placed
<1>10. Conservation' /\ Unlisted'
  <2> SUFFICES ASSUME NEW p \in Products PROVE Held(p)' = Held(p) - tx[w].delta[p]
    BY <1>2, CommitConserves, StandingBooked
  <2>1. tx[w].delta[p] = UnitsOf(items[o], p) - UnitsOf(NewRows(w, b), p)
    BY <1>2, <1>4, DeltaAtWrite DEF o
  <2>2. Booked(Standing, items) /\ Held(p) \in Int /\ Held(p) = HeldIn(Standing, items, p)
    BY StandingBooked, HeldSum
  <2>3. UnitsOf(NewRows(w, b), p) \in Nat /\ UnitsOf(items[o], p) \in Nat
    BY <1>3, <1>7, <2>2, UnitsType DEF Booked
  <2>4. Booked(Standing, items')
    BY <1>3, <1>5, <1>7, <2>2 DEF Booked, Standing, Placed
  <2>5. Held(p)' = HeldIn(Standing', items', p)
    BY DEF Held, HeldIn, SumFunction
  <2>6. SameBut(o, Standing, items, items')
    BY <1>5 DEF Standing, Placed, SameBut
  <2>7. HeldIn(Standing, items', p)
          = HeldIn(Standing, items, p) - UnitsOf(items[o], p) + UnitsOf(items'[o], p)
    BY <1>3, <2>2, <2>4, <2>6, HeldOther
  <2>8. UnitsOf(items'[o], p) = UnitsOf(NewRows(w, b), p)
    BY <1>5
  <2> QED
    BY <1>6, <2>1, <2>2, <2>3, <2>5, <2>7, <2>8
<1>11. PromoAccounting'
  <2>1. orders'[o].promo = IF tx[w].keep THEN PromoOf(w) ELSE None
    BY <1>5 DEF PromoWritten
  <2>2. tx[w].keep \in BOOLEAN /\ \A c \in Codes : c # None
    BY StoreAssumption DEF IInv, TypeOK, OrdersType, Tx
  <2>3. ASSUME NEW c \in Codes
        PROVE  /\ o \in Carriers(c) <=> c = PromoOf(w)
               /\ c = PromoOf(w) /\ ~tx[w].keep => Carriers(c)' = Carriers(c) \ {o}
               /\ c # PromoOf(w) \/ tx[w].keep => Carriers(c)' = Carriers(c)
    <3>1. o \in Carriers(c) <=> c = PromoOf(w)
      BY <1>3 DEF Carriers
    <3>2. Carriers(c)' = {q \in Standing : orders'[q].promo = c}
      BY <1>6 DEF Carriers
    <3>3. \A q \in Standing : q # o => orders'[q] = orders[q]
      BY <1>5 DEF Standing, Placed
    <3>4. o \in Carriers(c)' <=> c = PromoOf(w) /\ tx[w].keep
      BY <1>3, <2>1, <2>2, <3>2
    <3> QED
      BY <2>2, <3>1, <3>2, <3>3, <3>4 DEF Carriers
  <2> QED
    BY <1>2, <1>3, <2>2, <2>3, CommitCounts
<1> QED
  BY <1>8, <1>9, <1>10, <1>11 DEF AccountInv

\* The commit of CancelOrder: the order holds nothing any more.
LEMMA CommitCancelAccount ==
    ASSUME IInv, IInv', SerialInv, AccountInv, NEW w \in Workers, CommitCancel(w)
    PROVE  AccountInv'
<1> DEFINE o == call[w].order
<1>1. /\ pc[w] = "write" /\ call[w].op = "cancel" /\ ApplyWrites(w) /\ Return(w)
      /\ orders' = [orders EXCEPT ![o].status = "CANCELED"] /\ items' = items /\ supplied' = supplied
  BY DEF CommitCancel, ApplyWrites
<1>2. /\ o \in OrderIds /\ o \in Standing /\ orders[o] \in OrderRow
      /\ PromoOf(w) = orders[o].promo
      /\ tx[w].uses = IF PromoOf(w) = None THEN 0 ELSE -1
  BY <1>1, OwnOrder
<1>3. /\ orders'[o].status = "CANCELED" /\ orders'[o] # None
      /\ \A q \in OrderIds \ {o} : orders'[q] = orders[q]
  <2>1. orders'[o] # None
    <3>1. [orders[o] EXCEPT !.status = "CANCELED"] \in OrderRow
      BY <1>2 DEF OrderRow, OrderStatus
    <3> QED
      BY <1>1, <1>2, <3>1, StoreAssumption DEF IInv, TypeOK, StoreType
  <2> QED
    BY <1>1, <1>2, <2>1 DEF IInv, TypeOK, StoreType, OrderRow
<1> HIDE DEF o
<1>4. Placed' = Placed /\ Standing' = Standing \ {o}
  BY <1>2, <1>3 DEF Placed, Standing
<1>5. FiniteTables'
  BY <1>1, <1>4 DEF AccountInv, FiniteTables
<1>6. \A v \in Workers : Ledger(v)'
  BY <1>1, <1>3, CommitLedgers DEF o, Placed
<1>7. Conservation' /\ Unlisted'
  <2> SUFFICES ASSUME NEW p \in Products PROVE Held(p)' = Held(p) - tx[w].delta[p]
    BY <1>1, CommitConserves, StandingBooked
  <2>1. tx[w].delta[p] = UnitsOf(items[o], p)
    BY <1>1, DeltaAtWrite DEF o
  <2>2. Booked(Standing, items) /\ Held(p) = HeldIn(Standing, items, p)
    BY StandingBooked, HeldSum
  <2>3. Held(p)' = HeldIn(Standing', items', p)
    BY DEF Held, HeldIn, SumFunction
  <2>4. HeldIn(Standing', items, p) = HeldIn(Standing, items, p) - UnitsOf(items[o], p)
    <3>1. Joins(o, Standing', Standing)
      BY <1>2, <1>4 DEF Joins
    <3> QED
      BY <2>2, <3>1, HeldLess
  <2> QED
    BY <1>1, <1>4, <2>1, <2>2, <2>3, <2>4
<1>8. PromoAccounting'
  <2>1. \A c \in Codes : c # None
    BY StoreAssumption
  <2>2. ASSUME NEW c \in Codes
        PROVE  /\ o \in Carriers(c) <=> c = PromoOf(w)
               /\ c = PromoOf(w) => Carriers(c)' = Carriers(c) \ {o}
               /\ c # PromoOf(w) => Carriers(c)' = Carriers(c)
    <3>1. o \in Carriers(c) <=> c = PromoOf(w)
      BY <1>2 DEF Carriers
    <3>2. Carriers(c)' = {q \in Standing \ {o} : orders'[q].promo = c}
      BY <1>4 DEF Carriers
    <3>3. \A q \in Standing : q # o => orders'[q] = orders[q]
      BY <1>3 DEF Standing, Placed
    <3> QED
      BY <3>1, <3>2, <3>3 DEF Carriers
  <2> QED
    BY <1>1, <1>2, <2>1, <2>2, CommitCounts
<1> QED
  BY <1>5, <1>6, <1>7, <1>8 DEF AccountInv

-----------------------------------------------------------------------------
(* The catalogue, the clock, and every step.                               *)

\* The catalogue and the clock leave the orders alone.
LEMMA OutsideLedgers ==
    ASSUME IInv, AccountInv, UNCHANGED workerVars, UNCHANGED <<orders, items>>
    PROVE  /\ (\A v \in Workers : Ledger(v)') /\ FiniteTables'
           /\ \A p : Held(p)' = Held(p)
           /\ \A c : Carriers(c)' = Carriers(c)
<1>1. \A v \in Workers : Ledger(v)'
  BY LedgerStays DEF workerVars, Settled, AccountInv, IInv, WorkerInv
<1>2. Placed' = Placed /\ Standing' = Standing
  BY DEF Placed, Standing
<1>3. FiniteTables'
  BY <1>2 DEF AccountInv, FiniteTables
<1>4. \A p : Held(p)' = Held(p)
  BY <1>2 DEF Held
<1>5. \A c : Carriers(c)' = Carriers(c)
  BY <1>2 DEF Carriers
<1> QED
  BY <1>1, <1>3, <1>4, <1>5

\* One product row is written.
LEMMA SupplyAccount ==
    ASSUME IInv, AccountInv, UNCHANGED workerVars, UNCHANGED <<promo, orders, items>>,
           NEW p \in Products, \A q \in Products \ {p} : product'[q] = product[q] /\ supplied'[q] = supplied[q],
           product'[p] # None, product'[p].stock + Held(p) = supplied'[p]
    PROVE  AccountInv'
<1>1. (\A v \in Workers : Ledger(v)') /\ FiniteTables' /\ \A q : Held(q)' = Held(q)
  BY OutsideLedgers
<1>2. Conservation' /\ Unlisted'
  BY <1>1 DEF AccountInv, Conservation, Unlisted
<1>3. PromoAccounting'
  BY OutsideLedgers DEF AccountInv, PromoAccounting, Carriers
<1> QED
  BY <1>1, <1>2, <1>3 DEF AccountInv

\* Steps of sellers: what they add or take is in supplied.
LEMMA CatalogAccount ==
    ASSUME IInv, AccountInv, CatalogNext, UNCHANGED workerVars
    PROVE  AccountInv'
<1>1. TypeOK /\ supplied \in [Products -> Int] /\ product \in [Products -> ProductRow \cup {None}]
      /\ promo \in [Codes -> PromoRow \cup {None}]
  BY DEF IInv, TypeOK, StoreType
<1>2. ASSUME NEW u \in Keepers, NEW p \in Products, NEW in \in ProductInputs, CreateProduct(u, p, in)
      PROVE  AccountInv'
  <2>1. Held(p) = 0
    <3>1. \A o \in Standing : \A r \in items[o] : r.product # p
      BY <1>2 DEF CreateProduct, IInv, References, Standing, Placed
    <3> QED
      BY <3>1, StandingBooked, HeldNone, HeldSum
  <2>2. /\ product'[p].stock = in.stock /\ supplied'[p] = in.stock /\ in.stock \in Nat
        /\ product'[p] # None
    <3>1. [seller |-> u, price |-> in.price, stock |-> in.stock, status |-> "ACTIVE"] \in ProductRow
      BY CatalogAssumption DEF ProductRow, ProductStatus, Keepers
    <3> QED
      BY <1>1, <1>2, <3>1, StoreAssumption, CatalogAssumption DEF CreateProduct
  <2>3. \A q \in Products \ {p} : product'[q] = product[q] /\ supplied'[q] = supplied[q]
    BY <1>1, <1>2 DEF CreateProduct
  <2> QED
    BY <1>2, <2>1, <2>2, <2>3, SupplyAccount DEF CreateProduct
<1>3. ASSUME NEW u \in Keepers, NEW p \in Products, NEW in \in UpdateInputs, UpdateProduct(u, p, in)
      PROVE  AccountInv'
  <2>1. product[p] # None /\ product[p] \in ProductRow /\ in.stock \in Nat
    BY <1>1, <1>3, CatalogAssumption DEF UpdateProduct
  <2>2. /\ product'[p].stock = in.stock /\ product'[p] # None
        /\ supplied'[p] = supplied[p] + in.stock - product[p].stock
    <3>1. [product[p] EXCEPT !.price = in.price, !.stock = in.stock, !.status = in.status] \in ProductRow
      BY <2>1, CatalogAssumption DEF ProductRow
    <3> QED
      BY <1>1, <1>3, <2>1, <3>1, StoreAssumption DEF UpdateProduct, ProductRow
  <2>3. \A q \in Products \ {p} : product'[q] = product[q] /\ supplied'[q] = supplied[q]
    BY <1>1, <1>3 DEF UpdateProduct
  <2>4. product[p].stock + Held(p) = supplied[p] /\ Held(p) \in Int /\ product[p].stock \in Int
    BY <2>1, StandingBooked DEF AccountInv, Conservation, ProductRow
  <2>5. product'[p].stock + Held(p) = supplied'[p]
    <3>1. supplied[p] \in Int
      BY <1>1
    <3> QED
      BY <2>1, <2>2, <2>4, <3>1
  <2>6. UNCHANGED <<promo, orders, items>>
    BY <1>3 DEF UpdateProduct
  <2> QED
    BY <2>2, <2>3, <2>5, <2>6, SupplyAccount
<1>4. ASSUME NEW u \in Keepers, NEW p \in Products, DeleteProduct(u, p)
      PROVE  AccountInv'
  <2>1. product[p] # None /\ product[p] \in ProductRow
    BY <1>1, <1>4 DEF DeleteProduct
  <2>2. product'[p].stock = product[p].stock /\ supplied' = supplied /\ product'[p] # None
    <3>1. [product[p] EXCEPT !.status = "ARCHIVED"] \in ProductRow
      BY <2>1 DEF ProductRow, ProductStatus
    <3> QED
      BY <1>1, <1>4, <2>1, <3>1, StoreAssumption DEF DeleteProduct, ProductRow
  <2>3. \A q \in Products \ {p} : product'[q] = product[q] /\ supplied'[q] = supplied[q]
    BY <1>1, <1>4 DEF DeleteProduct
  <2>4. product[p].stock + Held(p) = supplied[p]
    BY <2>1 DEF AccountInv, Conservation
  <2> QED
    BY <1>4, <2>2, <2>3, <2>4, SupplyAccount DEF DeleteProduct
<1>5. ASSUME NEW c \in Codes, NEW in \in PromoInputs, CreatePromoCode(c, in)
      PROVE  AccountInv'
  <2>1. (\A v \in Workers : Ledger(v)') /\ FiniteTables' /\ (\A q : Held(q)' = Held(q))
        /\ \A k : Carriers(k)' = Carriers(k)
    BY <1>5, OutsideLedgers DEF CreatePromoCode
  <2>2. Conservation' /\ Unlisted'
    BY <1>5, <2>1 DEF CreatePromoCode, AccountInv, Conservation, Unlisted
  <2>3. Carriers(c) = {}
    BY <1>5, StoreAssumption DEF Carriers, Standing, IInv, References, CreatePromoCode
  <2>4. promo'[c].uses = 0 /\ \A k \in Codes \ {c} : promo'[k] = promo[k]
    BY <1>1, <1>5 DEF CreatePromoCode
  <2>5. PromoAccounting'
    <3>1. \A k \in Codes : promo[k] # None => promo[k].uses = Cardinality(Carriers(k))
      BY DEF AccountInv, PromoAccounting, Carriers
    <3>2. Cardinality(Carriers(c)) = 0
      BY <2>3, FS_EmptySet
    <3>3. \A k \in Codes : promo'[k] # None => promo'[k].uses = Cardinality(Carriers(k)')
      BY <2>1, <2>4, <3>1, <3>2
    <3> QED
      BY <3>3 DEF PromoAccounting, Carriers
  <2> QED
    BY <2>1, <2>2, <2>5 DEF AccountInv
<1> QED
  BY <1>2, <1>3, <1>4, <1>5 DEF CatalogNext

\* Every step keeps the accounts.
LEMMA NextAccount ==
    ASSUME IInv, IInv', SerialInv, AccountInv, [Next]_vars
    PROVE  AccountInv'
<1>1. ASSUME NEW w \in Workers, Serve(w) PROVE AccountInv'
  <2>1. CASE AnswerGet(w) \/ Refuse(w)
    BY <2>1, EndAccount DEF AnswerGet, Refuse
  <2>2. CASE GetOrderByID(w) \/ CheckRateLimit(w)
    BY <2>2, BeforeBegin
  <2>3. CASE GetActiveOrder(w) \/ GetOrderItems(w) \/ IncrementStock(w)
    BY <2>3, GetActiveOrderAccount, GetOrderItemsAccount, IncrementStockAccount
  <2>4. CASE GetProductForUpdate(w) \/ DecrementStock(w)
    BY <2>4, GetProductForUpdateAccount, DecrementStockAccount
  <2>5. CASE CommitCreate(w) \/ CommitUpdate(w) \/ CommitCancel(w)
    BY <2>5, CommitCreateAccount, CommitUpdateAccount, CommitCancelAccount
  <2> QED
    BY <1>1, <2>1, <2>2, <2>3, <2>4, <2>5, PromoStepsAccount DEF Serve
<1>2. ASSUME NEW w \in Workers, StartAny(w) PROVE AccountInv'
  BY <1>2, BeforeBegin
<1>3. ASSUME NEW w \in Workers, Abort(w) \/ DeadlockAbort(w) PROVE AccountInv'
  BY <1>3, EndAccount DEF Abort, DeadlockAbort
<1>4. CASE (Tick /\ UNCHANGED workerVars) \/ UNCHANGED vars
  <2>1. UNCHANGED workerVars /\ UNCHANGED <<product, promo, orders, items, supplied>>
    BY <1>4 DEF Tick, vars, storeVars, tables
  <2>2. (\A v \in Workers : Ledger(v)') /\ FiniteTables' /\ (\A q : Held(q)' = Held(q))
        /\ \A k : Carriers(k)' = Carriers(k)
    BY <2>1, OutsideLedgers
  <2> QED
    BY <2>1, <2>2 DEF AccountInv, Conservation, PromoAccounting, Carriers, Unlisted
<1> QED
  BY <1>1, <1>2, <1>3, <1>4, CatalogAccount DEF Next, OrdersNext

-----------------------------------------------------------------------------
(* Theorems. *)

\* The inductive invariant: what each open transaction owes to the stock and to
\* its promo code is known to the unit, at every statement.
THEOREM AccountInvariant == ASSUME OneAtATime PROVE Spec => []AccountInv
<1>1. Init => AccountInv
  <2> SUFFICES ASSUME Init PROVE AccountInv
    OBVIOUS
  <2>1. /\ \A w \in Workers : pc[w] = "idle" /\ call[w] = None /\ tx[w] = NoTx
        /\ Placed = {} /\ \A o \in OrderIds : items[o] = {}
    BY DEF Init, OrdersInit, StoreInit, Placed
  <2>2. \A w \in Workers : Ledger(w)
    BY <2>1 DEF Ledger, Restoring, StockOwed, PromoOwed, NoTx, InTransaction
  <2>3. FiniteTables
    BY <2>1, FS_EmptySet DEF FiniteTables
  <2>4. Conservation /\ PromoAccounting /\ Unlisted
    BY DEF Init, StoreInit, Conservation, PromoAccounting, Unlisted
  <2> QED
    BY <2>2, <2>3, <2>4 DEF AccountInv
<1>2. IInv /\ IInv' /\ SerialInv /\ AccountInv /\ [Next]_vars => AccountInv'
  BY NextAccount
<1> QED
  BY <1>1, <1>2, Invariant, SerialInvariant, PTL DEF Spec

\* Conservation: stock taken row by row, given back row by row and rolled back
\* at any row is neither lost nor made.
THEOREM StockConserved == ASSUME OneAtATime PROVE Spec => []Conservation
<1>1. AccountInv => Conservation
  BY DEF AccountInv
<1> QED
  BY <1>1, AccountInvariant, PTL

\* PromoAccounting: current_uses is the number of orders not canceled that carry
\* the code.
THEOREM UsesCounted == ASSUME OneAtATime PROVE Spec => []PromoAccounting
<1>1. AccountInv => PromoAccounting
  BY DEF AccountInv
<1> QED
  BY <1>1, AccountInvariant, PTL

-----------------------------------------------------------------------------
(* The marketplace implements Inventory. *)

LEMMA InitMaps == Init => Abstract!Init
<1> SUFFICES ASSUME Init PROVE Abstract!Init
  OBVIOUS
<1>1. Placed = {} /\ Standing = {} /\ \A p \in Products : product[p] = None
  BY DEF Init, StoreInit, Placed, Standing
<1>2. Shelf = [p \in Products |-> 0] /\ supplied = [p \in Products |-> 0]
  BY <1>1 DEF Shelf, Init, StoreInit
<1>3. Stage = [o \in OrderIds |-> "none"]
  BY <1>1 DEF Stage
<1>4. InOrders = [o \in OrderIds |-> [p \in Products |-> 0]]
  BY <1>1 DEF InOrders
<1> QED
  BY <1>2, <1>3, <1>4 DEF Abstract!Init, Abstract!Units, Abstract!Nothing

\* The shelf is a stock of units.
LEMMA ShelfType ==
    ASSUME IInv, IInv'
    PROVE  Shelf \in [Products -> Nat] /\ Shelf' \in [Products -> Nat]
<1>1. /\ \A p \in Products : product[p] # None => product[p].stock \in Nat
      /\ \A p \in Products : product'[p] # None => product'[p].stock \in Nat
  BY DEF IInv, TypeOK, StoreType, ProductRow
<1> QED
  BY <1>1 DEF Shelf

\* A commit moves the shelf by what the transaction has done to the stock.
LEMMA ShelfApplied ==
    ASSUME IInv, IInv', NEW w \in Workers, pc[w] = "write", ApplyWrites(w)
    PROVE  /\ Shelf' \in [Products -> Nat]
           /\ \A p \in Products : Shelf[p] \in Nat /\ Shelf'[p] = Shelf[p] + tx[w].delta[p]
<1>1. Shelf \in [Products -> Nat] /\ Shelf' \in [Products -> Nat]
  BY ShelfType
<1>2. ASSUME NEW p \in Products PROVE Shelf'[p] = Shelf[p] + tx[w].delta[p]
  <2>1. CASE product[p] = None
    <3>1. product'[p] = None /\ tx[w].delta[p] = 0
      BY <2>1, StockApplied DEF IInv, WorkerInv, StockLocked
    <3> QED
      BY <2>1, <3>1 DEF Shelf
  <2>2. CASE product[p] # None
    BY <2>2, StockApplied DEF Shelf
  <2> QED
    BY <2>1, <2>2
<1> QED
  BY <1>1, <1>2

\* The rows that Create and Update write hold units, and some.
LEMMA NewRowsWanted ==
    ASSUME IInv, AccountInv, NEW w \in Workers, pc[w] = "write", call[w].op \in {"create", "update"},
           NEW b \in Nat
    PROVE  [p \in Products |-> UnitsOf(NewRows(w, b), p)]
              \in [Products -> Nat] \ {[p \in Products |-> 0]}
<1> DEFINE h == [p \in Products |-> UnitsOf(NewRows(w, b), p)]
<1>1. tx[w].sold = Len(tx[w].entries) /\ tx[w].entries # <<>> /\ Len(tx[w].entries) \in Nat
      /\ tx[w].entries \in Seq(Entry)
  BY EntryTypes DEF AccountInv, Ledger, Restoring, IInv
<1>2. IsFiniteSet(NewRows(w, b)) /\ NewRows(w, b) \in SUBSET ItemRow
  BY <1>1, NewRowsUnits, NewRowsType DEF IInv
<1>3. 1 \in 1 .. Len(tx[w].entries)
  BY <1>1
<1> DEFINE e == tx[w].entries[1]
           r == [batch |-> b, line |-> 1, product |-> e.product, qty |-> e.qty, price |-> e.price]
<1>4. e.product \in Products /\ e.qty \in Nat \ {0}
  BY <1>3, EntryTypes DEF IInv
<1>5. r \in NewRows(w, b) /\ r.product = e.product /\ r.qty = e.qty
  BY <1>3 DEF NewRows
<1> HIDE DEF e, r
<1>6. \A p \in Products : UnitsOf(NewRows(w, b), p) \in Nat
  BY <1>2, UnitsType
<1>7. UnitsOf(NewRows(w, b), e.product) >= e.qty
  BY <1>2, <1>5, UnitsType
<1>8. h[e.product] # 0
  BY <1>4, <1>6, <1>7
<1>9. h \in [Products -> Nat] /\ h # [p \in Products |-> 0]
  BY <1>4, <1>6, <1>8
<1> QED
  BY <1>9

\* CommitCreate is Allocate.
LEMMA CreateMaps ==
    ASSUME IInv, IInv', SerialInv, AccountInv, NEW w \in Workers, CommitCreate(w)
    PROVE  Abstract!Next
<1>1. PICK o \in OrderIds :
        /\ orders[o] = None
        /\ orders' = [orders EXCEPT ![o] =
               [user |-> call[w].caller, status |-> "CREATED", promo |-> PromoWritten(w),
                billed |-> NewRows(w, 1)]]
        /\ items' = [items EXCEPT ![o] = NewRows(w, 1)]
  BY DEF CommitCreate
<1>2. pc[w] = "write" /\ call[w].op = "create" /\ ApplyWrites(w) /\ supplied' = supplied
  BY DEF CommitCreate
<1> DEFINE row == [user |-> call[w].caller, status |-> "CREATED", promo |-> PromoWritten(w),
                   billed |-> NewRows(w, 1)]
           h == [p \in Products |-> UnitsOf(NewRows(w, 1), p)]
<1>3. row # None /\ row.status = "CREATED"
  <2>1. row \in OrderRow
    BY <1>2, WriteTypes, NewRowsType DEF OrderRow, Call, OrderStatus
  <2> QED
    BY <2>1, StoreAssumption
<1> HIDE DEF row
<1>4. /\ orders'[o] = row /\ items'[o] = NewRows(w, 1)
      /\ \A q \in OrderIds \ {o} : orders'[q] = orders[q] /\ items'[q] = items[q]
  BY <1>1 DEF row, IInv, TypeOK, StoreType
<1>5. o \notin Placed /\ Placed' = Placed \cup {o} /\ Standing' = Standing \cup {o}
  BY <1>1, <1>3, <1>4 DEF Placed, Standing
<1>6. Stage[o] = "none" /\ Stage' = [Stage EXCEPT ![o] = "open"]
  BY <1>5 DEF Stage
<1>7. InOrders'[o] = h
  BY <1>4, <1>5 DEF InOrders
<1>8. \A q \in OrderIds \ {o} : InOrders'[q] = InOrders[q]
  BY <1>4, <1>5 DEF InOrders, Standing
<1>9. InOrders' = [InOrders EXCEPT ![o] = h]
  BY <1>7, <1>8 DEF InOrders
<1>10. h \in Abstract!Units \ {Abstract!Nothing}
  BY <1>2, NewRowsWanted DEF Abstract!Units, Abstract!Nothing
<1>11. Shelf' = [p \in Products |-> Shelf[p] + InOrders[o][p] - h[p]]
  <2>1. ASSUME NEW p \in Products PROVE Shelf'[p] = Shelf[p] + InOrders[o][p] - h[p]
    <3>1. InOrders[o][p] = 0
      BY <1>5 DEF InOrders, Standing
    <3>2. tx[w].delta[p] = 0 - h[p] /\ h[p] \in Nat
      BY <1>2, <1>10, DeltaAtWrite DEF Abstract!Units
    <3>3. Shelf[p] \in Nat /\ Shelf'[p] = Shelf[p] + tx[w].delta[p]
      BY <1>2, ShelfApplied
    <3> HIDE DEF h
    <3> QED
      BY <3>1, <3>2, <3>3
  <2> HIDE DEF h
  <2> QED
    BY <2>1 DEF Shelf
<1>12. Shelf' \in Abstract!Units
  BY <1>2, ShelfApplied DEF Abstract!Units
<1> HIDE DEF h
<1>13. Abstract!Allocate(o)
  BY <1>2, <1>6, <1>7, <1>9, <1>10, <1>11, <1>12 DEF Abstract!Allocate, Abstract!Settle, Abstract!Wanted
<1> QED
  BY <1>13 DEF Abstract!Next

\* CommitUpdate is Exchange.
LEMMA UpdateMaps ==
    ASSUME IInv, IInv', SerialInv, AccountInv, NEW w \in Workers, CommitUpdate(w)
    PROVE  Abstract!Next
<1> DEFINE o == call[w].order
<1>1. PICK b \in NextBatch(o) :
        /\ orders' = [orders EXCEPT ![o].promo = PromoWritten(w), ![o].billed = NewRows(w, b)]
        /\ items' = [items EXCEPT ![o] = (@ \ tx[w].doomed) \cup NewRows(w, b)]
  BY DEF CommitUpdate
<1>2. pc[w] = "write" /\ call[w].op = "update" /\ ApplyWrites(w) /\ supplied' = supplied
  BY DEF CommitUpdate
<1>3. o \in OrderIds /\ o \in Standing /\ orders[o] \in OrderRow
  BY <1>2, OwnOrder
<1>4. b \in Nat
  BY <1>1, <1>3 DEF NextBatch, IInv, TypeOK, StoreType, ItemRow
<1>5. /\ orders'[o].status = orders[o].status /\ orders'[o] # None /\ items'[o] = NewRows(w, b)
      /\ \A q \in OrderIds \ {o} : orders'[q] = orders[q] /\ items'[q] = items[q]
  <2>1. tx[w].doomed = items[o]
    BY <1>2 DEF SerialInv, Decided
  <2>2. items'[o] = NewRows(w, b)
    BY <1>1, <1>3, <2>1 DEF IInv, TypeOK, StoreType
  <2>3. orders'[o].status = orders[o].status
    BY <1>1, <1>3 DEF IInv, TypeOK, StoreType, OrderRow
  <2>4. orders'[o] # None
    <3>1. [orders[o] EXCEPT !.promo = PromoWritten(w), !.billed = NewRows(w, b)] \in OrderRow
      BY <1>2, <1>3, <1>4, WriteTypes, NewRowsType DEF OrderRow
    <3> QED
      BY <1>1, <1>3, <3>1, StoreAssumption DEF IInv, TypeOK, StoreType
  <2> QED
    BY <1>1, <1>3, <2>2, <2>3, <2>4 DEF IInv, TypeOK, StoreType
<1> DEFINE h == [p \in Products |-> UnitsOf(NewRows(w, b), p)]
<1>6. Placed' = Placed /\ Standing' = Standing /\ o \in Placed
  BY <1>3, <1>5 DEF Placed, Standing
<1>7. Stage[o] = "open" /\ Stage' = Stage
  BY <1>3, <1>6 DEF Stage
<1>8. InOrders'[o] = h
  BY <1>3, <1>5, <1>6 DEF InOrders
<1>9. \A q \in OrderIds \ {o} : InOrders'[q] = InOrders[q]
  BY <1>5, <1>6 DEF InOrders
<1>10. InOrders' = [InOrders EXCEPT ![o] = h]
  BY <1>8, <1>9 DEF InOrders
<1>11. h \in Abstract!Units \ {Abstract!Nothing}
  BY <1>2, <1>4, NewRowsWanted DEF Abstract!Units, Abstract!Nothing
<1>12. Shelf' = [p \in Products |-> Shelf[p] + InOrders[o][p] - h[p]]
  <2>1. ASSUME NEW p \in Products PROVE Shelf'[p] = Shelf[p] + InOrders[o][p] - h[p]
    <3>1. InOrders[o][p] = UnitsOf(items[o], p)
      BY <1>3 DEF InOrders
    <3>2. UnitsOf(items[o], p) \in Nat
      BY <1>3, UnitsType DEF IInv, TypeOK, StoreType, AccountInv, FiniteTables
    <3>3. tx[w].delta[p] = UnitsOf(items[o], p) - h[p] /\ h[p] \in Nat
      BY <1>2, <1>4, <1>11, DeltaAtWrite DEF Abstract!Units
    <3>4. Shelf[p] \in Nat /\ Shelf'[p] = Shelf[p] + tx[w].delta[p]
      BY <1>2, ShelfApplied
    <3> HIDE DEF h
    <3> QED
      BY <3>1, <3>2, <3>3, <3>4
  <2> HIDE DEF h
  <2> QED
    BY <2>1 DEF Shelf
<1>13. Shelf' \in Abstract!Units
  BY <1>2, ShelfApplied DEF Abstract!Units
<1> HIDE DEF h
<1>14. Abstract!Exchange(o)
  BY <1>2, <1>7, <1>8, <1>10, <1>11, <1>12, <1>13 DEF Abstract!Exchange, Abstract!Settle, Abstract!Wanted
<1> QED
  BY <1>3, <1>14 DEF Abstract!Next

\* CommitCancel is Release.
LEMMA CancelMaps ==
    ASSUME IInv, IInv', SerialInv, AccountInv, NEW w \in Workers, CommitCancel(w)
    PROVE  Abstract!Next
<1> DEFINE o == call[w].order
<1>1. /\ pc[w] = "write" /\ call[w].op = "cancel" /\ ApplyWrites(w)
      /\ orders' = [orders EXCEPT ![o].status = "CANCELED"] /\ items' = items /\ supplied' = supplied
  BY DEF CommitCancel
<1>2. o \in OrderIds /\ o \in Standing /\ orders[o] \in OrderRow
  BY <1>1, OwnOrder
<1>3. /\ orders'[o].status = "CANCELED" /\ orders'[o] # None
      /\ \A q \in OrderIds \ {o} : orders'[q] = orders[q]
  <2>1. orders'[o] # None
    <3>1. [orders[o] EXCEPT !.status = "CANCELED"] \in OrderRow
      BY <1>2 DEF OrderRow, OrderStatus
    <3> QED
      BY <1>1, <1>2, <3>1, StoreAssumption DEF IInv, TypeOK, StoreType
  <2> QED
    BY <1>1, <1>2, <2>1 DEF IInv, TypeOK, StoreType, OrderRow
<1>4. Placed' = Placed /\ Standing' = Standing \ {o} /\ o \in Placed
  BY <1>2, <1>3 DEF Placed, Standing
<1>5. Stage[o] = "open" /\ Stage' = [Stage EXCEPT ![o] = "closed"]
  BY <1>2, <1>4 DEF Stage
<1>6. InOrders' = [InOrders EXCEPT ![o] = Abstract!Nothing]
  BY <1>1, <1>4 DEF InOrders, Abstract!Nothing
<1>7. Shelf' = [p \in Products |-> Shelf[p] + InOrders[o][p] - Abstract!Nothing[p]]
  <2>1. ASSUME NEW p \in Products PROVE Shelf'[p] = Shelf[p] + InOrders[o][p] - Abstract!Nothing[p]
    <3>1. InOrders[o][p] = UnitsOf(items[o], p) /\ Abstract!Nothing[p] = 0
      BY <1>2 DEF InOrders, Abstract!Nothing
    <3>2. UnitsOf(items[o], p) \in Nat
      BY <1>2, UnitsType DEF IInv, TypeOK, StoreType, AccountInv, FiniteTables
    <3>3. tx[w].delta[p] = UnitsOf(items[o], p)
      BY <1>1, DeltaAtWrite
    <3>4. Shelf[p] \in Nat /\ Shelf'[p] = Shelf[p] + tx[w].delta[p]
      BY <1>1, ShelfApplied
    <3> QED
      BY <3>1, <3>2, <3>3, <3>4
  <2> QED
    BY <2>1 DEF Shelf
<1>8. Shelf' \in Abstract!Units
  BY <1>1, ShelfApplied DEF Abstract!Units
<1>9. Abstract!Release(o)
  BY <1>1, <1>5, <1>6, <1>7, <1>8 DEF Abstract!Release, Abstract!Settle
<1> QED
  BY <1>2, <1>9 DEF Abstract!Next

\* What the sellers do is Supply, or nothing at all.
LEMMA CatalogMaps ==
    ASSUME IInv, IInv', AccountInv, CatalogNext, UNCHANGED workerVars
    PROVE  Abstract!Next \/ UNCHANGED Abstract!vars
<1>1. Shelf \in [Products -> Nat] /\ Shelf' \in [Products -> Nat]
  BY ShelfType
<1>2. supplied \in [Products -> Int] /\ product \in [Products -> ProductRow \cup {None}]
  BY DEF IInv, TypeOK, StoreType
<1>3. ASSUME UNCHANGED <<orders, items>> PROVE Stage' = Stage /\ InOrders' = InOrders
  BY <1>3 DEF Stage, InOrders, Standing, Placed
<1>4. ASSUME NEW p \in Products, UNCHANGED <<orders, items>>,
             \A q \in Products \ {p} : product'[q] = product[q],
             supplied' = [supplied EXCEPT ![p] = @ + Shelf'[p] - Shelf[p]]
      PROVE  Abstract!Next
  <2>1. \A q \in Products \ {p} : Shelf'[q] = Shelf[q]
    BY <1>4 DEF Shelf
  <2>2. Shelf' = [Shelf EXCEPT ![p] = Shelf'[p]]
    BY <1>1, <2>1
  <2>3. Abstract!Supply(p)
    BY <1>1, <1>3, <1>4, <2>2 DEF Abstract!Supply, Abstract!Units
  <2> QED
    BY <2>3 DEF Abstract!Next
<1>5. ASSUME NEW u \in Keepers, NEW p \in Products, NEW in \in ProductInputs, CreateProduct(u, p, in)
      PROVE  Abstract!Next
  <2>1. /\ UNCHANGED <<orders, items>> /\ \A q \in Products \ {p} : product'[q] = product[q]
        /\ product[p] = None /\ product'[p].stock = in.stock /\ product'[p] # None
        /\ in.stock \in Nat
    <3>1. [seller |-> u, price |-> in.price, stock |-> in.stock, status |-> "ACTIVE"] \in ProductRow
      BY CatalogAssumption DEF ProductRow, ProductStatus, Keepers
    <3> QED
      BY <1>2, <1>5, <3>1, StoreAssumption, CatalogAssumption DEF CreateProduct
  <2>2. Shelf[p] = 0 /\ Shelf'[p] = in.stock
    BY <2>1 DEF Shelf
  <2>3. supplied[p] = 0
    BY <2>1 DEF AccountInv, Unlisted
  <2>4. supplied' = [supplied EXCEPT ![p] = @ + Shelf'[p] - Shelf[p]]
    <3>1. supplied[p] + Shelf'[p] - Shelf[p] = in.stock
      BY <2>1, <2>2, <2>3
    <3>2. supplied' = [supplied EXCEPT ![p] = in.stock]
      BY <1>5 DEF CreateProduct
    <3> QED
      BY <3>1, <3>2
  <2> QED
    BY <1>4, <2>1, <2>4
<1>6. ASSUME NEW u \in Keepers, NEW p \in Products, NEW in \in UpdateInputs, UpdateProduct(u, p, in)
      PROVE  Abstract!Next
  <2>1. product[p] # None /\ product[p] \in ProductRow
    BY <1>2, <1>6 DEF UpdateProduct
  <2>2. /\ UNCHANGED <<orders, items>> /\ \A q \in Products \ {p} : product'[q] = product[q]
        /\ product'[p].stock = in.stock /\ product'[p] # None
    <3>1. [product[p] EXCEPT !.price = in.price, !.stock = in.stock, !.status = in.status] \in ProductRow
      BY <2>1, CatalogAssumption DEF ProductRow
    <3> QED
      BY <1>2, <1>6, <2>1, <3>1, StoreAssumption DEF UpdateProduct, ProductRow
  <2>3. Shelf[p] = product[p].stock /\ Shelf'[p] = in.stock
    BY <2>1, <2>2 DEF Shelf
  <2>4. supplied' = [supplied EXCEPT ![p] = @ + Shelf'[p] - Shelf[p]]
    BY <1>6, <2>3 DEF UpdateProduct
  <2> QED
    BY <1>4, <2>2, <2>4
<1>7. ASSUME UNCHANGED <<supplied, orders, items>>,
             \A p \in Products : product'[p] = None <=> product[p] = None,
             \A p \in Products : product[p] # None => product'[p].stock = product[p].stock
      PROVE  UNCHANGED Abstract!vars
  <2>1. Shelf' = Shelf
    <3>1. \A p \in Products : (IF product'[p] = None THEN 0 ELSE product'[p].stock)
                                = (IF product[p] = None THEN 0 ELSE product[p].stock)
      BY <1>7
    <3> QED
      BY <3>1 DEF Shelf
  <2> QED
    BY <1>3, <1>7, <2>1 DEF Abstract!vars
<1>8. ASSUME NEW u \in Keepers, NEW p \in Products, DeleteProduct(u, p)
      PROVE  UNCHANGED Abstract!vars
  <2>1. product[p] # None /\ product[p] \in ProductRow
    BY <1>2, <1>8 DEF DeleteProduct
  <2>2. /\ \A q \in Products \ {p} : product'[q] = product[q]
        /\ product'[p].stock = product[p].stock /\ product'[p] # None
    <3>1. [product[p] EXCEPT !.status = "ARCHIVED"] \in ProductRow
      BY <2>1 DEF ProductRow, ProductStatus
    <3> QED
      BY <1>2, <1>8, <2>1, <3>1, StoreAssumption DEF DeleteProduct, ProductRow
  <2> QED
    BY <1>7, <1>8, <2>1, <2>2 DEF DeleteProduct
<1>9. ASSUME NEW c \in Codes, NEW in \in PromoInputs, CreatePromoCode(c, in)
      PROVE  UNCHANGED Abstract!vars
  BY <1>7, <1>9 DEF CreatePromoCode
<1> QED
  BY <1>5, <1>6, <1>8, <1>9 DEF CatalogNext

\* The statements of a request before its COMMIT, and its end without one, move
\* no unit.
LEMMA StatementsKeep ==
    ASSUME NEW w \in Workers, StartAny(w) \/ Serve(w) \/ Abort(w) \/ DeadlockAbort(w),
           ~(CommitCreate(w) \/ CommitUpdate(w) \/ CommitCancel(w))
    PROVE  UNCHANGED <<product, orders, items, supplied>>
<1> USE DEF storeVars, tables
<1>1. CASE StartAny(w)
  BY <1>1 DEF StartAny, StartCreate, StartUpdate, StartOther, Start
<1>2. CASE Abort(w) \/ DeadlockAbort(w) \/ AnswerGet(w) \/ Refuse(w)
  BY <1>2 DEF Abort, DeadlockAbort, AnswerGet, Refuse
<1>3. CASE \/ GetOrderByID(w) \/ CheckRateLimit(w) \/ GetActiveOrder(w)
           \/ GetOrderItems(w) \/ IncrementStock(w) \/ GetProductForUpdate(w)
           \/ DecrementStock(w) \/ DeleteOrderItems(w)
  BY <1>3 DEF GetOrderByID, CheckRateLimit, GetActiveOrder, GetOrderItems, IncrementStock,
              GetProductForUpdate, DecrementStock, DeleteOrderItems
<1>4. CASE \/ GetPromoCodeByCode(w) \/ IncrementPromoUses(w)
           \/ GetPromoCodeForUpdate(w) \/ DecrementPromoUses(w)
  BY <1>4 DEF GetPromoCodeByCode, IncrementPromoUses, GetPromoCodeForUpdate, DecrementPromoUses
<1> QED
  BY <1>1, <1>2, <1>3, <1>4 DEF Serve

\* Every step of the marketplace is a step of the inventory, or none of its
\* business.
LEMMA NextMaps ==
    ASSUME IInv, IInv', SerialInv, AccountInv, [Next]_vars
    PROVE  Abstract!Next \/ UNCHANGED Abstract!vars
<1>1. ASSUME UNCHANGED <<product, orders, items, supplied>> PROVE UNCHANGED Abstract!vars
  BY <1>1 DEF Abstract!vars, Shelf, Stage, InOrders, Standing, Placed
<1>2. CASE OrdersNext
  <2>1. PICK w \in Workers : StartAny(w) \/ Serve(w) \/ Abort(w) \/ DeadlockAbort(w)
    BY <1>2 DEF OrdersNext
  <2>2. CASE CommitCreate(w) \/ CommitUpdate(w) \/ CommitCancel(w)
    BY <2>2, CreateMaps, UpdateMaps, CancelMaps
  <2>3. CASE ~(CommitCreate(w) \/ CommitUpdate(w) \/ CommitCancel(w))
    BY <1>1, <2>1, <2>3, StatementsKeep
  <2> QED
    BY <2>2, <2>3
<1>3. CASE CatalogNext /\ UNCHANGED workerVars
  BY <1>3, CatalogMaps
<1>4. CASE (Tick /\ UNCHANGED workerVars) \/ UNCHANGED vars
  BY <1>1, <1>4 DEF Tick, vars, storeVars, tables
<1> QED
  BY <1>2, <1>3, <1>4 DEF Next

\* UnitsMoveAtOnce: with all its statements, interleavings and rollbacks, the
\* marketplace implements Inventory.
THEOREM ImplementsInventory == ASSUME OneAtATime PROVE Spec => UnitsMoveAtOnce
<1>1. IInv /\ IInv' /\ SerialInv /\ AccountInv /\ [Next]_vars => [Abstract!Next]_Abstract!vars
  BY NextMaps
<1> QED
  BY <1>1, InitMaps, Invariant, SerialInvariant, AccountInvariant, PTL
     DEF Spec, UnitsMoveAtOnce, Abstract!Spec
=============================================================================
