--------------------------- MODULE MarketplaceProof ---------------------------
(***************************************************************************)
(* Proofs, for all values of the constants, that IInv is an invariant of   *)
(* the server, and what follows from it: types, the sufficiency of the     *)
(* stock check, and that orders are written for what is on sale.           *)
(*                                                                         *)
(* A step disturbs the requests that do not take it only through locked    *)
(* rows (Frame, FrameInv). LocalStep, LockStep, ReturnStep, CommitStep and *)
(* CatalogStep use this once for each kind of step; the lemma of an action *)
(* then looks at the request that takes it alone.                          *)
(***************************************************************************)
EXTENDS MarketplaceInv, TLAPS

\* The empty database that the migration leaves, and no request in flight.
LEMMA InitIInv == Init => IInv
<1> SUFFICES ASSUME Init PROVE IInv
    OBVIOUS
<1> USE DEF Init, StoreInit, OrdersInit
<1>1. TypeOK
  <2>1. StoreType
    BY StoreAssumption DEF StoreType, Lockable, Operation
  <2>2. NoTx \in Tx
    BY DEF NoTx, Tx
  <2>3. OrdersType
    BY <2>2 DEF OrdersType, Labels
  <2> QED
    BY <2>1, <2>2, <2>3 DEF TypeOK
<1>2. References
  BY DEF References, Placed
<1>3. \A w \in Workers : WorkerInv(w)
  <2> SUFFICES ASSUME NEW w \in Workers PROVE WorkerInv(w)
    OBVIOUS
  <2>1. tx[w] = NoTx /\ pc[w] = "idle" /\ call[w] = None
    OBVIOUS
  <2>2. \A k \in Lockable : lock[k] # w
    BY StoreAssumption
  <2>3. NoTx.entries = <<>> /\ NoTx.todo = {} /\ NoTx.uses = 0 /\ NoTx.keep = FALSE
        /\ NoTx.delta = [p \in Products |-> 0]
    BY DEF NoTx
  <2>4. IdleClean(w)
    BY <2>1, <2>2 DEF IdleClean
  <2>5. Reaches(w) /\ Restores(w) /\ Progress(w) /\ Snapshot(w)
    BY <2>1, <2>3 DEF Reaches, Restores, Progress, Snapshot
  <2>6. StockLocked(w) /\ PromoLocked(w) /\ StockAsRead(w)
    BY <2>1, <2>3 DEF StockLocked, PromoLocked, StockAsRead
  <2> QED
    BY <2>4, <2>5, <2>6 DEF WorkerInv
<1> QED
  BY <1>1, <1>2, <1>3 DEF IInv

-----------------------------------------------------------------------------
(* Steps of others. *)

\* What a request that does not step sees of a step: its own state, the locks
\* it holds and the rows under them stay, and no row disappears.
Frame(v) ==
    /\ pc'[v] = pc[v] /\ call'[v] = call[v] /\ tx'[v] = tx[v]
    /\ \A k \in Lockable : lock'[k] = v <=> lock[k] = v
    /\ \A p \in Products : product[p] # None => product'[p] # None
    /\ \A p \in Products : lock[p] = v /\ product[p] # None => product'[p] = product[p]
    /\ \A c \in Codes : promo[c] # None => promo'[c] # None
    /\ \A c \in Codes : lock[c] = v /\ promo[c] # None => promo'[c] = promo[c]
    /\ \A o \in OrderIds : orders[o] # None => orders'[o] # None

\* The promo code that a request works on is one, or NULL.
LEMMA PromoOfType ==
    ASSUME TypeOK, NEW v \in Workers, WorkerInv(v), pc[v] \notin {"idle", "order"}
    PROVE  PromoOf(v) \in Codes \cup {None}
  BY DEF TypeOK, OrdersType, WorkerInv, Reaches, PromoOf, Call, Tx, OrderRow

\* A request is not disturbed by a step of somebody else, if that leaves alone
\* what it has locked (row locks last until COMMIT or ROLLBACK).
LEMMA FrameInv ==
    ASSUME TypeOK, NEW v \in Workers, WorkerInv(v), Frame(v)
    PROVE  WorkerInv(v)'
<1>1. pc[v] \in Labels /\ call[v] \in Call \cup {None} /\ tx[v] \in Tx
  BY DEF TypeOK, OrdersType
<1>2. PromoOf(v)' = PromoOf(v)
  BY DEF Frame, PromoOf
<1>3. \A i \in 1 .. Len(tx[v].entries) : tx[v].entries[i].product \in Products
  <2>1. tx[v].entries \in Seq(Entry)
    BY <1>1 DEF Tx
  <2>2. \A i \in 1 .. Len(tx[v].entries) : tx[v].entries[i] \in Entry
    BY <2>1
  <2> QED
    BY <2>2 DEF Entry
<1>4. IdleClean(v)'
  BY DEF Frame, WorkerInv, IdleClean
<1>5. Reaches(v)'
  BY <1>1 DEF Frame, WorkerInv, Reaches, Call, Tx, OrderRow
<1>6. Restores(v)'
  <2>1. tx[v].next \in ItemRow \cup {None} /\ tx[v].todo \in SUBSET ItemRow
    BY <1>1 DEF Tx
  <2>2. \A r \in ItemRow : r.product \in Products
    BY DEF ItemRow
  <2> QED
    BY <2>1, <2>2 DEF Frame, WorkerInv, Restores
<1>7. Progress(v)'
  BY DEF Frame, WorkerInv, Progress
<1>8. Snapshot(v)'
  BY <1>3 DEF Frame, WorkerInv, Snapshot, Lockable
<1>9. StockLocked(v)'
  BY DEF Frame, WorkerInv, StockLocked, Lockable
<1>10. PromoLocked(v)'
  <2>1. pc[v] \notin {"idle", "order"} => PromoOf(v) \in Codes \cup {None}
    BY PromoOfType
  <2>2. pc[v] = "claim" => call[v].code \in Codes \cup {None}
    BY <1>1 DEF WorkerInv, Reaches, Call
  <2> QED
    BY <1>2, <2>1, <2>2 DEF Frame, WorkerInv, PromoLocked, Lockable
<1>11. StockAsRead(v)'
  BY <1>1, <1>3 DEF Frame, WorkerInv, StockAsRead, Snapshot, StockSeen, Lockable, DistinctLines, Tx
<1> QED
  BY <1>4, <1>5, <1>6, <1>7, <1>8, <1>9, <1>10, <1>11 DEF WorkerInv

-----------------------------------------------------------------------------
(* How the step of one request preserves the invariant, by what it changes. *)

\* A step of w as the other requests see it.
OnlyOf(w) ==
    \A v \in Workers \ {w} : pc'[v] = pc[v] /\ call'[v] = call[v] /\ tx'[v] = tx[v]

\* Only the state of w changes.
LEMMA LocalStep ==
    ASSUME IInv, NEW w \in Workers, OnlyOf(w), OrdersType', UNCHANGED storeVars, WorkerInv(w)'
    PROVE  IInv'
<1> USE DEF storeVars, tables
<1>1. TypeOK'
  BY DEF IInv, TypeOK, StoreType
<1>2. References'
  BY DEF IInv, References, Placed
<1>3. \A v \in Workers \ {w} : Frame(v)
  BY DEF OnlyOf, Frame
<1> QED
  BY <1>1, <1>2, <1>3, FrameInv DEF IInv

\* w locks a row too.
LEMMA LockStep ==
    ASSUME IInv, NEW w \in Workers, OnlyOf(w), OrdersType', UNCHANGED <<now, tables, supplied>>,
           NEW k \in Lockable, CanLock(w, k), TakeLock(w, k), WorkerInv(w)'
    PROVE  IInv'
<1> USE DEF tables, TakeLock, CanLock
<1>1. TypeOK'
  BY DEF IInv, TypeOK, StoreType
<1>2. References'
  BY DEF IInv, References, Placed
<1>3. \A v \in Workers \ {w} : Frame(v)
  BY StoreAssumption DEF OnlyOf, Frame, IInv, TypeOK, StoreType
<1> QED
  BY <1>1, <1>2, <1>3, FrameInv DEF IInv

\* w returns, and its transaction with it.
LEMMA Returned ==
    ASSUME IInv, NEW w \in Workers, Return(w)
    PROVE  /\ OnlyOf(w) /\ OrdersType' /\ WorkerInv(w)'
           /\ lock' \in [Lockable -> Workers \cup {None}]
           /\ \A v \in Workers \ {w} : \A k \in Lockable : lock'[k] = v <=> lock[k] = v
<1>1. NoTx \in Tx
  BY DEF NoTx, Tx
<1>2. OnlyOf(w) /\ OrdersType' /\ pc'[w] = "idle" /\ call'[w] = None /\ tx'[w] = NoTx
  BY <1>1 DEF Return, OnlyOf, IInv, TypeOK, OrdersType, Labels
<1>3. \A k \in Lockable : lock'[k] # w
  BY StoreAssumption DEF Return, ReleaseLocks
<1>4. lock' \in [Lockable -> Workers \cup {None}]
      /\ \A v \in Workers \ {w} : \A k \in Lockable : lock'[k] = v <=> lock[k] = v
  BY StoreAssumption DEF Return, ReleaseLocks, IInv, TypeOK, StoreType
<1>5. NoTx.entries = <<>> /\ NoTx.todo = {} /\ NoTx.uses = 0 /\ NoTx.keep = FALSE
      /\ NoTx.delta = [p \in Products |-> 0]
  BY DEF NoTx
<1>6. IdleClean(w)'
  BY <1>2, <1>3 DEF IdleClean, NoTx
<1>7. (Reaches(w) /\ Restores(w) /\ Progress(w) /\ Snapshot(w))'
  BY <1>2, <1>5 DEF Reaches, Restores, Progress, Snapshot
<1>8. (StockLocked(w) /\ PromoLocked(w) /\ StockAsRead(w))'
  BY <1>2, <1>5 DEF StockLocked, PromoLocked, StockAsRead
<1> QED
  BY <1>2, <1>4, <1>6, <1>7, <1>8 DEF WorkerInv

\* A request that is answered, refused or cut off (defer tx.Rollback) leaves
\* nothing of its transaction behind.
LEMMA ReturnStep ==
    ASSUME IInv, NEW w \in Workers, Return(w), UNCHANGED <<now, tables, supplied>>
    PROVE  IInv'
<1> USE DEF tables
<1>1. TypeOK'
  BY Returned DEF IInv, TypeOK, StoreType
<1>2. References'
  BY DEF IInv, References, Placed
<1>3. \A v \in Workers \ {w} : Frame(v)
  BY Returned DEF OnlyOf, Frame
<1> QED
  BY <1>1, <1>2, <1>3, Returned, FrameInv DEF IInv

-----------------------------------------------------------------------------
(* Steps of one request that change only its own state. *)

\* The handler passes a validated body to OrderService.
LEMMA StartInv ==
    ASSUME IInv, NEW w \in Workers, NEW c \in Call, NEW label \in {"limit", "order"},
           Start(w, c, label),
           label = "limit" => c.op = "create",
           label = "order" => c.op # "create" /\ c.order # None,
           c.op \in {"create", "update"} => c.lines # <<>>
    PROVE  IInv'
<1>1. pc[w] = "idle" /\ tx[w] = NoTx /\ tx[w] \in Tx
  BY DEF Start, IInv, WorkerInv, IdleClean, TypeOK, OrdersType
<1>2. pc' = [pc EXCEPT ![w] = label] /\ call' = [call EXCEPT ![w] = c] /\ tx' = tx
      /\ UNCHANGED storeVars
  BY DEF Start
<1>3. OnlyOf(w) /\ OrdersType' /\ pc'[w] = label /\ call'[w] = c /\ tx'[w] = NoTx
  BY <1>1, <1>2 DEF OnlyOf, IInv, TypeOK, OrdersType, Labels
<1>4. NoTx.entries = <<>> /\ NoTx.todo = {} /\ NoTx.uses = 0 /\ NoTx.keep = FALSE /\ NoTx.sold = 0
      /\ NoTx.delta = [p \in Products |-> 0]
  BY DEF NoTx
<1>5. c # None
  BY OrdersAssumption
<1>6. (IdleClean(w) /\ Reaches(w) /\ Restores(w))'
  BY <1>3, <1>4, <1>5 DEF IdleClean, Reaches, Restores
<1>7. (Progress(w) /\ Snapshot(w))'
  BY <1>3, <1>4 DEF Progress, Snapshot, Call
<1>8. (StockLocked(w) /\ PromoLocked(w) /\ StockAsRead(w))'
  BY <1>3, <1>4 DEF StockLocked, PromoLocked, StockAsRead
<1> QED
  BY <1>2, <1>3, <1>6, <1>7, <1>8, LocalStep DEF WorkerInv

\* What begins is a request with a body that the handlers let through, at its
\* first statement.
LEMMA Started ==
    ASSUME NEW w \in Workers, StartAny(w)
    PROVE  \E c \in Call, label \in {"limit", "order"} :
               /\ Start(w, c, label)
               /\ label = "limit" <=> c.op = "create"
               /\ label = "order" => c.order # None
               /\ c.op \in {"create", "update"} => c.lines # <<>>
<1>1. CASE StartCreate(w)
  <2>1. PICK u \in Callers, l \in LineLists, k \in Codes \cup {None} :
           Start(w, [op |-> "create", caller |-> u, order |-> None, lines |-> l, code |-> k], "limit")
    BY <1>1 DEF StartCreate
  <2> DEFINE c == [op |-> "create", caller |-> u, order |-> None, lines |-> l, code |-> k]
  <2>2. c \in Call /\ c.op = "create" /\ c.lines # <<>>
    BY OrdersAssumption DEF Call, Callers, Ops
  <2> QED
    BY <2>1, <2>2
<1>2. CASE StartUpdate(w)
  <2>1. PICK u \in Callers, o \in OrderIds, l \in LineLists :
           Start(w, [op |-> "update", caller |-> u, order |-> o, lines |-> l, code |-> None], "order")
    BY <1>2 DEF StartUpdate
  <2> DEFINE c == [op |-> "update", caller |-> u, order |-> o, lines |-> l, code |-> None]
  <2>2. c \in Call /\ c.op = "update" /\ c.lines # <<>> /\ c.order # None
    BY OrdersAssumption, StoreAssumption DEF Call, Callers, Ops
  <2> QED
    BY <2>1, <2>2
<1>3. CASE StartOther(w)
  <2>1. PICK u \in Callers, o \in OrderIds, op \in Requests \cap {"get", "cancel"} :
           Start(w, [op |-> op, caller |-> u, order |-> o, lines |-> <<>>, code |-> None], "order")
    BY <1>3 DEF StartOther
  <2> DEFINE c == [op |-> op, caller |-> u, order |-> o, lines |-> <<>>, code |-> None]
  <2>2. c \in Call /\ c.op \in {"get", "cancel"} /\ c.order # None
    BY OrdersAssumption, StoreAssumption DEF Call, Callers, Ops
  <2> QED
    BY <2>1, <2>2
<1> QED
  BY <1>1, <1>2, <1>3 DEF StartAny

\* So the invariant outlasts the beginning of a request.
LEMMA StartAnyInv ==
    ASSUME IInv, NEW w \in Workers, StartAny(w)
    PROVE  IInv'
BY Started, StartInv

\* Update, Cancel and Get find the order, and remember a row that refers to an
\* existing promo code.
LEMMA GetOrderByIDInv ==
    ASSUME IInv, NEW w \in Workers, GetOrderByID(w)
    PROVE  IInv'
<1> DEFINE l == IF call[w].op = "update" THEN "limit" ELSE "items"
           t == [tx[w] EXCEPT !.seen = orders[call[w].order]]
<1>1. /\ pc[w] = "order" /\ tx[w] \in Tx /\ call[w] \in Call /\ WorkerInv(w)
      /\ call[w].op # "create" /\ call[w].order \in OrderIds
  BY DEF GetOrderByID, IInv, TypeOK, OrdersType, WorkerInv, Reaches, Call
<1>2. t \in Tx /\ t.seen # None /\ (t.seen.promo # None => promo[t.seen.promo] # None)
  BY <1>1 DEF Tx, IInv, TypeOK, StoreType, References, Placed, GetOrderByID, MayTouch
<1>3. /\ pc' = [pc EXCEPT ![w] = l] /\ call' = [call EXCEPT ![w] = call[w]]
      /\ tx' = [tx EXCEPT ![w] = t] /\ UNCHANGED storeVars
  BY <1>1 DEF GetOrderByID, GoTo, IInv, TypeOK, OrdersType
<1>4. OnlyOf(w) /\ OrdersType' /\ pc'[w] = l /\ call'[w] = call[w] /\ tx'[w] = t
  BY <1>1, <1>2, <1>3 DEF OnlyOf, IInv, TypeOK, OrdersType, Labels
<1>5. /\ t.entries = tx[w].entries /\ t.todo = tx[w].todo /\ t.uses = tx[w].uses
      /\ t.keep = tx[w].keep /\ t.sold = tx[w].sold /\ t.delta = tx[w].delta
  BY <1>1 DEF Tx
<1>6. UNCHANGED <<product, promo, orders, lock>>
  BY <1>3 DEF storeVars, tables
<1>7. (IdleClean(w) /\ Reaches(w) /\ Restores(w))'
  <2>1. orders[call[w].order] # None /\ call[w] # None
    BY <1>1, OrdersAssumption DEF GetOrderByID, MayTouch
  <2>2. IdleClean(w)' /\ Restores(w)'
    BY <1>1, <1>4, <1>5, <1>6 DEF IdleClean, Restores, WorkerInv
  <2>3. Reaches(w)'
    <3> HIDE DEF t
    <3>1. l \in {"limit", "items"} /\ (l = "limit" => call[w].op = "update")
      OBVIOUS
    <3> QED
      BY <1>1, <1>2, <1>4, <1>6, <2>1, <3>1, StoreAssumption DEF Reaches, WorkerInv
  <2> QED
    BY <2>2, <2>3
<1>8. (Progress(w) /\ Snapshot(w))'
  BY <1>1, <1>4, <1>5, <1>6 DEF Progress, Snapshot, WorkerInv
<1>9. (StockLocked(w) /\ PromoLocked(w) /\ StockAsRead(w))'
  BY <1>1, <1>4, <1>5, <1>6 DEF StockLocked, PromoLocked, StockAsRead, WorkerInv
<1> QED
  BY <1>3, <1>4, <1>7, <1>8, <1>9, LocalStep DEF WorkerInv

\* checkRateLimit only reads.
LEMMA CheckRateLimitInv ==
    ASSUME IInv, NEW w \in Workers, CheckRateLimit(w)
    PROVE  IInv'
<1> DEFINE l == IF call[w].op = "create" THEN "active" ELSE "items"
<1>1. pc[w] = "limit" /\ WorkerInv(w)
  BY DEF CheckRateLimit, IInv
<1>2. pc' = [pc EXCEPT ![w] = l] /\ call' = call /\ tx' = tx /\ UNCHANGED storeVars
  BY DEF CheckRateLimit, GoTo
<1>3. OnlyOf(w) /\ OrdersType' /\ pc'[w] = l
  BY <1>2 DEF OnlyOf, IInv, TypeOK, OrdersType, Labels
<1>4. UNCHANGED <<product, promo, orders, lock>>
  BY <1>2 DEF storeVars, tables
<1>5. (IdleClean(w) /\ Reaches(w) /\ Restores(w))'
  BY <1>1, <1>2, <1>3, <1>4 DEF IdleClean, Reaches, Restores, WorkerInv
<1>6. (Progress(w) /\ Snapshot(w))'
  BY <1>1, <1>2, <1>3, <1>4 DEF Progress, Snapshot, WorkerInv
<1>7. (StockLocked(w) /\ PromoLocked(w) /\ StockAsRead(w))'
  BY <1>1, <1>2, <1>3, <1>4 DEF StockLocked, PromoLocked, StockAsRead, WorkerInv, PromoOf
<1> QED
  BY <1>2, <1>3, <1>5, <1>6, <1>7, LocalStep DEF WorkerInv

\* Create begins with a clean transaction.
LEMMA GetActiveOrderInv ==
    ASSUME IInv, NEW w \in Workers, GetActiveOrder(w)
    PROVE  IInv'
<1> DEFINE t == [tx[w] EXCEPT !.began = now]
<1>1. pc[w] = "active" /\ tx[w] \in Tx /\ WorkerInv(w) /\ call[w].op = "create"
  BY DEF GetActiveOrder, IInv, TypeOK, OrdersType, WorkerInv, Reaches
<1>2. t \in Tx
  BY <1>1 DEF Tx, IInv, TypeOK, StoreType
<1>3. /\ pc' = [pc EXCEPT ![w] = "lines"] /\ call' = call
      /\ tx' = [tx EXCEPT ![w] = t] /\ UNCHANGED storeVars
  BY DEF GetActiveOrder, GoTo
<1>4. OnlyOf(w) /\ OrdersType' /\ pc'[w] = "lines" /\ tx'[w] = t
  BY <1>2, <1>3 DEF OnlyOf, IInv, TypeOK, OrdersType, Labels
<1>5. /\ t.entries = tx[w].entries /\ t.todo = tx[w].todo /\ t.uses = tx[w].uses
      /\ t.keep = tx[w].keep /\ t.sold = tx[w].sold /\ t.delta = tx[w].delta
  BY <1>1 DEF Tx
<1>6. UNCHANGED <<product, promo, orders, lock>>
  BY <1>3 DEF storeVars, tables
<1>7. (IdleClean(w) /\ Reaches(w) /\ Restores(w))'
  BY <1>1, <1>3, <1>4, <1>5, <1>6 DEF IdleClean, Reaches, Restores, WorkerInv
<1>8. tx[w].entries = <<>> /\ tx[w].sold = 0 /\ call[w].lines \in Seq(Line) /\ call[w].lines # <<>>
  BY <1>1 DEF WorkerInv, Progress, Reaches, IInv, TypeOK, OrdersType, Call
<1>9. (Progress(w) /\ Snapshot(w))'
  BY <1>1, <1>3, <1>4, <1>5, <1>6, <1>8 DEF Progress, Snapshot, WorkerInv
<1>10. (StockLocked(w) /\ PromoLocked(w) /\ StockAsRead(w))'
  BY <1>1, <1>3, <1>4, <1>5, <1>6, <1>8 DEF StockLocked, PromoLocked, StockAsRead, WorkerInv
<1> QED
  BY <1>3, <1>4, <1>7, <1>9, <1>10, LocalStep DEF WorkerInv

\* Update and Cancel remember the old rows; the products they name exist.
LEMMA GetOrderItemsInv ==
    ASSUME IInv, NEW w \in Workers, GetOrderItems(w)
    PROVE  IInv'
<1>1. /\ pc[w] = "items" /\ tx[w] \in Tx /\ call[w] \in Call /\ WorkerInv(w)
      /\ call[w].op \in {"update", "cancel"} /\ call[w].order \in OrderIds
  BY DEF GetOrderItems, IInv, TypeOK, OrdersType, WorkerInv, Reaches, Call, Ops
<1> DEFINE rows == items[call[w].order]
<1>2. PICK r \in rows \cup {None} :
        /\ RestoreNext(w, rows, r)
        /\ tx' = [tx EXCEPT ![w].began = now, ![w].next = r, ![w].todo = rows \ {r}]
  BY DEF GetOrderItems
<1> DEFINE l == IF r = None THEN AfterRestore(w) ELSE "restore"
           t == [tx[w] EXCEPT !.began = now, !.next = r, !.todo = rows \ {r}]
<1>3. rows \subseteq ItemRow /\ \A x \in rows : product[x.product] # None
  BY <1>1 DEF IInv, TypeOK, StoreType, References
<1>4. t \in Tx
  BY <1>1, <1>3 DEF Tx, IInv, TypeOK, StoreType
<1>5. /\ pc' = [pc EXCEPT ![w] = l] /\ call' = call
      /\ tx' = [tx EXCEPT ![w] = t] /\ UNCHANGED storeVars
  BY <1>1, <1>2 DEF RestoreNext, GoTo, GetOrderItems, IInv, TypeOK, OrdersType
<1>6. /\ l \in {"restore", "lines", "promo", "write"} /\ (l = "lines" => call[w].op = "update")
      /\ (l = "promo" => PromoOf(w) # None) /\ (l = "restore" => r # None)
  BY <1>1 DEF AfterRestore
<1> HIDE DEF l
<1>7. OnlyOf(w) /\ OrdersType' /\ pc'[w] = l /\ tx'[w] = t
  BY <1>4, <1>5, <1>6 DEF OnlyOf, IInv, TypeOK, OrdersType, Labels
<1>8. /\ t.entries = tx[w].entries /\ t.todo \subseteq rows /\ t.next = r /\ t.uses = tx[w].uses
      /\ t.keep = tx[w].keep /\ t.sold = tx[w].sold /\ t.delta = tx[w].delta /\ t.seen = tx[w].seen
  BY <1>1 DEF Tx
<1> HIDE DEF t
<1>9. UNCHANGED <<product, promo, orders, lock>>
  BY <1>5 DEF storeVars, tables
<1>10. tx[w].entries = <<>> /\ tx[w].sold = 0 /\ call[w].lines \in Seq(Line)
  BY <1>1 DEF WorkerInv, Progress, Reaches, Call
<1>11. PromoOf(w)' = PromoOf(w)
  BY <1>5, <1>7, <1>8 DEF PromoOf
<1>12. IdleClean(w)' /\ Reaches(w)'
  BY <1>1, <1>5, <1>6, <1>7, <1>8, <1>9 DEF IdleClean, Reaches, WorkerInv
<1>13. Restores(w)'
  BY <1>1, <1>3, <1>6, <1>7, <1>8, <1>9 DEF Restores, WorkerInv
<1>14. (Progress(w) /\ Snapshot(w))'
  BY <1>1, <1>5, <1>6, <1>7, <1>8, <1>9, <1>10 DEF Progress, Snapshot, WorkerInv
<1>15. (StockLocked(w) /\ PromoLocked(w) /\ StockAsRead(w))'
  BY <1>1, <1>5, <1>6, <1>7, <1>8, <1>9, <1>10, <1>11 DEF StockLocked, PromoLocked, StockAsRead, WorkerInv
<1> QED
  BY <1>5, <1>7, <1>12, <1>13, <1>14, <1>15, LocalStep DEF WorkerInv

\* Create goes on with a promo code that exists, on which it has no lock.
LEMMA GetPromoCodeByCodeInv ==
    ASSUME IInv, NEW w \in Workers, GetPromoCodeByCode(w)
    PROVE  IInv'
<1>1. pc[w] = "promo" /\ WorkerInv(w) /\ call[w].op = "create"
  BY DEF GetPromoCodeByCode, IInv
<1>2. pc' = [pc EXCEPT ![w] = "claim"] /\ call' = call /\ tx' = tx /\ UNCHANGED storeVars
  BY DEF GetPromoCodeByCode, GoTo
<1>3. OnlyOf(w) /\ OrdersType' /\ pc'[w] = "claim"
  BY <1>2 DEF OnlyOf, IInv, TypeOK, OrdersType, Labels
<1>4. UNCHANGED <<product, promo, orders, lock>>
  BY <1>2 DEF storeVars, tables
<1>5. (IdleClean(w) /\ Reaches(w) /\ Restores(w))'
  BY <1>1, <1>2, <1>3, <1>4 DEF IdleClean, Reaches, Restores, WorkerInv
<1>6. (Progress(w) /\ Snapshot(w))'
  BY <1>1, <1>2, <1>3, <1>4 DEF Progress, Snapshot, WorkerInv
<1>7. call[w].code # None /\ promo[call[w].code] # None
  BY <1>1 DEF WorkerInv, PromoLocked, PromoOf, GetPromoCodeByCode, PromoFits
<1>8. (StockLocked(w) /\ PromoLocked(w) /\ StockAsRead(w))'
  BY <1>1, <1>2, <1>3, <1>4, <1>7 DEF StockLocked, PromoLocked, StockAsRead, WorkerInv, PromoOf
<1> QED
  BY <1>2, <1>3, <1>5, <1>6, <1>8, LocalStep DEF WorkerInv

\* The DELETE of Update disturbs nothing that a request relies on.
LEMMA DeleteOrderItemsInv ==
    ASSUME IInv, NEW w \in Workers, DeleteOrderItems(w)
    PROVE  IInv'
<1> DEFINE t == [tx[w] EXCEPT !.doomed = items[call[w].order]]
<1>1. /\ pc[w] = "delete" /\ tx[w] \in Tx /\ WorkerInv(w) /\ call[w].op = "update"
      /\ call[w] \in Call /\ call[w].order \in OrderIds
  BY DEF DeleteOrderItems, IInv, TypeOK, OrdersType, WorkerInv, Reaches, Call
<1>2. t \in Tx
  BY <1>1 DEF Tx, IInv, TypeOK, StoreType
<1>3. /\ pc' = [pc EXCEPT ![w] = "write"] /\ call' = call
      /\ tx' = [tx EXCEPT ![w] = t] /\ UNCHANGED storeVars
  BY DEF DeleteOrderItems, GoTo
<1>4. OnlyOf(w) /\ OrdersType' /\ pc'[w] = "write" /\ tx'[w] = t
  BY <1>2, <1>3 DEF OnlyOf, IInv, TypeOK, OrdersType, Labels
<1>5. /\ t.entries = tx[w].entries /\ t.todo = tx[w].todo /\ t.uses = tx[w].uses
      /\ t.keep = tx[w].keep /\ t.sold = tx[w].sold /\ t.delta = tx[w].delta
      /\ t.seen = tx[w].seen /\ t.next = tx[w].next
  BY <1>1 DEF Tx
<1> HIDE DEF t
<1>6. UNCHANGED <<product, promo, orders, lock>>
  BY <1>3 DEF storeVars, tables
<1>7. PromoOf(w)' = PromoOf(w)
  BY <1>3, <1>4, <1>5 DEF PromoOf
<1>8. (IdleClean(w) /\ Reaches(w) /\ Restores(w))'
  BY <1>1, <1>3, <1>4, <1>5, <1>6 DEF IdleClean, Reaches, Restores, WorkerInv
<1>9. (Progress(w) /\ Snapshot(w))'
  BY <1>1, <1>3, <1>4, <1>5, <1>6 DEF Progress, Snapshot, WorkerInv
<1>10. (StockLocked(w) /\ PromoLocked(w) /\ StockAsRead(w))'
  BY <1>1, <1>3, <1>4, <1>5, <1>6, <1>7 DEF StockLocked, PromoLocked, StockAsRead, WorkerInv
<1> QED
  BY <1>3, <1>4, <1>8, <1>9, <1>10, LocalStep DEF WorkerInv

\* The entries of a transaction, as its type says.
LEMMA EntryTypes ==
    ASSUME TypeOK, NEW w \in Workers
    PROVE  /\ tx[w].entries \in Seq(Entry) /\ Len(tx[w].entries) \in Nat /\ tx[w].sold \in Nat
           /\ tx[w].delta \in [Products -> Int]
           /\ \A i \in 1 .. Len(tx[w].entries) :
                  /\ tx[w].entries[i].product \in Products
                  /\ tx[w].entries[i].qty \in Nat \ {0}
                  /\ tx[w].entries[i].price \in Nat \ {0}
                  /\ tx[w].entries[i].stock \in Int
<1>1. tx[w] \in Tx
  BY DEF TypeOK, OrdersType
<1>2. tx[w].entries \in Seq(Entry) /\ tx[w].sold \in Nat /\ tx[w].delta \in [Products -> Int]
  BY <1>1 DEF Tx
<1>3. \A i \in 1 .. Len(tx[w].entries) : tx[w].entries[i] \in Entry
  BY <1>2
<1>4. Len(tx[w].entries) \in Nat
  BY <1>2
<1>5. \A e \in Entry : /\ e.product \in Products /\ e.qty \in Nat \ {0}
                       /\ e.price \in Nat \ {0} /\ e.stock \in Int
  BY DEF Entry
<1> QED
  BY <1>2, <1>3, <1>4, <1>5

\* Stock is taken under the lock of the row, and no more than there is.
LEMMA DecrementStockInv ==
    ASSUME IInv, NEW w \in Workers, DecrementStock(w)
    PROVE  IInv'
<1> DEFINE i == tx[w].sold + 1
           e == tx[w].entries[i]
           last == i = Len(tx[w].entries)
           l == IF last THEN AfterStock(w) ELSE "stock"
           t == [tx[w] EXCEPT !.sold = @ + 1, !.delta[e.product] = @ - e.qty]
<1>1. pc[w] = "stock" /\ tx[w] \in Tx /\ WorkerInv(w) /\ call[w].op \in {"create", "update"}
      /\ call[w] \in Call /\ TypeOK
  BY DEF DecrementStock, IInv, TypeOK, OrdersType, WorkerInv, Reaches
<1>2. /\ i \in 1 .. Len(tx[w].entries) /\ e.product \in Products /\ e.qty \in Nat \ {0}
      /\ lock[e.product] = w /\ product[e.product] # None
      /\ tx[w].delta \in [Products -> Int]
  <2>1. tx[w].sold < Len(tx[w].entries)
    BY <1>1 DEF WorkerInv, Progress
  <2>2. i \in 1 .. Len(tx[w].entries)
    BY <1>1, <2>1, EntryTypes
  <2>3. lock[e.product] = w /\ product[e.product] # None
    BY <1>1, <2>2 DEF WorkerInv, Snapshot
  <2> QED
    BY <1>1, <2>2, <2>3, EntryTypes
<1> HIDE DEF e
<1>3. product[e.product].stock \in Nat /\ tx[w].delta[e.product] \in Int
  BY <1>1, <1>2 DEF TypeOK, StoreType, ProductRow
<1>4. product[e.product].stock + tx[w].delta[e.product] - e.qty >= 0
  <2>1. e.qty <= product[e.product].stock + tx[w].delta[e.product]
    BY DEF DecrementStock, StockCheck, StockSeen, CurrentSale, e
  <2> QED
    BY <1>2, <1>3, <2>1
<1>5. t \in Tx
  <2>1. [tx[w].delta EXCEPT ![e.product] = @ - e.qty] \in [Products -> Int]
    BY <1>2, <1>3
  <2>2. tx[w].sold + 1 \in Nat
    BY <1>1, EntryTypes
  <2>3. t = [tx[w] EXCEPT !.sold = tx[w].sold + 1,
                          !.delta = [tx[w].delta EXCEPT ![e.product] = @ - e.qty]]
    OBVIOUS
  <2> HIDE DEF t
  <2> QED
    BY <1>1, <2>1, <2>2, <2>3 DEF Tx
<1>6. /\ t.entries = tx[w].entries /\ t.todo = tx[w].todo /\ t.uses = tx[w].uses
      /\ t.keep = tx[w].keep /\ t.sold = i /\ t.seen = tx[w].seen /\ t.next = tx[w].next
      /\ t.delta = [tx[w].delta EXCEPT ![e.product] = @ - e.qty]
  BY <1>1 DEF Tx
<1>7. /\ pc' = [pc EXCEPT ![w] = l] /\ call' = call
      /\ tx' = [tx EXCEPT ![w] = t] /\ UNCHANGED storeVars
  BY <1>1 DEF DecrementStock, GoTo, CurrentSale, e
<1>8. /\ l \in {"stock", "promo", "delete", "write"} /\ (l = "stock" => i < Len(tx[w].entries))
      /\ (l = "promo" => PromoOf(w) # None) /\ (l = "delete" => call[w].op = "update")
  BY <1>1, <1>2, EntryTypes DEF AfterStock
<1> HIDE DEF t, l
<1>9. OnlyOf(w) /\ OrdersType' /\ pc'[w] = l /\ tx'[w] = t
  BY <1>5, <1>7, <1>8 DEF OnlyOf, IInv, TypeOK, OrdersType, Labels
<1>10. UNCHANGED <<product, promo, orders, lock>>
  BY <1>7 DEF storeVars, tables
<1>11. PromoOf(w)' = PromoOf(w)
  BY <1>6, <1>7, <1>9 DEF PromoOf
<1>12. IdleClean(w)' /\ Reaches(w)' /\ Restores(w)'
  BY <1>1, <1>6, <1>7, <1>8, <1>9, <1>10 DEF IdleClean, Reaches, Restores, WorkerInv
<1>13. Progress(w)' /\ Snapshot(w)'
  <2>1. Progress(w)'
    <3>1. Progress(w)
      BY <1>1 DEF WorkerInv
    <3> HIDE DEF i
    <3> QED
      BY <1>1, <1>6, <1>7, <1>8, <1>9, <3>1 DEF Progress
  <2>2. Snapshot(w)'
    BY <1>1, <1>6, <1>7, <1>9, <1>10 DEF Snapshot, WorkerInv
  <2> QED
    BY <2>1, <2>2
<1>14. StockLocked(w)'
  BY <1>1, <1>2, <1>3, <1>4, <1>6, <1>9, <1>10 DEF StockLocked, WorkerInv
<1>15. PromoLocked(w)'
  BY <1>1, <1>6, <1>7, <1>8, <1>9, <1>10, <1>11 DEF PromoLocked, WorkerInv
<1>16. StockAsRead(w)'
  <2> SUFFICES ASSUME DistinctLines(call[w].lines), NEW j \in i + 1 .. Len(tx[w].entries)
               PROVE  StockSeen(w, tx[w].entries[j].product)' = tx[w].entries[j].stock
    BY <1>6, <1>7, <1>9 DEF StockAsRead, StockSeen
  <2>1. j \in 1 .. Len(tx[w].entries) /\ j \in tx[w].sold + 1 .. Len(tx[w].entries) /\ j # i
    BY <1>2, EntryTypes, <1>1
  <2>2. tx[w].entries[j].product # e.product
    <3>1. call[w].lines \in Seq(Line) /\ Len(tx[w].entries) <= Len(call[w].lines)
      BY <1>1 DEF Call, WorkerInv, Progress
    <3>2. i \in DOMAIN call[w].lines /\ j \in DOMAIN call[w].lines
      BY <1>1, <1>2, <2>1, <3>1, EntryTypes
    <3>3. tx[w].entries[j].product = call[w].lines[j].product /\ e.product = call[w].lines[i].product
      BY <1>1, <1>2, <2>1 DEF WorkerInv, Snapshot, e
    <3> QED
      BY <2>1, <3>2, <3>3 DEF DistinctLines
  <2>3. StockSeen(w, tx[w].entries[j].product) = tx[w].entries[j].stock
    BY <1>1, <2>1 DEF WorkerInv, StockAsRead
  <2> QED
    BY <1>1, <1>2, <1>6, <1>9, <1>10, <2>1, <2>2, <2>3, EntryTypes DEF StockSeen
<1> QED
  BY <1>7, <1>9, <1>12, <1>13, <1>14, <1>15, <1>16, LocalStep DEF WorkerInv

-----------------------------------------------------------------------------
(* Steps of one request that lock a row. *)

\* Locks of w that stay, and the one that is new.
LEMMA NewLock ==
    ASSUME TypeOK, NEW w \in Workers, NEW k \in Lockable, TakeLock(w, k)
    PROVE  lock'[k] = w /\ \A x \in Lockable : lock[x] = w => lock'[x] = w
  BY DEF TypeOK, StoreType, TakeLock

\* Old stock is given back under the lock of the row.
LEMMA IncrementStockInv ==
    ASSUME IInv, NEW w \in Workers, IncrementStock(w)
    PROVE  IInv'
<1> DEFINE old == tx[w].next
           k == old.product
<1>1. /\ pc[w] = "restore" /\ tx[w] \in Tx /\ call[w] \in Call /\ WorkerInv(w) /\ TypeOK
      /\ call[w].op \in {"update", "cancel"}
  BY DEF IncrementStock, IInv, TypeOK, OrdersType, WorkerInv, Reaches, Call, Ops
<1>2. k \in Products /\ k \in Lockable /\ old.qty \in Nat \ {0} /\ product[k] # None
      /\ tx[w].todo \subseteq ItemRow
  <2>1. old \in ItemRow /\ product[k] # None
    BY <1>1 DEF WorkerInv, Restores, Tx
  <2> HIDE DEF old
  <2> QED
    BY <1>1, <2>1 DEF ItemRow, Lockable, Tx
<1> HIDE DEF k
<1>3. PICK r \in tx[w].todo \cup {None} :
        /\ RestoreNext(w, tx[w].todo, r)
        /\ tx' = [tx EXCEPT ![w].delta[k] = @ + old.qty, ![w].next = r, ![w].todo = @ \ {r}]
  BY DEF IncrementStock, k
<1> DEFINE d == [tx[w].delta EXCEPT ![k] = @ + old.qty]
           l == IF r = None THEN AfterRestore(w) ELSE "restore"
           t == [tx[w] EXCEPT !.delta = d, !.next = r, !.todo = tx[w].todo \ {r}]
<1>4. d \in [Products -> Int]
  <2>1. tx[w].delta \in [Products -> Int]
    BY <1>1 DEF Tx
  <2> QED
    BY <1>2, <2>1
<1>5. /\ pc' = [pc EXCEPT ![w] = l] /\ call' = call
      /\ tx' = [tx EXCEPT ![w] = t] /\ UNCHANGED <<now, tables, supplied>>
      /\ CanLock(w, k) /\ TakeLock(w, k)
  BY <1>1, <1>3 DEF RestoreNext, GoTo, IncrementStock, k
<1> HIDE DEF d
<1>6. t \in Tx
  BY <1>1, <1>2, <1>4 DEF Tx
<1>7. /\ t.entries = tx[w].entries /\ t.todo \subseteq tx[w].todo /\ t.next = r /\ t.uses = tx[w].uses
      /\ t.keep = tx[w].keep /\ t.sold = tx[w].sold /\ t.delta = d /\ t.seen = tx[w].seen
  BY <1>1 DEF Tx
<1> HIDE DEF t
<1>8. /\ l \in {"restore", "lines", "promo", "write"} /\ (l = "lines" => call[w].op = "update")
      /\ (l = "promo" => PromoOf(w) # None) /\ (l = "restore" => r # None)
  BY <1>1 DEF AfterRestore
<1> HIDE DEF l
<1>9. OnlyOf(w) /\ OrdersType' /\ pc'[w] = l /\ tx'[w] = t
  BY <1>5, <1>6, <1>8 DEF OnlyOf, IInv, TypeOK, OrdersType, Labels
<1>10. UNCHANGED <<product, promo, orders>>
  BY <1>5 DEF tables
<1>11. tx[w].entries = <<>> /\ tx[w].sold = 0 /\ call[w].lines \in Seq(Line)
  BY <1>1 DEF WorkerInv, Progress, Reaches, Call
<1>12. PromoOf(w)' = PromoOf(w)
  BY <1>5, <1>7, <1>9 DEF PromoOf
<1>13. IdleClean(w)' /\ Reaches(w)'
  BY <1>1, <1>5, <1>7, <1>8, <1>9, <1>10 DEF IdleClean, Reaches, WorkerInv
<1>14. Restores(w)'
  BY <1>1, <1>3, <1>7, <1>8, <1>9, <1>10 DEF Restores, WorkerInv
<1>15. (Progress(w) /\ Snapshot(w))'
  BY <1>1, <1>5, <1>7, <1>8, <1>9, <1>11 DEF Progress, Snapshot, WorkerInv
<1>16. StockLocked(w)'
  <2> SUFFICES ASSUME NEW p \in Products, d[p] # 0
               PROVE  lock'[p] = w /\ product[p] # None /\ product[p].stock + d[p] >= 0
    BY <1>7, <1>9, <1>10 DEF StockLocked
  <2>1. tx[w].delta[p] # 0 => /\ lock[p] = w /\ product[p] # None
                              /\ product[p].stock + tx[w].delta[p] >= 0
    BY <1>1 DEF WorkerInv, StockLocked
  <2>2. lock'[k] = w /\ (lock[p] = w => lock'[p] = w)
    BY <1>1, <1>2, <1>5, NewLock DEF Lockable
  <2>3. tx[w].delta \in [Products -> Int] /\ (product[p] # None => product[p].stock \in Nat)
    BY <1>1 DEF Tx, TypeOK, StoreType, ProductRow
  <2>4. CASE p = k
    BY <1>2, <2>1, <2>2, <2>3, <2>4 DEF d
  <2>5. CASE p # k
    BY <2>1, <2>2, <2>3, <2>5 DEF d
  <2> QED
    BY <2>4, <2>5
<1>17. (PromoLocked(w) /\ StockAsRead(w))'
  BY <1>1, <1>5, <1>7, <1>8, <1>9, <1>10, <1>11, <1>12 DEF PromoLocked, StockAsRead, WorkerInv
<1> QED
  BY <1>2, <1>5, <1>9, <1>13, <1>14, <1>15, <1>16, <1>17, LockStep DEF WorkerInv

\* What is read with FOR UPDATE is the row as it stays until the commit; lines
\* of other products do not change what this one found.
LEMMA GetProductForUpdateInv ==
    ASSUME IInv, NEW w \in Workers, GetProductForUpdate(w)
    PROVE  IInv'
<1> DEFINE n == Len(tx[w].entries)
           line == CurrentLine(w)
           k == line.product
           e == [product |-> k, qty |-> line.qty, price |-> product[k].price,
                 stock |-> StockSeen(w, k)]
           s == Append(tx[w].entries, e)
           l == IF n + 1 = Len(call[w].lines) THEN "stock" ELSE "lines"
           t == [tx[w] EXCEPT !.entries = s]
<1>1. /\ pc[w] = "lines" /\ tx[w] \in Tx /\ call[w] \in Call /\ WorkerInv(w) /\ TypeOK
      /\ call[w].op \in {"create", "update"}
  BY DEF GetProductForUpdate, ReadsProduct, IInv, TypeOK, OrdersType, WorkerInv, Reaches
<1>2. /\ n \in Nat /\ tx[w].entries \in Seq(Entry) /\ tx[w].sold = 0
      /\ call[w].lines \in Seq(Line) /\ n < Len(call[w].lines)
  BY <1>1, EntryTypes DEF WorkerInv, Progress, Call
<1>3. line = call[w].lines[n + 1] /\ line \in Line
  BY <1>2 DEF CurrentLine
<1>4. k \in Products /\ line.qty \in Nat \ {0} /\ k \in Lockable
  BY <1>3 DEF Line, Lockable
<1>5. /\ CanLock(w, k) /\ TakeLock(w, k) /\ product[k] # None /\ product[k].status = "ACTIVE"
      /\ UNCHANGED <<now, tables, supplied>>
  BY DEF GetProductForUpdate, ReadsProduct
<1>6. /\ pc' = [pc EXCEPT ![w] = l] /\ call' = call /\ tx' = [tx EXCEPT ![w] = t]
  BY <1>1 DEF GetProductForUpdate, GoTo
<1>7. product[k].price \in Nat \ {0} /\ StockSeen(w, k) \in Int
  BY <1>1, <1>4, <1>5 DEF TypeOK, StoreType, ProductRow, StockSeen, Tx
<1> HIDE DEF line
<1>8. e \in Entry
  BY <1>4, <1>7 DEF Entry
<1>9. e.product = k /\ e.price = product[k].price /\ e.stock = StockSeen(w, k)
  OBVIOUS
<1> HIDE DEF e, k
<1>10. s \in Seq(Entry) /\ Len(s) = n + 1 /\ s[n + 1] = e
       /\ \A i \in 1 .. n : s[i] = tx[w].entries[i]
  BY <1>2, <1>8
<1> HIDE DEF s
<1>11. t \in Tx
  BY <1>1, <1>10 DEF Tx
<1>12. /\ t.entries = s /\ t.todo = tx[w].todo /\ t.uses = tx[w].uses /\ t.keep = tx[w].keep
       /\ t.sold = 0 /\ t.seen = tx[w].seen /\ t.next = tx[w].next /\ t.delta = tx[w].delta
  BY <1>1, <1>2 DEF Tx
<1>13. l \in {"stock", "lines"} /\ (l = "lines" => n + 1 < Len(call[w].lines))
  BY <1>2
<1> HIDE DEF t, l
<1>14. OnlyOf(w) /\ OrdersType' /\ pc'[w] = l /\ tx'[w] = t
  BY <1>6, <1>11, <1>13 DEF OnlyOf, IInv, TypeOK, OrdersType, Labels
<1>15. UNCHANGED <<product, promo, orders>>
  BY <1>5 DEF tables
<1>16. lock'[k] = w /\ \A x \in Lockable : lock[x] = w => lock'[x] = w
  BY <1>1, <1>4, <1>5, NewLock
<1>17. IdleClean(w)' /\ Reaches(w)' /\ Restores(w)'
  BY <1>1, <1>6, <1>12, <1>13, <1>14, <1>15 DEF IdleClean, Reaches, Restores, WorkerInv
<1>18. Progress(w)'
  BY <1>1, <1>2, <1>6, <1>10, <1>12, <1>13, <1>14 DEF Progress, WorkerInv
<1>19. Snapshot(w)'
  <2> SUFFICES ASSUME NEW i \in 1 .. n + 1
               PROVE  /\ lock'[s[i].product] = w /\ product[s[i].product] # None
                      /\ product[s[i].product].status = "ACTIVE"
                      /\ product[s[i].product].price = s[i].price
                      /\ s[i].product = call[w].lines[i].product
    BY <1>6, <1>10, <1>12, <1>14, <1>15 DEF Snapshot
  <2>1. CASE i = n + 1
    BY <1>3, <1>5, <1>9, <1>10, <1>16, <2>1 DEF k
  <2>2. CASE i # n + 1
    <3>1. i \in 1 .. n
      BY <1>2, <2>2
    <3>2. tx[w].entries[i].product \in Lockable
      BY <1>1, <3>1, EntryTypes DEF Lockable
    <3> QED
      BY <1>1, <1>10, <1>16, <3>1, <3>2 DEF Snapshot, WorkerInv
  <2> QED
    BY <2>1, <2>2
<1>20. (StockLocked(w) /\ PromoLocked(w))'
  BY <1>1, <1>6, <1>12, <1>13, <1>14, <1>15, <1>16 DEF StockLocked, PromoLocked, WorkerInv, Lockable
<1>21. StockAsRead(w)'
  <2> SUFFICES ASSUME DistinctLines(call[w].lines), NEW i \in 1 .. n + 1
               PROVE  StockSeen(w, s[i].product) = s[i].stock
    BY <1>6, <1>10, <1>12, <1>14, <1>15 DEF StockAsRead, StockSeen
  <2>1. CASE i = n + 1
    BY <1>9, <1>10, <2>1
  <2>2. CASE i # n + 1
    BY <1>1, <1>2, <1>10, <2>2 DEF StockAsRead, WorkerInv
  <2> QED
    BY <2>1, <2>2
<1> QED
  BY <1>4, <1>5, <1>14, <1>17, <1>18, <1>19, <1>20, <1>21, LockStep DEF WorkerInv

\* The three statements that count a use of the promo code k, or give it back:
\* they leave w with the lock of k, and d as the change.
LEMMA PromoStep ==
    ASSUME IInv, NEW w \in Workers, pc[w] \in {"promo", "claim"}, call[w].op # "get",
           NEW l \in {"delete", "write"}, l = "delete" => call[w].op = "update",
           NEW k \in Codes, k = PromoOf(w), promo[k] # None, CanLock(w, k), TakeLock(w, k),
           NEW d \in -1 .. 1, promo[k].uses + d >= 0, NEW kept \in BOOLEAN,
           pc' = [pc EXCEPT ![w] = l], call' = call,
           tx' = [tx EXCEPT ![w] = [tx[w] EXCEPT !.uses = d, !.keep = kept]],
           UNCHANGED <<now, tables, supplied>>
    PROVE  IInv'
<1> DEFINE t == [tx[w] EXCEPT !.uses = d, !.keep = kept]
<1>1. tx[w] \in Tx /\ WorkerInv(w) /\ TypeOK /\ k \in Lockable
  BY DEF IInv, TypeOK, OrdersType, Lockable
<1>2. t \in Tx
  BY <1>1 DEF Tx
<1>3. /\ t.entries = tx[w].entries /\ t.todo = tx[w].todo /\ t.uses = d /\ t.keep = kept
      /\ t.sold = tx[w].sold /\ t.seen = tx[w].seen /\ t.next = tx[w].next
      /\ t.delta = tx[w].delta
  BY <1>1 DEF Tx
<1>4. tx' = [tx EXCEPT ![w] = t]
  OBVIOUS
<1> HIDE DEF t
<1>5. OnlyOf(w) /\ OrdersType' /\ pc'[w] = l /\ tx'[w] = t
  BY <1>2, <1>4 DEF OnlyOf, IInv, TypeOK, OrdersType, Labels
<1>6. UNCHANGED <<product, promo, orders>>
  BY DEF tables
<1>7. lock'[k] = w /\ \A x \in Lockable : lock[x] = w => lock'[x] = w
  BY <1>1, NewLock
<1>8. PromoOf(w)' = PromoOf(w)
  BY <1>3, <1>5 DEF PromoOf
<1>9. IdleClean(w)' /\ Reaches(w)' /\ Restores(w)'
  BY <1>1, <1>3, <1>5, <1>6 DEF IdleClean, Reaches, Restores, WorkerInv
<1>10. Progress(w)' /\ StockAsRead(w)'
  BY <1>1, <1>3, <1>5 DEF Progress, StockAsRead, WorkerInv
<1>11. Snapshot(w)'
  BY <1>1, <1>3, <1>5, <1>6, <1>7, EntryTypes DEF Snapshot, WorkerInv, Lockable
<1>12. StockLocked(w)'
  BY <1>1, <1>3, <1>5, <1>6, <1>7 DEF StockLocked, WorkerInv, Lockable
<1>13. PromoLocked(w)'
  <2>1. k # None
    BY StoreAssumption
  <2> QED
    BY <1>3, <1>5, <1>6, <1>7, <1>8, <2>1 DEF PromoLocked
<1> QED
  BY <1>1, <1>5, <1>9, <1>10, <1>11, <1>12, <1>13, LockStep DEF WorkerInv

\* Create counts a use under the lock of the row, with nothing left to wait for.
LEMMA IncrementPromoUsesInv ==
    ASSUME IInv, NEW w \in Workers, IncrementPromoUses(w)
    PROVE  IInv'
<1>1. /\ pc[w] = "claim" /\ call[w] \in Call /\ call[w].op = "create" /\ tx[w] \in Tx
      /\ call[w].code \in Codes /\ promo[call[w].code] # None
  BY DEF IncrementPromoUses, IInv, TypeOK, OrdersType, WorkerInv, Reaches, PromoLocked, Call
<1>2. PromoOf(w) = call[w].code
  BY <1>1 DEF PromoOf
<1>3. promo[call[w].code].uses \in Nat
  BY <1>1 DEF IInv, TypeOK, StoreType, PromoRow
<1>4. /\ pc' = [pc EXCEPT ![w] = "write"] /\ call' = call
      /\ CanLock(w, call[w].code) /\ TakeLock(w, call[w].code)
      /\ tx' = [tx EXCEPT ![w] = [tx[w] EXCEPT !.uses = 1, !.keep = TRUE]]
      /\ UNCHANGED <<now, tables, supplied>>
  BY DEF IncrementPromoUses, GoTo
<1>5. promo[call[w].code].uses + 1 >= 0 /\ 1 \in -1 .. 1 /\ TRUE \in BOOLEAN
  BY <1>3
<1> QED
  BY <1>1, <1>2, <1>4, <1>5, PromoStep

\* The promo code of an order that Update or Cancel works on exists.
LEMMA PromoExists ==
    ASSUME IInv, NEW w \in Workers, pc[w] = "promo", call[w].op # "create"
    PROVE  PromoOf(w) \in Codes /\ promo[PromoOf(w)] # None /\ promo[PromoOf(w)].uses \in Nat
<1>1. WorkerInv(w) /\ TypeOK
  BY DEF IInv
<1>2. PromoOf(w) \in Codes
  BY <1>1, PromoOfType DEF WorkerInv, PromoLocked
<1>3. promo[PromoOf(w)] # None
  BY <1>1 DEF WorkerInv, Reaches, PromoLocked, PromoOf
<1> QED
  BY <1>1, <1>2, <1>3 DEF TypeOK, StoreType, PromoRow

\* WHERE current_uses > 0 keeps the count of uses a natural number.
LEMMA RefundType ==
    ASSUME NEW row, row.uses \in Nat
    PROVE  Refund(row) \in -1 .. 1 /\ row.uses + Refund(row) >= 0
  BY DEF Refund

\* Update keeps the code or gives its use back, under the lock of the row.
LEMMA GetPromoCodeForUpdateInv ==
    ASSUME IInv, NEW w \in Workers, GetPromoCodeForUpdate(w)
    PROVE  IInv'
<1> DEFINE k == PromoOf(w)
           fits == /\ promo[k].uses <= promo[k].max
                   /\ InWindow(promo[k])
                   /\ TotalReaches(w, promo[k])
           d == IF fits THEN 0 ELSE Refund(promo[k])
<1>1. /\ pc[w] = "promo" /\ call[w].op = "update"
      /\ pc' = [pc EXCEPT ![w] = "delete"] /\ call' = call
      /\ CanLock(w, k) /\ TakeLock(w, k)
      /\ tx' = [tx EXCEPT ![w] = [tx[w] EXCEPT !.uses = d, !.keep = fits]]
      /\ UNCHANGED <<now, tables, supplied>>
  BY DEF GetPromoCodeForUpdate, GoTo
<1>2. k \in Codes /\ promo[k] # None /\ promo[k].uses \in Nat
  BY <1>1, PromoExists
<1>3. d \in -1 .. 1 /\ promo[k].uses + d >= 0
  BY <1>2, RefundType
<1>4. fits \in BOOLEAN
  OBVIOUS
<1> HIDE DEF k, fits, d
<1>5. k = PromoOf(w)
  BY DEF k
<1> QED
  BY <1>1, <1>2, <1>3, <1>4, <1>5, PromoStep

\* Cancel gives the use back under the lock of the row.
LEMMA DecrementPromoUsesInv ==
    ASSUME IInv, NEW w \in Workers, DecrementPromoUses(w)
    PROVE  IInv'
<1> DEFINE k == PromoOf(w)
           d == Refund(promo[k])
<1>1. /\ pc[w] = "promo" /\ call[w].op = "cancel" /\ tx[w] \in Tx /\ tx \in [Workers -> Tx]
      /\ pc' = [pc EXCEPT ![w] = "write"] /\ call' = call
      /\ CanLock(w, k) /\ TakeLock(w, k)
      /\ tx' = [tx EXCEPT ![w].uses = d]
      /\ UNCHANGED <<now, tables, supplied>>
  BY DEF DecrementPromoUses, GoTo, IInv, TypeOK, OrdersType
<1>2. k \in Codes /\ promo[k] # None /\ promo[k].uses \in Nat
  BY <1>1, PromoExists
<1>3. d \in -1 .. 1 /\ promo[k].uses + d >= 0
  BY <1>2, RefundType
<1> HIDE DEF k, d
<1>4. tx[w].keep \in BOOLEAN
      /\ [tx[w] EXCEPT !.uses = d] = [tx[w] EXCEPT !.uses = d, !.keep = tx[w].keep]
  BY <1>1 DEF Tx
<1>5. tx' = [tx EXCEPT ![w] = [tx[w] EXCEPT !.uses = d, !.keep = tx[w].keep]]
  BY <1>1, <1>4
<1>6. k = PromoOf(w)
  BY DEF k
<1> QED
  BY <1>1, <1>2, <1>3, <1>4, <1>5, <1>6, PromoStep

-----------------------------------------------------------------------------
(* Commits. *)

\* What a request knows when it is ready to write and commit.
LEMMA WriteTypes ==
    ASSUME IInv, NEW w \in Workers, pc[w] = "write"
    PROVE  /\ TypeOK /\ WorkerInv(w) /\ tx[w] \in Tx /\ call[w] \in Call
           /\ call[w].op \in {"create", "update", "cancel"}
           /\ call[w].op # "create" => call[w].order \in OrderIds /\ orders[call[w].order] # None
           /\ PromoWritten(w) \in Codes \cup {None}
           /\ PromoWritten(w) # None => promo[PromoWritten(w)] # None
<1>1. TypeOK /\ WorkerInv(w) /\ tx[w] \in Tx /\ call[w] \in Call \cup {None}
  BY DEF IInv, TypeOK, OrdersType
<1>2. call[w] \in Call /\ call[w].op \in {"create", "update", "cancel"}
  BY <1>1 DEF WorkerInv, Reaches, Call, Ops
<1>3. call[w].op # "create" => call[w].order \in OrderIds /\ orders[call[w].order] # None
  BY <1>1, <1>2 DEF WorkerInv, Reaches, Call
<1>4. PromoOf(w) \in Codes \cup {None}
  BY <1>1, PromoOfType
<1>5. tx[w].keep => promo[PromoOf(w)] # None
  BY <1>1 DEF WorkerInv, PromoLocked
<1> QED
  BY <1>1, <1>2, <1>3, <1>4, <1>5 DEF PromoWritten

\* The rows an order gets name products that exist, at prices that were current.
LEMMA NewRowsType ==
    ASSUME IInv, NEW w \in Workers, NEW b \in Nat
    PROVE  /\ NewRows(w, b) \subseteq ItemRow
           /\ \A r \in NewRows(w, b) : /\ product[r.product] # None
                                       /\ product[r.product].status = "ACTIVE"
                                       /\ product[r.product].price = r.price
<1>1. TypeOK /\ Snapshot(w)
  BY DEF IInv, WorkerInv
<1> SUFFICES ASSUME NEW r \in NewRows(w, b)
             PROVE  /\ r \in ItemRow /\ product[r.product] # None
                    /\ product[r.product].status = "ACTIVE"
                    /\ product[r.product].price = r.price
    OBVIOUS
<1>2. PICK i \in 1 .. Len(tx[w].entries) :
        r = [batch |-> b, line |-> i, product |-> tx[w].entries[i].product,
             qty |-> tx[w].entries[i].qty, price |-> tx[w].entries[i].price]
  BY DEF NewRows
<1>3. i \in Nat
  BY <1>1, EntryTypes
<1>4. r \in ItemRow
  BY <1>1, <1>2, <1>3, EntryTypes DEF ItemRow
<1> QED
  BY <1>1, <1>2, <1>4 DEF Snapshot

\* A commit changes rows that the request has locked, and leaves them valid.
LEMMA Applied ==
    ASSUME IInv, NEW w \in Workers, pc[w] = "write", ApplyWrites(w)
    PROVE  /\ product' \in [Products -> ProductRow \cup {None}]
           /\ promo' \in [Codes -> PromoRow \cup {None}]
           /\ \A p \in Products : product[p] # None => product'[p] # None
           /\ \A c \in Codes : promo[c] # None => promo'[c] # None
           /\ \A v \in Workers \ {w} :
                  /\ \A p \in Products : lock[p] = v => product'[p] = product[p]
                  /\ \A c \in Codes : lock[c] = v => promo'[c] = promo[c]
<1>1. TypeOK /\ StockLocked(w) /\ PromoLocked(w) /\ tx[w] \in Tx
      /\ PromoOf(w) \in Codes \cup {None}
  BY WriteTypes, PromoOfType DEF WorkerInv
<1>2. tx[w].delta \in [Products -> Int] /\ tx[w].uses \in -1 .. 1
  BY <1>1 DEF Tx
<1>3. ASSUME NEW p \in Products
      PROVE  /\ product'[p] \in ProductRow \cup {None}
             /\ product[p] # None => product'[p] # None
             /\ lock[p] # w => product'[p] = product[p]
  <2>1. CASE tx[w].delta[p] = 0
    BY <1>1, <2>1 DEF ApplyWrites, TypeOK, StoreType
  <2>2. CASE tx[w].delta[p] # 0
    <3>1. /\ lock[p] = w /\ product[p] \in ProductRow
          /\ product[p].stock + tx[w].delta[p] >= 0
      BY <1>1, <2>2 DEF StockLocked, TypeOK, StoreType
    <3>2. product[p].stock + tx[w].delta[p] \in Nat
      BY <1>2, <3>1 DEF ProductRow
    <3>3. product'[p] = [product[p] EXCEPT !.stock = product[p].stock + tx[w].delta[p]]
      BY <2>2, <3>1 DEF ApplyWrites, ProductRow
    <3>4. product'[p] \in ProductRow
      BY <3>1, <3>2, <3>3 DEF ProductRow
    <3> QED
      BY <3>1, <3>4, StoreAssumption
  <2> QED
    BY <2>1, <2>2
<1>4. ASSUME NEW c \in Codes
      PROVE  /\ promo'[c] \in PromoRow \cup {None}
             /\ promo[c] # None => promo'[c] # None
             /\ lock[c] # w => promo'[c] = promo[c]
  <2>1. CASE ~(tx[w].uses # 0 /\ c = PromoOf(w))
    BY <1>1, <2>1 DEF ApplyWrites, TypeOK, StoreType
  <2>2. CASE tx[w].uses # 0 /\ c = PromoOf(w)
    <3>1. /\ lock[c] = w /\ promo[c] \in PromoRow /\ promo[c].uses + tx[w].uses >= 0
      BY <1>1, <2>2 DEF PromoLocked, TypeOK, StoreType
    <3>2. promo[c].uses + tx[w].uses \in Nat
      BY <1>2, <3>1 DEF PromoRow
    <3>3. promo'[c] = [promo[c] EXCEPT !.uses = promo[c].uses + tx[w].uses]
      BY <2>2, <3>1 DEF ApplyWrites, PromoRow
    <3>4. promo'[c] \in PromoRow
      BY <3>1, <3>2, <3>3 DEF PromoRow
    <3> QED
      BY <3>1, <3>4, StoreAssumption
  <2> QED
    BY <2>1, <2>2
<1>5. /\ product' = [p \in Products |-> product'[p]]
      /\ promo' = [c \in Codes |-> promo'[c]]
  BY DEF ApplyWrites
<1> QED
  BY <1>3, <1>4, <1>5

\* What remains to show of a commit: what it writes to the order and its rows.
LEMMA CommitStep ==
    ASSUME IInv, NEW w \in Workers, pc[w] = "write", ApplyWrites(w), UNCHANGED <<now, supplied>>,
           orders' \in [OrderIds -> OrderRow \cup {None}],
           items' \in [OrderIds -> SUBSET ItemRow],
           ops' \subseteq Operation,
           \A o \in OrderIds : orders[o] # None => orders'[o] # None,
           \A o \in OrderIds : \A r \in items'[o] : product[r.product] # None,
           \A o \in OrderIds : orders'[o] # None /\ orders'[o].promo # None =>
                                   promo[orders'[o].promo] # None
    PROVE  IInv'
<1>1. Return(w)
  BY DEF ApplyWrites
<1>2. TypeOK'
  BY <1>1, Returned, Applied DEF IInv, TypeOK, StoreType
<1>3. References'
  <2>1. \A r \in ItemRow : r.product \in Products
    BY DEF ItemRow
  <2>2. \A o \in OrderIds : orders'[o] # None => orders'[o].promo \in Codes \cup {None}
    BY DEF OrderRow
  <2> QED
    BY <2>1, <2>2, Applied DEF References, Placed
<1>4. \A v \in Workers \ {w} : Frame(v)
  BY <1>1, Returned, Applied DEF OnlyOf, Frame
<1> QED
  BY <1>1, <1>2, <1>3, <1>4, Returned, FrameInv DEF IInv

\* CreateUserOperation inserts a row that is not there yet.
LEMMA RecordAdds ==
    ASSUME IInv, NEW w \in Workers, NEW type, Record(w, type)
    PROVE  \E k \in Nat :
               /\ [user |-> call[w].caller, type |-> type, at |-> tx[w].began, key |-> k] \notin ops
               /\ ops' = ops \cup
                     {[user |-> call[w].caller, type |-> type, at |-> tx[w].began, key |-> k]}
<1> DEFINE same == {x \in ops : x.user = call[w].caller /\ x.type = type /\ x.at = tx[w].began}
           y(k) == [user |-> call[w].caller, type |-> type, at |-> tx[w].began, key |-> k]
<1>1. PICK k \in {0} \cup {x.key + 1 : x \in same} :
           (\A x \in same : x.key < k) /\ ops' = ops \cup {y(k)}
  BY DEF Record, NextKey
<1>2. \A x \in ops : x.key \in Nat
  BY DEF IInv, TypeOK, StoreType, Operation
<1>3. k \in Nat
  BY <1>1, <1>2
<1>4. y(k) \notin ops
  <2> SUFFICES ASSUME y(k) \in ops PROVE FALSE
    OBVIOUS
  <2>1. y(k) \in same /\ y(k).key = k
    OBVIOUS
  <2> QED
    BY <1>1, <1>3, <2>1
<1> QED
  BY <1>1, <1>3, <1>4

\* The operation that CreateUserOperation records.
LEMMA RecordType ==
    ASSUME IInv, NEW w \in Workers, pc[w] = "write", NEW type \in OperationType, Record(w, type)
    PROVE  ops' \subseteq Operation
<1>1. tx[w].began \in Nat /\ call[w].caller \in Accounts
  BY WriteTypes DEF Tx, Call
<1>2. PICK k \in Nat :
           ops' = ops \cup
               {[user |-> call[w].caller, type |-> type, at |-> tx[w].began, key |-> k]}
  BY RecordAdds
<1> QED
  BY <1>1, <1>2 DEF Operation, IInv, TypeOK, StoreType

\* Create commits an order whose rows and promo code exist.
LEMMA CommitCreateInv ==
    ASSUME IInv, NEW w \in Workers, CommitCreate(w)
    PROVE  IInv'
<1>1. PICK o \in OrderIds :
        /\ orders[o] = None
        /\ orders' = [orders EXCEPT ![o] =
               [user |-> call[w].caller, status |-> "CREATED", promo |-> PromoWritten(w),
                billed |-> NewRows(w, 1)]]
        /\ items' = [items EXCEPT ![o] = NewRows(w, 1)]
  BY DEF CommitCreate
<1>2. pc[w] = "write" /\ ApplyWrites(w) /\ UNCHANGED <<now, supplied>> /\ Record(w, "CREATE_ORDER")
  BY DEF CommitCreate
<1> DEFINE row == [user |-> call[w].caller, status |-> "CREATED", promo |-> PromoWritten(w),
                   billed |-> NewRows(w, 1)]
<1>3. row \in OrderRow
  BY <1>2, WriteTypes, NewRowsType DEF OrderRow, OrderStatus, Call
<1>4. row.promo = PromoWritten(w)
  OBVIOUS
<1> HIDE DEF row
<1>5. orders' = [orders EXCEPT ![o] = row]
  BY <1>1 DEF row
<1>6. ops' \subseteq Operation
  BY <1>2, RecordType DEF OperationType
<1>7. /\ orders' \in [OrderIds -> OrderRow \cup {None}]
      /\ items' \in [OrderIds -> SUBSET ItemRow]
  BY <1>1, <1>3, <1>5, NewRowsType DEF IInv, TypeOK, StoreType
<1>8. \A x \in OrderIds : orders[x] # None => orders'[x] # None
  BY <1>1, <1>5 DEF IInv, TypeOK, StoreType
<1>9. \A x \in OrderIds : \A r \in items'[x] : product[r.product] # None
  BY <1>1, NewRowsType DEF IInv, TypeOK, StoreType, References
<1>10. \A x \in OrderIds : orders'[x] # None /\ orders'[x].promo # None =>
                               promo[orders'[x].promo] # None
  BY <1>2, <1>4, <1>5, WriteTypes DEF IInv, TypeOK, StoreType, References, Placed
<1> QED
  BY <1>2, <1>6, <1>7, <1>8, <1>9, <1>10, CommitStep

\* Update commits the new rows, beside those its DELETE did not see.
LEMMA CommitUpdateInv ==
    ASSUME IInv, NEW w \in Workers, CommitUpdate(w)
    PROVE  IInv'
<1> DEFINE o == call[w].order
<1>1. PICK b \in NextBatch(o) :
        /\ orders' = [orders EXCEPT ![o].promo = PromoWritten(w), ![o].billed = NewRows(w, b)]
        /\ items' = [items EXCEPT ![o] = (@ \ tx[w].doomed) \cup NewRows(w, b)]
  BY DEF CommitUpdate
<1>2. /\ pc[w] = "write" /\ call[w].op = "update" /\ ApplyWrites(w)
      /\ UNCHANGED <<now, supplied>> /\ Record(w, "UPDATE_ORDER")
  BY DEF CommitUpdate
<1>3. TypeOK /\ o \in OrderIds /\ orders[o] # None /\ orders[o] \in OrderRow
  BY <1>2, WriteTypes DEF TypeOK, StoreType
<1>4. b \in Nat
  BY <1>3 DEF NextBatch, TypeOK, StoreType, ItemRow
<1> HIDE DEF o
<1> DEFINE row == [orders[o] EXCEPT !.promo = PromoWritten(w), !.billed = NewRows(w, b)]
<1>5. row \in OrderRow /\ row.promo = PromoWritten(w)
  BY <1>2, <1>3, <1>4, WriteTypes, NewRowsType DEF OrderRow
<1>6. row # None
  BY <1>5, StoreAssumption
<1>7. orders' = [orders EXCEPT ![o] = row]
  BY <1>1, <1>3 DEF TypeOK, StoreType
<1> HIDE DEF row
<1>8. ops' \subseteq Operation
  BY <1>2, RecordType DEF OperationType
<1>9. /\ orders' \in [OrderIds -> OrderRow \cup {None}]
      /\ items' \in [OrderIds -> SUBSET ItemRow]
  BY <1>1, <1>3, <1>4, <1>5, <1>7, NewRowsType DEF TypeOK, StoreType
<1>10. \A x \in OrderIds : orders[x] # None => orders'[x] # None
  BY <1>3, <1>6, <1>7 DEF TypeOK, StoreType
<1>11. \A x \in OrderIds : \A r \in items'[x] : product[r.product] # None
  BY <1>1, <1>3, <1>4, NewRowsType DEF IInv, TypeOK, StoreType, References
<1>12. \A x \in OrderIds : orders'[x] # None /\ orders'[x].promo # None =>
                               promo[orders'[x].promo] # None
  BY <1>2, <1>3, <1>5, <1>7, WriteTypes DEF IInv, TypeOK, StoreType, References, Placed
<1> QED
  BY <1>2, <1>8, <1>9, <1>10, <1>11, <1>12, CommitStep

\* Cancel commits the status and leaves the rows of the order.
LEMMA CommitCancelInv ==
    ASSUME IInv, NEW w \in Workers, CommitCancel(w)
    PROVE  IInv'
<1> DEFINE o == call[w].order
           row == [orders[o] EXCEPT !.status = "CANCELED"]
<1>1. /\ pc[w] = "write" /\ call[w].op = "cancel" /\ ApplyWrites(w)
      /\ UNCHANGED <<now, items, ops, supplied>> /\ orders' = [orders EXCEPT ![o].status = "CANCELED"]
  BY DEF CommitCancel
<1>2. TypeOK /\ o \in OrderIds /\ orders[o] # None /\ orders[o] \in OrderRow
  BY <1>1, WriteTypes DEF TypeOK, StoreType
<1> HIDE DEF o
<1>3. row \in OrderRow /\ row.promo = orders[o].promo
  BY <1>2 DEF OrderRow, OrderStatus
<1>4. row # None
  BY <1>3, StoreAssumption
<1>5. orders' = [orders EXCEPT ![o] = row]
  BY <1>1, <1>2 DEF TypeOK, StoreType
<1> HIDE DEF row
<1>6. /\ orders' \in [OrderIds -> OrderRow \cup {None}]
      /\ items' \in [OrderIds -> SUBSET ItemRow] /\ ops' \subseteq Operation
  BY <1>1, <1>2, <1>3, <1>5 DEF TypeOK, StoreType
<1>7. \A x \in OrderIds : orders[x] # None => orders'[x] # None
  BY <1>2, <1>4, <1>5 DEF TypeOK, StoreType
<1>8. \A x \in OrderIds : \A r \in items'[x] : product[r.product] # None
  BY <1>1 DEF IInv, References
<1>9. \A x \in OrderIds : orders'[x] # None /\ orders'[x].promo # None =>
                              promo[orders'[x].promo] # None
  BY <1>2, <1>3, <1>5 DEF IInv, TypeOK, StoreType, References, Placed
<1> QED
  BY <1>1, <1>6, <1>7, <1>8, <1>9, CommitStep

-----------------------------------------------------------------------------
(* Steps of the catalogue and of the clock. *)

\* No request is disturbed by a step that leaves requests and locks alone,
\* keeps the rows that are locked and removes none: the UPDATEs of
\* ProductService wait for the lock of the row.
LEMMA CatalogStep ==
    ASSUME IInv, UNCHANGED workerVars, UNCHANGED <<orders, items, ops, lock>>,
           now' \in Nat, supplied' \in [Products -> Int],
           product' \in [Products -> ProductRow \cup {None}],
           promo' \in [Codes -> PromoRow \cup {None}],
           \A p \in Products : product[p] # None => product'[p] # None,
           \A p \in Products : lock[p] # None /\ product[p] # None => product'[p] = product[p],
           \A c \in Codes : promo[c] # None => promo'[c] = promo[c]
    PROVE  IInv'
<1>1. TypeOK'
  BY DEF IInv, TypeOK, StoreType, OrdersType, workerVars
<1>2. References'
  <2>1. \A r \in ItemRow : r.product \in Products
    BY DEF ItemRow
  <2>2. \A o \in OrderIds : orders[o] # None => orders[o].promo \in Codes \cup {None}
    BY DEF IInv, TypeOK, StoreType, OrderRow
  <2> QED
    BY <2>1, <2>2 DEF IInv, TypeOK, StoreType, References, Placed
<1>3. \A v \in Workers : Frame(v)
  BY StoreAssumption DEF Frame, workerVars
<1> QED
  BY <1>1, <1>2, <1>3, FrameInv DEF IInv

\* A row of products that is added, or replaced while nobody has it locked
\* (CreateProduct, UpdateProduct, ArchiveProduct).
LEMMA ProductStep ==
    ASSUME IInv, UNCHANGED workerVars, UNCHANGED <<now, promo, orders, items, ops, lock>>,
           NEW p \in Products, NEW row \in ProductRow, lock[p] = None \/ product[p] = None,
           product' = [product EXCEPT ![p] = row], supplied' \in [Products -> Int]
    PROVE  IInv'
<1>1. TypeOK /\ row # None
  BY StoreAssumption DEF IInv
<1> QED
  BY <1>1, CatalogStep DEF TypeOK, StoreType

\* Sellers' operations leave requests in flight undisturbed.
LEMMA CatalogInv ==
    ASSUME IInv, CatalogNext, UNCHANGED workerVars
    PROVE  IInv'
<1>1. StoreType
  BY DEF IInv, TypeOK
<1>2. ASSUME NEW u \in Keepers, NEW p \in Products, NEW in \in ProductInputs,
             CreateProduct(u, p, in)
      PROVE  IInv'
  <2> DEFINE row == [seller |-> u, price |-> in.price, stock |-> in.stock, status |-> "ACTIVE"]
  <2>1. row \in ProductRow /\ in.stock \in Int
    BY CatalogAssumption DEF ProductRow, ProductStatus, Keepers
  <2>2. supplied' \in [Products -> Int]
    BY <1>1, <1>2, <2>1 DEF CreateProduct, StoreType
  <2> QED
    BY <1>2, <2>1, <2>2, ProductStep DEF CreateProduct
<1>3. ASSUME NEW u \in Keepers, NEW p \in Products, NEW in \in UpdateInputs,
             UpdateProduct(u, p, in)
      PROVE  IInv'
  <2> DEFINE row == [product[p] EXCEPT !.price = in.price, !.stock = in.stock,
                                       !.status = in.status]
  <2>1. product[p] \in ProductRow /\ product[p].stock \in Int
    BY <1>1, <1>3 DEF UpdateProduct, StoreType, ProductRow
  <2>2. row \in ProductRow /\ in.stock \in Int
    <3>1. in \in [price : Nat \ {0}, stock : Nat, status : ProductStatus]
      BY CatalogAssumption
    <3>2. in.price \in Nat \ {0} /\ in.stock \in Nat /\ in.status \in ProductStatus
      BY <3>1
    <3>3. in.stock \in Int
      BY <3>2
    <3> QED
      BY <2>1, <3>2, <3>3 DEF ProductRow
  <2>3. supplied' \in [Products -> Int]
    BY <1>1, <1>3, <2>1, <2>2 DEF UpdateProduct, StoreType
  <2>4. product' = [product EXCEPT ![p] = row]
    BY <1>1, <1>3 DEF UpdateProduct, StoreType
  <2> QED
    BY <1>3, <2>2, <2>3, <2>4, ProductStep DEF UpdateProduct
<1>4. ASSUME NEW u \in Keepers, NEW p \in Products, DeleteProduct(u, p)
      PROVE  IInv'
  <2> DEFINE row == [product[p] EXCEPT !.status = "ARCHIVED"]
  <2>1. row \in ProductRow
    BY <1>1, <1>4 DEF DeleteProduct, StoreType, ProductRow, ProductStatus
  <2>2. product' = [product EXCEPT ![p] = row] /\ supplied' \in [Products -> Int]
    BY <1>1, <1>4 DEF DeleteProduct, StoreType
  <2> QED
    BY <1>4, <2>1, <2>2, ProductStep DEF DeleteProduct
<1>5. ASSUME NEW c \in Codes, NEW in \in PromoInputs, CreatePromoCode(c, in)
      PROVE  IInv'
  <2> DEFINE row == [max |-> in.max, min |-> in.min, from |-> in.from, until |-> in.until,
                     uses |-> 0]
  <2>1. row \in PromoRow
    BY CatalogAssumption DEF PromoRow
  <2>2. promo' = [promo EXCEPT ![c] = row] /\ promo[c] = None
    BY <1>5 DEF CreatePromoCode
  <2>3. promo' \in [Codes -> PromoRow \cup {None}]
        /\ \A k \in Codes : promo[k] # None => promo'[k] = promo[k]
    BY <1>1, <2>1, <2>2 DEF StoreType
  <2> QED
    BY <1>1, <1>5, <2>3, CatalogStep DEF CreatePromoCode, StoreType
<1> QED
  BY <1>2, <1>3, <1>4, <1>5 DEF CatalogNext

\* Time passes; the properties proved here do not depend on it.
LEMMA TickInv ==
    ASSUME IInv, Tick, UNCHANGED workerVars
    PROVE  IInv'
<1>1. StoreType
  BY DEF IInv, TypeOK
<1>2. now' \in Nat
  BY <1>1 DEF Tick, StoreType
<1> QED
  BY <1>1, <1>2, CatalogStep DEF Tick, tables, StoreType

-----------------------------------------------------------------------------
\* A statement of a request, whichever it is, keeps the invariant.
LEMMA ServeInv ==
    ASSUME IInv, NEW w \in Workers, Serve(w)
    PROVE  IInv'
<1>1. CASE \/ GetOrderByID(w) \/ CheckRateLimit(w) \/ GetActiveOrder(w)
           \/ GetOrderItems(w) \/ DeleteOrderItems(w)
  BY <1>1, GetOrderByIDInv, CheckRateLimitInv, GetActiveOrderInv, GetOrderItemsInv,
     DeleteOrderItemsInv
<1>2. CASE AnswerGet(w) \/ Refuse(w)
  BY <1>2, ReturnStep DEF AnswerGet, Refuse
<1>3. CASE IncrementStock(w) \/ GetProductForUpdate(w) \/ DecrementStock(w)
  BY <1>3, IncrementStockInv, GetProductForUpdateInv, DecrementStockInv
<1>4. CASE \/ GetPromoCodeByCode(w) \/ IncrementPromoUses(w)
           \/ GetPromoCodeForUpdate(w) \/ DecrementPromoUses(w)
  BY <1>4, GetPromoCodeByCodeInv, IncrementPromoUsesInv, GetPromoCodeForUpdateInv,
     DecrementPromoUsesInv
<1>5. CASE CommitCreate(w) \/ CommitUpdate(w) \/ CommitCancel(w)
  BY <1>5, CommitCreateInv, CommitUpdateInv, CommitCancelInv
<1> QED
  BY <1>1, <1>2, <1>3, <1>4, <1>5 DEF Serve

\* The invariant is inductive.
LEMMA NextIInv == IInv /\ [Next]_vars => IInv'
<1> SUFFICES ASSUME IInv, [Next]_vars PROVE IInv'
    OBVIOUS
<1>1. CASE OrdersNext
  <2>1. PICK w \in Workers : StartAny(w) \/ Serve(w) \/ Abort(w) \/ DeadlockAbort(w)
    BY <1>1 DEF OrdersNext
  <2>2. CASE StartAny(w)
    BY <2>2, StartAnyInv
  <2>3. CASE Serve(w)
    BY <2>3, ServeInv
  <2>4. CASE Abort(w) \/ DeadlockAbort(w)
    BY <2>4, ReturnStep DEF Abort, DeadlockAbort
  <2> QED
    BY <2>1, <2>2, <2>3, <2>4
<1>2. CASE CatalogNext /\ UNCHANGED workerVars
  BY <1>2, CatalogInv
<1>3. CASE Tick /\ UNCHANGED workerVars
  BY <1>3, TickInv
<1>4. CASE UNCHANGED vars
  <2>1. UNCHANGED workerVars /\ UNCHANGED <<now, product, promo, orders, items, ops, lock, supplied>>
    BY <1>4 DEF vars, storeVars, tables
  <2>2. StoreType
    BY DEF IInv, TypeOK
  <2> QED
    BY <2>1, <2>2, CatalogStep DEF StoreType
<1> QED
  BY <1>1, <1>2, <1>3, <1>4 DEF Next

-----------------------------------------------------------------------------
(* The theorems. *)

\* At every statement of every request, the locks are held and the rows are as
\* the code that follows relies on.
THEOREM Invariant == Spec => []IInv
BY InitIInv, NextIInv, PTL DEF Spec

\* The tables keep the shape that migrations/000001_init.up.sql gives them, no
\* stock and no count of uses goes below zero, and what a request remembers
\* between two statements has the type the next one expects.
THEOREM TypeCorrect == Spec => []TypeOK
<1>1. IInv => TypeOK
  BY DEF IInv
<1> QED
  BY <1>1, Invariant, PTL

\* The comparison of Create and Update against the locked rows suffices for
\* distinct products: CHECK (stock >= 0) of products never refuses the UPDATE
\* of DecrementStock, whatever else runs.
THEOREM StockCheckIsEnough == Spec => []StockCheckSuffices
<1>1. IInv => StockCheckSuffices
  <2> SUFFICES ASSUME IInv, NEW w \in Workers,
                      pc[w] = "stock", ~Short(w), DistinctLines(call[w].lines)
               PROVE  StockCheck(w)
    BY DEF StockCheckSuffices
  <2> DEFINE i == tx[w].sold + 1
             e == tx[w].entries[i]
  <2>1. TypeOK /\ Progress(w) /\ StockAsRead(w)
    BY DEF IInv, WorkerInv
  <2>2. tx[w].sold \in Nat /\ Len(tx[w].entries) \in Nat /\ tx[w].sold < Len(tx[w].entries)
    BY <2>1 DEF TypeOK, OrdersType, Tx, Progress
  <2>3. i \in 1 .. Len(tx[w].entries) /\ i \in tx[w].sold + 1 .. Len(tx[w].entries)
    BY <2>2
  <2>4. e.stock \in Int /\ e.qty \in Nat
    BY <2>1, <2>3, EntryTypes
  <2>5. StockSeen(w, e.product) = e.stock
    BY <2>1, <2>3 DEF StockAsRead
  <2>6. ~(e.stock < e.qty)
    BY <2>3 DEF Short
  <2> QED
    BY <2>4, <2>5, <2>6 DEF StockCheck, CurrentSale
<1> QED
  BY <1>1, Invariant, PTL

\* The statements before COMMIT, the ends of a request without a commit, the
\* catalogue and the clock leave the rows of all orders as they are.
LEMMA ItemsKept ==
    ASSUME [Next]_vars, ~\E w \in Workers : CommitCreate(w) \/ CommitUpdate(w)
    PROVE  items' = items
<1> USE DEF storeVars, tables
<1>1. CASE OrdersNext
  <2>1. PICK w \in Workers : StartAny(w) \/ Serve(w) \/ Abort(w) \/ DeadlockAbort(w)
    BY <1>1 DEF OrdersNext
  <2>2. CASE StartAny(w)
    BY <2>2 DEF StartAny, StartCreate, StartUpdate, StartOther, Start
  <2>3. CASE Abort(w) \/ DeadlockAbort(w) \/ AnswerGet(w) \/ Refuse(w)
    BY <2>3 DEF Abort, DeadlockAbort, AnswerGet, Refuse
  <2>4. CASE \/ GetOrderByID(w) \/ CheckRateLimit(w) \/ GetActiveOrder(w)
             \/ GetOrderItems(w) \/ IncrementStock(w) \/ GetProductForUpdate(w)
             \/ DecrementStock(w) \/ DeleteOrderItems(w)
    BY <2>4 DEF GetOrderByID, CheckRateLimit, GetActiveOrder, GetOrderItems, IncrementStock,
                GetProductForUpdate, DecrementStock, DeleteOrderItems
  <2>5. CASE \/ GetPromoCodeByCode(w) \/ IncrementPromoUses(w)
             \/ GetPromoCodeForUpdate(w) \/ DecrementPromoUses(w) \/ CommitCancel(w)
    BY <2>5 DEF GetPromoCodeByCode, IncrementPromoUses, GetPromoCodeForUpdate,
                DecrementPromoUses, CommitCancel
  <2> QED
    BY <2>1, <2>2, <2>3, <2>4, <2>5 DEF Serve
<1>2. CASE CatalogNext
  BY <1>2 DEF CatalogNext, CreateProduct, UpdateProduct, DeleteProduct, CreatePromoCode
<1>3. CASE Tick \/ UNCHANGED vars
  BY <1>3 DEF Tick, vars
<1> QED
  BY <1>1, <1>2, <1>3 DEF Next

\* A unit is only sold while its product is on sale, and at the price the
\* product has when the order is written: GetProductByIDForUpdate keeps the
\* row from ProductService until Create or Update commits.
THEOREM OnSale == Spec => SoldAsListed
<1> DEFINE Listed(r) == /\ product[r.product] # None
                        /\ product[r.product].status = "ACTIVE"
                        /\ product[r.product].price = r.price
           Sold == \A o \in OrderIds : \A r \in items'[o] \ items[o] : Listed(r)
<1>1. ASSUME IInv, NEW w \in Workers, CommitCreate(w) PROVE Sold
  <2>1. PICK o \in OrderIds : items' = [items EXCEPT ![o] = NewRows(w, 1)]
    BY <1>1 DEF CommitCreate
  <2>2. \A x \in OrderIds : items'[x] \ items[x] \subseteq NewRows(w, 1)
    BY <1>1, <2>1 DEF IInv, TypeOK, StoreType
  <2> QED
    BY <1>1, <2>2, NewRowsType
<1>2. ASSUME IInv, NEW w \in Workers, CommitUpdate(w) PROVE Sold
  <2> DEFINE o == call[w].order
  <2>1. PICK b \in NextBatch(o) :
          items' = [items EXCEPT ![o] = (@ \ tx[w].doomed) \cup NewRows(w, b)]
    BY <1>2 DEF CommitUpdate
  <2>2. pc[w] = "write" /\ call[w].op = "update"
    BY <1>2 DEF CommitUpdate
  <2>3. TypeOK /\ o \in OrderIds
    BY <1>2, <2>2, WriteTypes
  <2>4. b \in Nat
    BY <2>3 DEF NextBatch, TypeOK, StoreType, ItemRow
  <2>5. \A x \in OrderIds : items'[x] \ items[x] \subseteq NewRows(w, b)
    BY <2>1, <2>3 DEF TypeOK, StoreType
  <2> QED
    BY <1>2, <2>4, <2>5, NewRowsType
<1>3. IInv /\ [Next]_vars => Sold
  BY <1>1, <1>2, ItemsKept
<1>4. IInv /\ [Next]_vars => [Sold]_vars
  BY <1>3
<1> QED
  BY <1>4, Invariant, PTL DEF Spec, SoldAsListed
=============================================================================
