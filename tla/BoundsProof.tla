----------------------------- MODULE BoundsProof ------------------------------
(***************************************************************************)
(* Proofs, for all values of the constants and whatever clients send, of   *)
(* how far a code can be overdrawn, how many active orders a user can have *)
(* and how many operations a user can record in a span of RateLimit ticks. *)
(* Each check that a commit of somebody else can outdate is passed while   *)
(* the table is below its limit; CountInv and RateInv count the requests   *)
(* that have passed it together with those whose commit the table has.     *)
(***************************************************************************)
EXTENDS MarketplaceProof, SetLemmas

-----------------------------------------------------------------------------
(* Sets of workers. *)

\* Some workers are no more than all of them.
LEMMA WorkerSet ==
    ASSUME NEW S, S \subseteq Workers
    PROVE  IsFiniteSet(S) /\ Cardinality(S) \in Nat /\ Cardinality(S) <= Cardinality(Workers)
           /\ Cardinality(Workers) \in Nat
BY StoreAssumption, FS_Subset, FS_CardinalityType

\* Nobody claims a code that does not exist.
LEMMA NoClaimants ==
    ASSUME IInv, CountInv, NEW c \in Codes, promo[c] = None
    PROVE  Claimants(c) = {}
<1> SUFFICES ASSUME NEW w \in Workers, Claims(w, c) PROVE FALSE
    BY DEF Claimants
<1>1. PromoLocked(w) /\ PromoOf(w) = c
  BY DEF IInv, WorkerInv, Claims, PromoOf
<1>2. call[w].code = c /\ (pc[w] = "claim" \/ tx[w].uses = 1)
  BY DEF Claims
<1> QED
  BY <1>1, <1>2 DEF PromoLocked

\* The empty tables.
LEMMA InitCount == Init => CountInv
<1> SUFFICES ASSUME Init PROVE CountInv
    OBVIOUS
<1> USE DEF Init, StoreInit, OrdersInit
<1>1. \A w \in Workers : CreatesCount(w)
  BY DEF CreatesCount, NoTx
<1>2. \A c \in Codes : UsesBelow(c)
  BY DEF UsesBelow
<1>3. ASSUME NEW u \in Accounts PROVE OrdersBelow(u)
  <2>1. ActiveOrders(u) = {} /\ Creators(u) = {}
    BY DEF ActiveOrders, Creators, Creates, InTransaction
  <2> QED
    BY <2>1, FS_EmptySet, WorkerSet DEF OrdersBelow
<1> QED
  BY <1>1, <1>2, <1>3 DEF CountInv

-----------------------------------------------------------------------------
(* Steps before the commit, and ends without one. *)

\* A request that joins the claimants of a code has found a use left; one that
\* joins the creators has found no active order.
Joins(w) ==
    /\ CreatesCount(w)'
    /\ \A c \in Codes : Claims(w, c)' =>
           Claims(w, c) \/ (promo[c] # None /\ promo[c].uses < promo[c].max)
    /\ \A u \in Accounts : Creates(w, u)' => Creates(w, u) \/ ActiveOrders(u) = {}

\* Such a step keeps what is counted within the limits.
LEMMA QuietStep ==
    ASSUME IInv, CountInv, NEW w \in Workers, OnlyOf(w), UNCHANGED <<promo, orders>>, Joins(w)
    PROVE  CountInv'
<1>1. \A v \in Workers : CreatesCount(v)'
  BY DEF CountInv, CreatesCount, OnlyOf, Joins
<1>2. ASSUME NEW c \in Codes PROVE UsesBelow(c)'
  <2> SUFFICES ASSUME promo[c] # None
               PROVE  promo[c].uses + Cardinality(Claimants(c)') <= promo[c].max + Cardinality(Workers) - 1
    BY DEF UsesBelow
  <2>1. promo[c].uses \in Nat /\ promo[c].max \in Nat
    BY DEF IInv, TypeOK, StoreType, PromoRow
  <2>2. Claimants(c) \subseteq Workers /\ Claimants(c)' \subseteq Workers
    BY DEF Claimants
  <2>3. CASE promo[c].uses < promo[c].max
    BY <2>1, <2>2, <2>3, WorkerSet
  <2>4. CASE ~(promo[c].uses < promo[c].max)
    <3>1. \A v \in Claimants(c)' : v \in Claimants(c)
      BY <2>4 DEF Claimants, Claims, OnlyOf, Joins
    <3>2. promo[c].uses + Cardinality(Claimants(c)) <= promo[c].max + Cardinality(Workers) - 1
      BY DEF CountInv, UsesBelow
    <3> HIDE DEF Claimants
    <3> QED
      BY <2>1, <2>2, <3>1, <3>2, WorkerSet, NoMore
  <2> QED
    BY <2>3, <2>4
<1>3. ASSUME NEW u \in Accounts PROVE OrdersBelow(u)'
  <2>1. ActiveOrders(u)' = ActiveOrders(u)
    BY DEF ActiveOrders
  <2>2. Creators(u) \subseteq Workers /\ Creators(u)' \subseteq Workers
    BY DEF Creators
  <2>3. OrdersBelow(u)
    BY DEF CountInv
  <2>4. CASE ActiveOrders(u) = {}
    BY <2>1, <2>2, <2>4, WorkerSet, FS_EmptySet DEF OrdersBelow
  <2>5. CASE ActiveOrders(u) # {}
    <3>1. \A v \in Creators(u)' : v \in Creators(u)
      BY <2>5 DEF Creators, Creates, OnlyOf, Joins
    <3> QED
      BY <2>1, <2>2, <2>3, <3>1, WorkerSet, NoMore, FS_CardinalityType DEF OrdersBelow
  <2> QED
    BY <2>4, <2>5
<1> QED
  BY <1>1, <1>2, <1>3 DEF CountInv

\* A statement that leaves the request as it is joins nothing, unless it leads
\* to the statement that counts a use, or into a transaction of Create.
LEMMA Stays ==
    ASSUME CountInv, NEW w \in Workers, call'[w] = call[w], tx'[w].uses = tx[w].uses,
           pc'[w] # "claim",
           pc'[w] \in InTransaction /\ call[w].op = "create" => pc[w] \in InTransaction
    PROVE  Joins(w)
BY DEF Joins, CountInv, CreatesCount, Claims, Creates

\* A request arrives.
LEMMA StartCount ==
    ASSUME IInv, CountInv, NEW w \in Workers, StartAny(w)
    PROVE  CountInv'
<1>1. PICK c \in Call, label \in {"limit", "order"} : Start(w, c, label)
  BY Started
<1>2. OnlyOf(w) /\ pc'[w] = label /\ call'[w] = c /\ tx'[w] = NoTx /\ UNCHANGED <<promo, orders>>
  BY <1>1 DEF Start, OnlyOf, IInv, WorkerInv, IdleClean, TypeOK, OrdersType, storeVars, tables
<1>3. NoTx.uses = 0
  BY DEF NoTx
<1>4. Joins(w)
  BY <1>2, <1>3 DEF Joins, CreatesCount, Claims, Creates, InTransaction
<1> QED
  BY <1>2, <1>4, QuietStep

\* A request ends without a commit.
LEMMA ReturnCount ==
    ASSUME IInv, CountInv, NEW w \in Workers, Return(w), UNCHANGED <<promo, orders>>
    PROVE  CountInv'
<1>1. OnlyOf(w) /\ pc'[w] = "idle" /\ call'[w] = None /\ tx'[w] = NoTx
  BY DEF Return, OnlyOf, IInv, TypeOK, OrdersType
<1>2. NoTx.uses = 0
  BY DEF NoTx
<1>3. Joins(w)
  BY <1>1, <1>2 DEF Joins, CreatesCount, Claims, Creates, InTransaction
<1> QED
  BY <1>1, <1>3, QuietStep

\* The reads outside the transaction, and GetActiveOrderByUserID.
LEMMA ReadCount ==
    ASSUME IInv, CountInv, NEW w \in Workers,
           GetOrderByID(w) \/ CheckRateLimit(w) \/ GetActiveOrder(w)
    PROVE  CountInv'
<1>1. OnlyOf(w) /\ call'[w] = call[w] /\ UNCHANGED <<promo, orders>>
  BY DEF GetOrderByID, CheckRateLimit, GetActiveOrder, GoTo, OnlyOf, IInv, TypeOK, OrdersType,
         storeVars, tables
<1>2. tx'[w].uses = tx[w].uses
  BY DEF GetOrderByID, CheckRateLimit, GetActiveOrder, IInv, TypeOK, OrdersType, Tx
<1>3. CASE GetOrderByID(w) \/ CheckRateLimit(w)
  <2>1. pc'[w] \in {"limit", "items", "active"}
    BY <1>3 DEF GetOrderByID, CheckRateLimit, GoTo, IInv, TypeOK, OrdersType
  <2>2. Joins(w)
    BY <1>1, <1>2, <2>1, Stays DEF InTransaction
  <2> QED
    BY <1>1, <2>2, QuietStep
<1>4. CASE GetActiveOrder(w)
  <2>1. pc'[w] = "lines" /\ ActiveOrders(call[w].caller) = {}
    BY <1>4 DEF GetActiveOrder, GoTo, IInv, TypeOK, OrdersType
  <2>2. Joins(w)
    BY <1>1, <1>2, <2>1 DEF Joins, CountInv, CreatesCount, Claims, Creates
  <2> QED
    BY <1>1, <2>2, QuietStep
<1> QED
  BY <1>3, <1>4

\* The rows of the old order and the lines of the body.
LEMMA StockCount ==
    ASSUME IInv, CountInv, NEW w \in Workers,
           \/ GetOrderItems(w) \/ IncrementStock(w)
           \/ GetProductForUpdate(w) \/ DecrementStock(w)
    PROVE  CountInv'
<1> USE DEF IInv, TypeOK, OrdersType
<1>1. OnlyOf(w) /\ call'[w] = call[w] /\ UNCHANGED <<promo, orders>>
  BY DEF GetOrderItems, IncrementStock, GetProductForUpdate, DecrementStock, GoTo, RestoreNext,
         OnlyOf, storeVars, tables
<1>2. tx[w] \in Tx
  OBVIOUS
<1>3. tx'[w].uses = tx[w].uses
  <2>1. CASE GetOrderItems(w)
    <3>1. PICK r \in items[call[w].order] \cup {None} :
            tx' = [tx EXCEPT ![w].began = now, ![w].next = r,
                             ![w].todo = items[call[w].order] \ {r}]
      BY <2>1 DEF GetOrderItems
    <3> QED
      BY <1>2, <3>1 DEF Tx
  <2>2. CASE IncrementStock(w)
    <3>1. PICK r \in tx[w].todo \cup {None} :
            tx' = [tx EXCEPT ![w].delta[tx[w].next.product] = @ + tx[w].next.qty,
                             ![w].next = r, ![w].todo = @ \ {r}]
      BY <2>2 DEF IncrementStock
    <3> QED
      BY <1>2, <3>1 DEF Tx
  <2>3. CASE GetProductForUpdate(w) \/ DecrementStock(w)
    BY <1>2, <2>3 DEF GetProductForUpdate, DecrementStock, Tx
  <2> QED
    BY <2>1, <2>2, <2>3
<1>4. pc'[w] # "claim"
  <2>1. CASE GetOrderItems(w) \/ IncrementStock(w)
    BY <2>1 DEF GetOrderItems, IncrementStock, GoTo, RestoreNext, AfterRestore
  <2>2. CASE GetProductForUpdate(w) \/ DecrementStock(w)
    BY <2>2 DEF GetProductForUpdate, DecrementStock, GoTo, AfterStock
  <2> QED
    BY <2>1, <2>2
<1>5. pc[w] \in InTransaction \/ call[w].op # "create"
  <2>1. CASE GetOrderItems(w)
    BY <2>1 DEF GetOrderItems, WorkerInv, Reaches
  <2>2. CASE IncrementStock(w) \/ GetProductForUpdate(w) \/ DecrementStock(w)
    BY <2>2 DEF IncrementStock, GetProductForUpdate, ReadsProduct, DecrementStock, InTransaction
  <2> QED
    BY <2>1, <2>2
<1>6. Joins(w)
  BY <1>1, <1>3, <1>4, <1>5, Stays
<1> QED
  BY <1>1, <1>6, QuietStep

\* The promo code and the old rows.
LEMMA PromoCount ==
    ASSUME IInv, CountInv, NEW w \in Workers,
           \/ GetPromoCodeByCode(w) \/ IncrementPromoUses(w)
           \/ GetPromoCodeForUpdate(w) \/ DecrementPromoUses(w) \/ DeleteOrderItems(w)
    PROVE  CountInv'
<1> USE DEF IInv, TypeOK, OrdersType
<1>1. OnlyOf(w) /\ call'[w] = call[w] /\ UNCHANGED <<promo, orders>>
  BY DEF GetPromoCodeByCode, IncrementPromoUses, GetPromoCodeForUpdate, DecrementPromoUses,
         DeleteOrderItems, GoTo, OnlyOf, storeVars, tables
<1>2. tx[w] \in Tx /\ pc[w] \in InTransaction
  BY DEF GetPromoCodeByCode, IncrementPromoUses, GetPromoCodeForUpdate, DecrementPromoUses,
         DeleteOrderItems, InTransaction
<1>3. CASE GetPromoCodeByCode(w)
  <2>1. pc'[w] = "claim" /\ call[w].op = "create" /\ tx' = tx
        /\ promo[call[w].code] # None /\ promo[call[w].code].uses < promo[call[w].code].max
    BY <1>3 DEF GetPromoCodeByCode, GoTo, PromoFits
  <2> QED
    BY <1>1, <1>2, <2>1, QuietStep DEF Joins, CountInv, CreatesCount, Claims, Creates
<1>4. CASE IncrementPromoUses(w)
  <2>1. pc[w] = "claim" /\ pc'[w] = "write" /\ call[w] # None /\ call[w].op = "create"
    BY <1>4 DEF IncrementPromoUses, GoTo, WorkerInv, Reaches
  <2> QED
    BY <1>1, <1>2, <2>1, QuietStep DEF Joins, CreatesCount, Claims, Creates
<1>5. CASE GetPromoCodeForUpdate(w) \/ DecrementPromoUses(w)
  <2>1. call[w].op # "create"
    BY <1>5 DEF GetPromoCodeForUpdate, DecrementPromoUses
  <2>2. tx'[w].uses # 1
    BY <1>2, <1>5 DEF GetPromoCodeForUpdate, DecrementPromoUses, Refund, Tx
  <2> QED
    BY <1>1, <2>1, <2>2, QuietStep DEF Joins, CreatesCount, Claims, Creates
<1>6. CASE DeleteOrderItems(w)
  <2>1. pc'[w] = "write" /\ tx'[w].uses = tx[w].uses
    BY <1>2, <1>6 DEF DeleteOrderItems, GoTo, Tx
  <2> QED
    BY <1>1, <1>2, <2>1, Stays, QuietStep
<1> QED
  BY <1>3, <1>4, <1>5, <1>6

-----------------------------------------------------------------------------
(* Commits. *)

\* A commit moves the use it counts from the claimants to the row.
LEMMA ApplyUses ==
    ASSUME IInv, CountInv, NEW w \in Workers, pc[w] = "write", ApplyWrites(w)
    PROVE  (\A v \in Workers : CreatesCount(v)') /\ (\A c \in Codes : UsesBelow(c)')
<1>1. OnlyOf(w) /\ pc'[w] = "idle" /\ call'[w] = None /\ tx'[w] = NoTx /\ NoTx.uses = 0
  BY DEF ApplyWrites, Return, OnlyOf, IInv, TypeOK, OrdersType, NoTx
<1>2. \A v \in Workers : CreatesCount(v)'
  BY <1>1 DEF CountInv, CreatesCount, OnlyOf
<1>3. ASSUME NEW c \in Codes PROVE UsesBelow(c)'
  <2>1. Claimants(c) \subseteq Workers /\ ~Claims(w, c)'
    BY <1>1 DEF Claimants, Claims
  <2>2. \A v \in Claimants(c)' : v \in Claimants(c) /\ v # w
    BY <1>1, <2>1 DEF Claimants, Claims, OnlyOf
  <2>3. promo[c] \in PromoRow \cup {None} /\ tx[w].uses \in {-1, 0, 1}
    BY DEF IInv, TypeOK, StoreType, OrdersType, Tx
  <2>4. promo'[c] = IF tx[w].uses # 0 /\ c = PromoOf(w)
                    THEN [promo[c] EXCEPT !.uses = @ + tx[w].uses] ELSE promo[c]
    BY DEF ApplyWrites
  <2>5. UsesBelow(c)
    BY DEF CountInv
  <2>6. CASE ~(tx[w].uses # 0 /\ c = PromoOf(w))
    BY <2>1, <2>2, <2>3, <2>4, <2>5, <2>6, WorkerSet, NoMore DEF UsesBelow, PromoRow
  <2>7. CASE tx[w].uses # 0 /\ c = PromoOf(w)
    <3>1. promo[c] # None
      BY <2>7 DEF IInv, WorkerInv, PromoLocked
    <3>2. promo[c] \in PromoRow /\ promo'[c].uses = promo[c].uses + tx[w].uses
          /\ promo'[c].max = promo[c].max /\ promo[c].uses \in Nat /\ promo[c].max \in Nat
      BY <2>3, <2>4, <2>7, <3>1 DEF PromoRow
    <3>3. CASE tx[w].uses = 1
      <4>1. w \in Claimants(c)
        BY <2>7, <3>3 DEF Claimants, Claims, CountInv, CreatesCount, PromoOf
      <4> QED
        BY <2>1, <2>2, <2>5, <3>1, <3>2, <3>3, <4>1, WorkerSet, OneLess DEF UsesBelow
    <3>4. CASE tx[w].uses = -1
      BY <2>1, <2>2, <2>5, <3>1, <3>2, <3>4, WorkerSet, NoMore DEF UsesBelow
    <3> QED
      BY <2>3, <2>7, <3>3, <3>4
  <2> QED
    BY <2>6, <2>7
<1> QED
  BY <1>2, <1>3

\* The rows that another request may still make.
LEMMA CreatorsLess ==
    ASSUME IInv, NEW w \in Workers, Return(w), NEW u
    PROVE  \A v \in Creators(u)' : v \in Creators(u) /\ v # w
BY DEF Return, IInv, TypeOK, OrdersType, Creators, Creates, InTransaction

\* Create moves the order it makes from the creators to the table.
LEMMA CommitCreateCount ==
    ASSUME IInv, CountInv, NEW w \in Workers, CommitCreate(w)
    PROVE  CountInv'
<1>1. pc[w] = "write" /\ call[w].op = "create" /\ ApplyWrites(w) /\ Return(w)
  BY DEF CommitCreate, ApplyWrites
<1>2. PICK o \in OrderIds :
        /\ orders[o] = None
        /\ orders' = [orders EXCEPT ![o] =
               [user |-> call[w].caller, status |-> "CREATED", promo |-> PromoWritten(w),
                billed |-> NewRows(w, 1)]]
  BY DEF CommitCreate
<1>3. orders'[o].user = call[w].caller /\ \A x \in OrderIds : x # o => orders'[x] = orders[x]
  BY <1>2 DEF IInv, TypeOK, StoreType
<1>4. ASSUME NEW u \in Accounts PROVE OrdersBelow(u)'
  <2>1. OrdersBelow(u) /\ Creators(u) \subseteq Workers
    BY DEF CountInv, Creators
  <2>2. \A v \in Creators(u)' : v \in Creators(u) /\ v # w
    BY <1>1, CreatorsLess
  <2>3. CASE u = call[w].caller
    <3>1. Grows(ActiveOrders(u), ActiveOrders(u)', o)
      BY <1>3 DEF Grows, ActiveOrders
    <3>2. w \in Creators(u)
      BY <1>1, <2>3 DEF Creators, Creates, InTransaction
    <3> QED
      BY <2>1, <2>2, <3>1, <3>2, WorkerSet, OneMore, OneLess DEF OrdersBelow
  <2>4. CASE u # call[w].caller
    <3>1. \A x \in ActiveOrders(u)' : x \in ActiveOrders(u)
      BY <1>3, <2>4 DEF ActiveOrders
    <3> QED
      BY <2>1, <2>2, <3>1, WorkerSet, NoMore DEF OrdersBelow
  <2> QED
    BY <2>3, <2>4
<1> QED
  BY <1>1, <1>4, ApplyUses DEF CountInv

\* Update and Cancel make no order active.
LEMMA CommitOtherCount ==
    ASSUME IInv, CountInv, NEW w \in Workers, CommitUpdate(w) \/ CommitCancel(w)
    PROVE  CountInv'
<1>1. pc[w] = "write" /\ ApplyWrites(w) /\ Return(w)
  BY DEF CommitUpdate, CommitCancel, ApplyWrites
<1> DEFINE o == call[w].order
<1>2. o \in OrderIds /\ orders[o] # None /\ orders[o] \in OrderRow
  BY <1>1, WriteTypes DEF CommitUpdate, CommitCancel, IInv, TypeOK, StoreType, WorkerInv, Reaches
<1>3. /\ orders'[o].user = orders[o].user /\ orders'[o].status \in {orders[o].status, "CANCELED"}
      /\ \A x \in OrderIds : x # o => orders'[x] = orders[x]
  <2>1. CASE CommitUpdate(w)
    BY <1>2, <2>1 DEF CommitUpdate, IInv, TypeOK, StoreType, OrderRow
  <2>2. CASE CommitCancel(w)
    BY <1>2, <2>2 DEF CommitCancel, IInv, TypeOK, StoreType, OrderRow
  <2> QED
    BY <2>1, <2>2
<1>4. ASSUME NEW u \in Accounts PROVE OrdersBelow(u)'
  <2>1. OrdersBelow(u) /\ Creators(u) \subseteq Workers
    BY DEF CountInv, Creators
  <2>2. \A v \in Creators(u)' : v \in Creators(u) /\ v # w
    BY <1>1, CreatorsLess
  <2>3. \A x \in ActiveOrders(u)' : x \in ActiveOrders(u)
    BY <1>2, <1>3 DEF ActiveOrders
  <2> QED
    BY <2>1, <2>2, <2>3, WorkerSet, NoMore DEF OrdersBelow
<1> QED
  BY <1>1, <1>4, ApplyUses DEF CountInv

-----------------------------------------------------------------------------
(* The catalogue, and the whole. *)

\* A step that leaves all requests and orders alone, and promo codes too, but
\* for one that appears.
LEMMA OutsideCount ==
    ASSUME IInv, CountInv, UNCHANGED workerVars, UNCHANGED orders,
           \A c \in Codes :
               \/ promo'[c] = promo[c]
               \/ promo[c] = None /\ promo'[c].uses = 0 /\ promo'[c].max \in Nat \ {0}
    PROVE  CountInv'
<1>1. \A v \in Workers : CreatesCount(v)'
  BY DEF CountInv, CreatesCount, workerVars
<1>2. ASSUME NEW c \in Codes PROVE UsesBelow(c)'
  <2>1. Claimants(c)' = Claimants(c)
    BY DEF Claimants, Claims, workerVars
  <2>2. CASE promo'[c] = promo[c]
    BY <2>1, <2>2 DEF CountInv, UsesBelow
  <2>3. CASE promo[c] = None /\ promo'[c].uses = 0 /\ promo'[c].max \in Nat \ {0}
    <3>1. Claimants(c) = {}
      BY <2>3, NoClaimants
    <3> QED
      BY <2>1, <2>3, <3>1, FS_EmptySet, WorkerSet DEF UsesBelow
  <2> QED
    BY <2>2, <2>3
<1>3. \A u \in Accounts : OrdersBelow(u)'
  BY DEF CountInv, OrdersBelow, ActiveOrders, Creators, Creates, workerVars
<1> QED
  BY <1>1, <1>2, <1>3 DEF CountInv

\* The invariant is inductive.
LEMMA NextCount == IInv /\ CountInv /\ [Next]_vars => CountInv'
<1> SUFFICES ASSUME IInv, CountInv, [Next]_vars PROVE CountInv'
    OBVIOUS
<1>1. CASE OrdersNext
  <2>1. PICK w \in Workers : StartAny(w) \/ Serve(w) \/ Abort(w) \/ DeadlockAbort(w)
    BY <1>1 DEF OrdersNext
  <2>2. CASE Abort(w) \/ DeadlockAbort(w) \/ AnswerGet(w) \/ Refuse(w)
    BY <2>2, ReturnCount DEF Abort, DeadlockAbort, AnswerGet, Refuse, tables
  <2> QED
    BY <2>1, <2>2, StartCount, ReadCount, StockCount, PromoCount, CommitCreateCount,
       CommitOtherCount DEF Serve
<1>2. CASE CatalogNext /\ UNCHANGED workerVars
  <2>1. orders' = orders
    BY <1>2 DEF CatalogNext, CreateProduct, UpdateProduct, DeleteProduct, CreatePromoCode
  <2>2. CASE promo' = promo
    BY <1>2, <2>1, <2>2, OutsideCount
  <2>3. CASE \E c \in Codes, in \in PromoInputs : CreatePromoCode(c, in)
    <3>1. PICK c \in Codes, in \in PromoInputs : CreatePromoCode(c, in)
      BY <2>3
    <3>2. in.max \in Nat \ {0}
      BY CatalogAssumption
    <3> QED
      BY <1>2, <2>1, <3>1, <3>2, OutsideCount DEF CreatePromoCode, IInv, TypeOK, StoreType
  <2> QED
    BY <1>2, <2>2, <2>3 DEF CatalogNext, CreateProduct, UpdateProduct, DeleteProduct
<1>3. CASE (Tick /\ UNCHANGED workerVars) \/ UNCHANGED vars
  BY <1>3, OutsideCount DEF Tick, vars, storeVars, tables
<1> QED
  BY <1>1, <1>2, <1>3 DEF Next

\* What has passed a check, with what is committed, stays within the limits.
THEOREM CountInvariant == Spec => []CountInv
BY InitCount, NextCount, Invariant, PTL DEF Spec

\* OverdraftBound: whatever clients send at whatever time, a promo code is used
\* at most as often as max_uses allows and by the other requests in flight
\* (GetPromoCodeByCode in Create reads the row without a lock).
THEOREM OverdraftBounded == Spec => []OverdraftBound
<1>1. IInv /\ CountInv => OverdraftBound
  <2> SUFFICES ASSUME IInv, CountInv, NEW c \in Codes, promo[c] # None
               PROVE  promo[c].uses <= promo[c].max + Cardinality(Workers) - 1
    BY DEF OverdraftBound
  <2>1. UsesBelow(c) /\ Claimants(c) \subseteq Workers
    BY DEF CountInv, Claimants
  <2>2. promo[c].uses \in Nat /\ promo[c].max \in Nat
    BY DEF IInv, TypeOK, StoreType, PromoRow
  <2> QED
    BY <2>1, <2>2, WorkerSet DEF UsesBelow
<1> QED
  BY <1>1, Invariant, CountInvariant, PTL

\* ActiveBound: whatever clients send at whatever time, a user has at most as
\* many active orders as requests fit in flight (GetActiveOrderByUserID in
\* Create reads outside any lock).
THEOREM ActiveOrdersBounded == Spec => []ActiveBound
<1>1. CountInv => ActiveBound
  <2> SUFFICES ASSUME CountInv, NEW u \in Accounts
               PROVE  Cardinality(ActiveOrders(u)) <= Cardinality(Workers)
    BY DEF ActiveBound
  <2>1. OrdersBelow(u) /\ Creators(u) \subseteq Workers
    BY DEF CountInv, Creators
  <2> QED
    BY <2>1, WorkerSet, FS_CardinalityType DEF OrdersBelow
<1> QED
  BY <1>1, CountInvariant, PTL

-----------------------------------------------------------------------------
(* The rate limit. *)

\* A request that joins those that may record in a span finds it empty.
JoinsSpan(w) ==
    \A u \in Accounts, type \in OperationType, t \in Nat :
        Records(w, u, type, t)' => Records(w, u, type, t) \/ Recorded(u, type, t) = {}

\* Such a step, while nothing is recorded, keeps what is counted within the limit.
LEMMA QuietRate ==
    ASSUME RateInv, NEW w \in Workers, OnlyOf(w), UNCHANGED <<now, ops>>, JoinsSpan(w)
    PROVE  RateInv'
<1> SUFFICES ASSUME NEW u \in Accounts, NEW type \in OperationType, NEW t \in Nat
             PROVE  RateBelow(u, type, t)'
    BY DEF RateInv
<1>1. Recorded(u, type, t)' = Recorded(u, type, t)
  BY DEF Recorded
<1>2. Recorders(u, type, t) \subseteq Workers /\ Recorders(u, type, t)' \subseteq Workers
  BY DEF Recorders
<1>3. RateBelow(u, type, t)
  BY DEF RateInv
<1>4. CASE Recorded(u, type, t) = {}
  BY <1>1, <1>2, <1>4, WorkerSet, FS_EmptySet DEF RateBelow
<1>5. CASE Recorded(u, type, t) # {}
  <2>1. \A v \in Recorders(u, type, t)' : v \in Recorders(u, type, t)
    BY <1>5 DEF Recorders, Records, Kind, OnlyOf, JoinsSpan
  <2> QED
    BY <1>1, <1>2, <1>3, <2>1, WorkerSet, NoMore, FS_CardinalityType DEF RateBelow
<1> QED
  BY <1>4, <1>5

\* A request that arrives, or that ends without recording anything.
LEMMA OutsideRate ==
    ASSUME IInv, RateInv, NEW w \in Workers, StartAny(w) \/ (Return(w) /\ UNCHANGED <<now, ops>>)
    PROVE  RateInv'
<1>1. OnlyOf(w) /\ pc'[w] \in {"idle", "order", "limit"} /\ UNCHANGED <<now, ops>>
  <2>1. CASE StartAny(w)
    <3>1. PICK c \in Call, label \in {"limit", "order"} : Start(w, c, label)
      BY <2>1, Started
    <3> QED
      BY <3>1 DEF Start, OnlyOf, IInv, TypeOK, OrdersType, storeVars, tables
  <2>2. CASE Return(w) /\ UNCHANGED <<now, ops>>
    BY <2>2 DEF Return, OnlyOf, IInv, TypeOK, OrdersType
  <2> QED
    BY <2>1, <2>2
<1>2. JoinsSpan(w)
  BY <1>1 DEF JoinsSpan, Records, InTransaction
<1> QED
  BY <1>1, <1>2, QuietRate

\* checkRateLimit lets a request pass that finds no young operation, and with
\* that no operation in any span that the request may still record in.
LEMMA CheckRate ==
    ASSUME IInv, RateInv, NEW w \in Workers, GetOrderByID(w) \/ CheckRateLimit(w)
    PROVE  RateInv'
<1>1. OnlyOf(w) /\ call'[w] = call[w] /\ UNCHANGED <<now, ops>>
  BY DEF GetOrderByID, CheckRateLimit, GoTo, OnlyOf, IInv, TypeOK, OrdersType, storeVars, tables
<1>2. CASE GetOrderByID(w)
  <2>1. pc'[w] = "limit" \/ (pc'[w] = "items" /\ call[w].op # "update")
    BY <1>2 DEF GetOrderByID, GoTo, IInv, TypeOK, OrdersType
  <2>2. call[w].op # "create"
    BY <1>2 DEF GetOrderByID, IInv, WorkerInv, Reaches
  <2> QED
    BY <1>1, <2>1, <2>2, QuietRate DEF JoinsSpan, Records, InTransaction
<1>3. CASE CheckRateLimit(w)
  <2>1. pc'[w] \in {"active", "items"} /\ ~RecentOperation(call[w].caller, Kind(w))
    BY <1>3 DEF CheckRateLimit, GoTo, Limited, Kind, IInv, TypeOK, OrdersType
  <2>2. now \in Nat /\ RateLimit \in Nat /\ \A x \in ops : x.at \in Nat
    BY StoreAssumption DEF IInv, TypeOK, StoreType, Operation
  <2>3. ASSUME NEW u \in Accounts, NEW type \in OperationType, NEW t \in Nat,
               Records(w, u, type, t)'
        PROVE  Recorded(u, type, t) = {}
    <3>1. u = call[w].caller /\ type = Kind(w) /\ now - t < RateLimit
      BY <1>1, <2>1, <2>3 DEF Records, Kind, InTransaction
    <3> QED
      BY <2>1, <2>2, <3>1 DEF RecentOperation, Recorded
  <2> QED
    BY <1>1, <2>3, QuietRate DEF JoinsSpan
<1> QED
  BY <1>2, <1>3

\* BEGIN fixes the moment that the operation will be recorded at.
LEMMA BeginRate ==
    ASSUME IInv, RateInv, NEW w \in Workers, GetActiveOrder(w) \/ GetOrderItems(w)
    PROVE  RateInv'
<1>1. /\ OnlyOf(w) /\ call'[w] = call[w] /\ UNCHANGED <<now, ops>>
      /\ pc[w] \in {"active", "items"}
  BY DEF GetActiveOrder, GetOrderItems, RestoreNext, GoTo, OnlyOf, IInv, TypeOK, OrdersType,
         storeVars, tables
<1>2. pc'[w] \in InTransaction
  BY DEF GetActiveOrder, GetOrderItems, RestoreNext, AfterRestore, GoTo, InTransaction,
         IInv, TypeOK, OrdersType
<1>3. tx'[w].began = now
  BY DEF GetActiveOrder, GetOrderItems, IInv, TypeOK, OrdersType, Tx
<1>4. now \in Nat /\ RateLimit \in Nat
  BY StoreAssumption DEF IInv, TypeOK, StoreType
<1>5. JoinsSpan(w)
  BY <1>1, <1>2, <1>3, <1>4 DEF JoinsSpan, Records, Kind, InTransaction
<1> QED
  BY <1>1, <1>5, QuietRate

\* Within the transaction that moment stays.
LEMMA WithinRate ==
    ASSUME IInv, RateInv, NEW w \in Workers,
           \/ IncrementStock(w) \/ GetProductForUpdate(w) \/ DecrementStock(w)
           \/ GetPromoCodeByCode(w) \/ IncrementPromoUses(w)
           \/ GetPromoCodeForUpdate(w) \/ DecrementPromoUses(w) \/ DeleteOrderItems(w)
    PROVE  RateInv'
<1> USE DEF IInv, TypeOK, OrdersType
<1>1. OnlyOf(w) /\ call'[w] = call[w] /\ UNCHANGED <<now, ops>> /\ pc[w] \in InTransaction
  BY DEF IncrementStock, GetProductForUpdate, ReadsProduct, DecrementStock, GetPromoCodeByCode,
         IncrementPromoUses, GetPromoCodeForUpdate, DecrementPromoUses, DeleteOrderItems,
         RestoreNext, GoTo, OnlyOf, storeVars, tables, InTransaction
<1>2. tx[w] \in Tx
  OBVIOUS
<1>3. tx'[w].began = tx[w].began
  <2>1. CASE IncrementStock(w)
    <3>1. PICK r \in tx[w].todo \cup {None} :
            tx' = [tx EXCEPT ![w].delta[tx[w].next.product] = @ + tx[w].next.qty,
                             ![w].next = r, ![w].todo = @ \ {r}]
      BY <2>1 DEF IncrementStock
    <3> QED
      BY <1>2, <3>1 DEF Tx
  <2>2. CASE GetProductForUpdate(w) \/ DecrementStock(w) \/ GetPromoCodeByCode(w)
    BY <1>2, <2>2 DEF GetProductForUpdate, DecrementStock, GetPromoCodeByCode, Tx
  <2>3. CASE IncrementPromoUses(w) \/ GetPromoCodeForUpdate(w) \/ DecrementPromoUses(w)
             \/ DeleteOrderItems(w)
    BY <1>2, <2>3 DEF IncrementPromoUses, GetPromoCodeForUpdate, DecrementPromoUses,
       DeleteOrderItems, Tx
  <2> QED
    BY <2>1, <2>2, <2>3
<1>4. pc'[w] \in InTransaction
  BY DEF IncrementStock, GetProductForUpdate, DecrementStock, GetPromoCodeByCode,
         IncrementPromoUses, GetPromoCodeForUpdate, DecrementPromoUses, DeleteOrderItems,
         RestoreNext, AfterRestore, AfterStock, GoTo, InTransaction
<1>5. JoinsSpan(w)
  BY <1>1, <1>3, <1>4 DEF JoinsSpan, Records, Kind, InTransaction
<1> QED
  BY <1>1, <1>5, QuietRate

\* CreateUserOperation moves its request from those that may record to what is
\* recorded.
LEMMA CommitRate ==
    ASSUME IInv, RateInv, NEW w \in Workers, CommitCreate(w) \/ CommitUpdate(w)
    PROVE  RateInv'
<1>1. /\ pc[w] = "write" /\ call[w].op \in {"create", "update"} /\ call[w] # None /\ Return(w)
      /\ Record(w, Kind(w)) /\ now' = now
  BY DEF CommitCreate, CommitUpdate, ApplyWrites, Kind, IInv, WorkerInv, Reaches
<1>2. PICK k \in Nat :
           ops' = ops \cup
               {[user |-> call[w].caller, type |-> Kind(w), at |-> tx[w].began, key |-> k]}
  BY <1>1, RecordAdds
<1> DEFINE y == [user |-> call[w].caller, type |-> Kind(w), at |-> tx[w].began, key |-> k]
<1>3. ops' = ops \cup {y} /\ y.user = call[w].caller /\ y.type = Kind(w) /\ y.at = tx[w].began
  BY <1>2
<1> HIDE DEF y
<1> SUFFICES ASSUME NEW u \in Accounts, NEW type \in OperationType, NEW t \in Nat
             PROVE  RateBelow(u, type, t)'
    BY DEF RateInv
<1>4. RateBelow(u, type, t) /\ Recorders(u, type, t) \subseteq Workers
  BY DEF RateInv, Recorders
<1>5. \A v \in Recorders(u, type, t)' : v \in Recorders(u, type, t) /\ v # w
  BY <1>1 DEF Return, Recorders, Records, Kind, InTransaction, IInv, TypeOK, OrdersType
<1>6. CASE w \in Recorders(u, type, t)
  <2>1. Grows(Recorded(u, type, t), Recorded(u, type, t)', y)
    BY <1>3 DEF Grows, Recorded
  <2> QED
    BY <1>4, <1>5, <1>6, <2>1, WorkerSet, OneMore, OneLess DEF RateBelow
<1>7. CASE w \notin Recorders(u, type, t)
  <2>1. \A x \in Recorded(u, type, t)' : x \in Recorded(u, type, t)
    BY <1>1, <1>3, <1>7 DEF Recorded, Recorders, Records, InTransaction
  <2> QED
    BY <1>4, <1>5, <2>1, WorkerSet, NoMore DEF RateBelow
<1> QED
  BY <1>6, <1>7

\* The clock only makes spans pass; the catalogue has no part in it.
LEMMA OthersRate ==
    ASSUME IInv, RateInv, UNCHANGED <<workerVars, ops>>, now <= now', now' \in Nat
    PROVE  RateInv'
<1> SUFFICES ASSUME NEW u \in Accounts, NEW type \in OperationType, NEW t \in Nat
             PROVE  RateBelow(u, type, t)'
    BY DEF RateInv
<1>1. RateBelow(u, type, t) /\ Recorders(u, type, t) \subseteq Workers
      /\ Recorded(u, type, t)' = Recorded(u, type, t)
  BY DEF RateInv, Recorders, Recorded
<1>2. now \in Nat /\ RateLimit \in Nat
  BY StoreAssumption DEF IInv, TypeOK, StoreType
<1>3. pc' = pc /\ call' = call /\ tx' = tx
  BY DEF workerVars
<1>4. PICK n \in Nat : now' = n /\ now <= n
  OBVIOUS
<1>5. \A v \in Recorders(u, type, t)' : v \in Recorders(u, type, t)
  <2> SUFFICES ASSUME NEW v \in Workers, Records(v, u, type, t)' PROVE Records(v, u, type, t)
    BY DEF Recorders
  <2>1. Kind(v)' = Kind(v)
    BY <1>3 DEF Kind
  <2>2. CASE pc[v] \in {"active", "items"}
    <3>1. n - t < RateLimit
      BY <1>3, <1>4, <2>2 DEF Records, InTransaction
    <3>2. now - t < RateLimit
      BY <1>2, <1>4, <3>1
    <3> QED
      BY <1>3, <2>1, <2>2, <3>2 DEF Records
  <2>3. CASE pc[v] \notin {"active", "items"}
    BY <1>3, <2>1, <2>3 DEF Records
  <2> QED
    BY <2>2, <2>3
<1> QED
  BY <1>1, <1>5, WorkerSet, NoMore, FS_CardinalityType DEF RateBelow

\* The invariant is inductive.
LEMMA NextRate == IInv /\ RateInv /\ [Next]_vars => RateInv'
<1> SUFFICES ASSUME IInv, RateInv, [Next]_vars PROVE RateInv'
    OBVIOUS
<1>1. CASE OrdersNext
  <2>1. PICK w \in Workers : StartAny(w) \/ Serve(w) \/ Abort(w) \/ DeadlockAbort(w)
    BY <1>1 DEF OrdersNext
  <2>2. CASE Abort(w) \/ DeadlockAbort(w) \/ AnswerGet(w) \/ Refuse(w) \/ CommitCancel(w)
    BY <2>2, OutsideRate DEF Abort, DeadlockAbort, AnswerGet, Refuse, CommitCancel, ApplyWrites, tables
  <2> QED
    BY <2>1, <2>2, OutsideRate, CheckRate, BeginRate, WithinRate, CommitRate DEF Serve
<1>2. CASE CatalogNext /\ UNCHANGED workerVars
  <2>1. UNCHANGED <<now, ops>>
    BY <1>2 DEF CatalogNext, CreateProduct, UpdateProduct, DeleteProduct, CreatePromoCode
  <2>2. now \in Nat
    BY DEF IInv, TypeOK, StoreType
  <2> QED
    BY <1>2, <2>1, <2>2, OthersRate
<1>3. CASE (Tick /\ UNCHANGED workerVars) \/ UNCHANGED vars
  <2>1. UNCHANGED <<workerVars, ops>> /\ (now' = now \/ now' = now + 1)
    BY <1>3 DEF Tick, vars, storeVars, tables
  <2>2. now \in Nat
    BY DEF IInv, TypeOK, StoreType
  <2> QED
    BY <2>1, <2>2, OthersRate
<1> QED
  BY <1>1, <1>2, <1>3 DEF Next

\* The requests that have passed checkRateLimit, counted with the operations
\* recorded in a span, stay within the number of workers.
THEOREM RateInvariant == Spec => []RateInv
<1>1. Init => RateInv
  <2> SUFFICES ASSUME Init, NEW u \in Accounts, NEW type \in OperationType, NEW t \in Nat
               PROVE  RateBelow(u, type, t)
    BY DEF RateInv
  <2>1. Recorded(u, type, t) = {} /\ Recorders(u, type, t) = {}
    BY DEF Init, StoreInit, OrdersInit, Recorded, Recorders, Records
  <2> QED
    BY <2>1, FS_EmptySet, WorkerSet DEF RateBelow
<1> QED
  BY <1>1, NextRate, Invariant, PTL DEF Spec

\* RateBound: whatever clients send at whatever time, a user records in a span
\* of RateLimit ticks at most as many operations of a type as requests fit in
\* flight (checkRateLimit reads outside the transaction that records).
THEOREM OperationsBounded == Spec => []RateBound
<1>1. IInv /\ RateInv => RateBound
  <2> SUFFICES ASSUME IInv, RateInv, NEW x \in ops
               PROVE  Cardinality(Recorded(x.user, x.type, x.at)) <= Cardinality(Workers)
    BY DEF RateBound, Recorded
  <2>1. x.user \in Accounts /\ x.type \in OperationType /\ x.at \in Nat
    BY DEF IInv, TypeOK, StoreType, Operation
  <2>2. RateBelow(x.user, x.type, x.at) /\ Recorders(x.user, x.type, x.at) \subseteq Workers
    BY <2>1 DEF RateInv, Recorders
  <2> QED
    BY <2>2, WorkerSet, FS_CardinalityType DEF RateBelow
<1> QED
  BY <1>1, Invariant, RateInvariant, PTL
=============================================================================
