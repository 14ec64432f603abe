-------------------------------- MODULE Store --------------------------------
(***************************************************************************)
(* The PostgreSQL database of the marketplace, as the services see it: the *)
(* committed rows of the tables of migrations/000001_init.up.sql, the row  *)
(* locks that running transactions hold, and the clock.                    *)
(*                                                                         *)
(* A statement of a transaction runs at isolation level READ COMMITTED     *)
(* (pgx's default): it reads the rows committed when it starts, and an     *)
(* UPDATE or SELECT ... FOR UPDATE waits for the lock of the row and then  *)
(* reads the newest committed version.                                     *)
(***************************************************************************)
EXTENDS Integers, FiniteSets

CONSTANTS
    Accounts,   \* users of the service
    Role,       \* [Accounts -> Roles]
    Products,   \* ids of products
    Codes,      \* promo codes (the unique key of promo_codes stands for its id)
    OrderIds,   \* ids of orders
    Workers,    \* HTTP requests the server handles at the same time
    None,       \* NULL, a row that is absent, a lock that is free
    RateLimit,  \* ORDER_RATE_LIMIT_MINUTES, in ticks of the clock
    MaxTime     \* bound: the last tick of the clock

VARIABLES
    now,        \* the clock of the server and of the database
    product,    \* table products
    promo,      \* table promo_codes
    orders,     \* table orders
    items,      \* table order_items, by order
    ops,        \* table user_operations
    lock,       \* the request whose transaction holds the lock of a row
    supplied    \* history: units of stock the sellers put on sale, by product

tables == <<product, promo, orders, items, ops>>
storeVars == <<now, tables, lock, supplied>>

-----------------------------------------------------------------------------
Roles == {"USER", "SELLER", "ADMIN"}
ProductStatus == {"ACTIVE", "INACTIVE", "ARCHIVED"}
OrderStatus == {"CREATED", "PAYMENT_PENDING", "PAID", "SHIPPED", "COMPLETED", "CANCELED"}
OperationType == {"CREATE_ORDER", "UPDATE_ORDER"}

ProductRow == [seller : Accounts, price : Nat \ {0}, stock : Nat, status : ProductStatus]

\* active is left out: no statement of the code ever sets it to FALSE.
PromoRow == [max : Nat \ {0}, min : Nat, from : Nat, until : Nat, uses : Nat]

\* The rows that one INSERT loop adds share a batch, the line numbers them:
\* together they stand for the random primary key.
ItemRow == [batch : Nat, line : Nat, product : Products, qty : Nat \ {0}, price : Nat]

\* total_amount and discount_amount are represented by the rows they were
\* computed from: total_amount + discount_amount = Gross(billed).
OrderRow == [user : Accounts, status : OrderStatus, promo : Codes \cup {None},
             billed : SUBSET ItemRow]

\* The key stands for the random id: it tells apart the operations of one
\* user, one type and one moment.
Operation == [user : Accounts, type : OperationType, at : Nat, key : Nat]

Lockable == Products \cup Codes

ASSUME StoreAssumption ==
    /\ Role \in [Accounts -> Roles]
    /\ Products \cap Codes = {}
    /\ None \notin Workers \cup Codes \cup OrderIds \cup Accounts
    /\ None \notin ProductRow /\ None \notin PromoRow /\ None \notin OrderRow
    /\ None \notin ItemRow
    /\ IsFiniteSet(Workers)
    /\ RateLimit \in Nat /\ MaxTime \in Nat

StoreType ==
    /\ now \in Nat
    /\ product \in [Products -> ProductRow \cup {None}]
    /\ promo \in [Codes -> PromoRow \cup {None}]
    /\ orders \in [OrderIds -> OrderRow \cup {None}]
    /\ items \in [OrderIds -> SUBSET ItemRow]
    /\ ops \subseteq Operation
    /\ lock \in [Lockable -> Workers \cup {None}]
    /\ supplied \in [Products -> Int]

StoreInit ==
    /\ now = 0
    /\ product = [p \in Products |-> None]
    /\ promo = [c \in Codes |-> None]
    /\ orders = [o \in OrderIds |-> None]
    /\ items = [o \in OrderIds |-> {}]
    /\ ops = {}
    /\ lock = [k \in Lockable |-> None]
    /\ supplied = [p \in Products |-> 0]

-----------------------------------------------------------------------------
(* Queries. *)

\* status IN ('CREATED', 'PAYMENT_PENDING') of GetActiveOrderByUserID.
ActiveOrders(u) ==
    {o \in OrderIds : /\ orders[o] # None
                      /\ orders[o].user = u
                      /\ orders[o].status \in {"CREATED", "PAYMENT_PENDING"}}

\* GetLastUserOperation finds an operation younger than the limit: the newest
\* one is younger than the limit exactly when some one is.
RecentOperation(u, type) ==
    \E x \in ops : x.user = u /\ x.type = type /\ now - x.at < RateLimit

\* The window of a promo code, its ends included.
InWindow(row) == row.from <= now /\ now <= row.until

-----------------------------------------------------------------------------
(* Row locks, held until the transaction ends. *)

CanLock(w, k) == lock[k] \in {w, None}

TakeLock(w, k) == lock' = [lock EXCEPT ![k] = w]

\* Mutant: the transaction stays open.
ReleaseNothing(w) == lock' = [k \in Lockable |-> lock[k]]

ReleaseLocks(w) == lock' = [k \in Lockable |-> IF lock[k] = w THEN None ELSE lock[k]]

-----------------------------------------------------------------------------
Tick ==
    /\ now < MaxTime
    /\ now' = now + 1
    /\ UNCHANGED <<tables, lock, supplied>>
=============================================================================
