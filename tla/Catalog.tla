------------------------------- MODULE Catalog -------------------------------
(***************************************************************************)
(* ProductService and PromoService: the catalogue that sellers keep. Each  *)
(* operation writes with one SQL statement outside any transaction, so it  *)
(* is one step; the UPDATEs wait for the lock of the row. The read that    *)
(* precedes them looks only at seller_id, which never changes.             *)
(***************************************************************************)
EXTENDS Store

CONSTANTS
    ProductInputs,  \* bodies of POST /products: [price, stock]
    UpdateInputs,   \* bodies of PUT /products/{id}: [price, stock, status]
    PromoInputs,    \* bodies of POST /promo-codes: [max, min, from, until]
    Edits           \* which catalogue operations clients call: a subset of CatalogOps

CatalogOps == {"create", "update", "delete", "promo"}

ASSUME CatalogAssumption ==
    /\ ProductInputs \subseteq [price : Nat \ {0}, stock : Nat]
    /\ UpdateInputs \subseteq [price : Nat \ {0}, stock : Nat, status : ProductStatus]
    /\ PromoInputs \subseteq [max : Nat \ {0}, min : Nat, from : Nat, until : Nat]
    /\ Edits \subseteq CatalogOps

Keepers == {u \in Accounts : Role[u] \in {"SELLER", "ADMIN"}}

\* A seller changes own products only, an administrator any product.
MayChange(u, p) == Role[u] = "SELLER" => product[p].seller = u

CreateProduct(u, p, in) ==
    /\ product[p] = None
    /\ product' = [product EXCEPT ![p] =
            [seller |-> u, price |-> in.price, stock |-> in.stock, status |-> "ACTIVE"]]
    /\ supplied' = [supplied EXCEPT ![p] = in.stock]
    /\ UNCHANGED <<now, promo, orders, items, ops, lock>>

\* The stock of the body replaces the stock of the row.
UpdateProduct(u, p, in) ==
    /\ product[p] # None
    /\ MayChange(u, p)
    /\ lock[p] = None
    /\ product' = [product EXCEPT ![p] =
            [@ EXCEPT !.price = in.price, !.stock = in.stock, !.status = in.status]]
    /\ supplied' = [supplied EXCEPT ![p] = @ + in.stock - product[p].stock]
    /\ UNCHANGED <<now, promo, orders, items, ops, lock>>

\* DELETE /products/{id}: the row stays, archived.
DeleteProduct(u, p) ==
    /\ product[p] # None
    /\ MayChange(u, p)
    /\ lock[p] = None
    /\ product' = [product EXCEPT ![p] = [@ EXCEPT !.status = "ARCHIVED"]]
    /\ UNCHANGED <<now, promo, orders, items, ops, lock, supplied>>

\* The UNIQUE constraint on code refuses a second row.
CreatePromoCode(c, in) ==
    /\ promo[c] = None
    /\ in.until > in.from
    /\ promo' = [promo EXCEPT ![c] =
            [max |-> in.max, min |-> in.min, from |-> in.from, until |-> in.until, uses |-> 0]]
    /\ UNCHANGED <<now, product, orders, items, ops, lock, supplied>>

CatalogNext ==
    \E u \in Keepers :
        \/ \E p \in Products :
               \/ "create" \in Edits /\ \E in \in ProductInputs : CreateProduct(u, p, in)
               \/ "update" \in Edits /\ \E in \in UpdateInputs : UpdateProduct(u, p, in)
               \/ "delete" \in Edits /\ DeleteProduct(u, p)
        \/ "promo" \in Edits /\ \E c \in Codes, in \in PromoInputs : CreatePromoCode(c, in)
=============================================================================
