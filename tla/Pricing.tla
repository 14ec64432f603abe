------------------------------- MODULE Pricing -------------------------------
(***************************************************************************)
(* The numbers of the marketplace: int32 conversions, decimals of two      *)
(* places in PostgreSQL, the CHECKs of the tables, and the amounts of an   *)
(* order (calcDiscount and its callers in service/orders.go).              *)
(*                                                                         *)
(* Columns of type NUMERIC(12, 2) hold cents, a percentage hundredths of a *)
(* percent. The Go code computes with exact decimals; PostgreSQL rounds    *)
(* half away from zero when it stores them.                                *)
(***************************************************************************)
EXTENDS Integers

CONSTANTS
    AmountLimit,    \* 10^12: NUMERIC(12, 2) holds fewer cents than this
    IntLimit        \* 2^31: int32 and INTEGER hold smaller numbers than this

ASSUME PricingAssumption == AmountLimit \in Nat \ {0} /\ IntLimit \in Nat \ {0}

\* int32(n) of an int, and the product of two int32.
Wrap(n) == ((n + IntLimit) % (2 * IntLimit)) - IntLimit

\* n parts of a cent, stored in a column; a cent has an even number of parts.
Cents(n, parts) ==
    IF n >= 0 THEN (n + parts \div 2) \div parts ELSE -((parts \div 2 - n) \div parts)

FitsColumn(cents) == -AmountLimit < cents /\ cents < AmountLimit

-----------------------------------------------------------------------------
(* Exact amounts: 10000 parts to a cent, so that a percentage of two places*)
(* of a number of cents is a whole number of parts.                        *)

Parts == 10000

DiscountTypes == {"PERCENTAGE", "FIXED_AMOUNT"}

Promo == [type : DiscountTypes, value : Nat \ {0}, min : Nat]

\* Mutant: the share of a percentage is not capped.
UncappedDiscount(total, promo) ==
    IF promo.type = "PERCENTAGE" THEN total * promo.value
    ELSE IF promo.value > total THEN total * Parts ELSE promo.value * Parts

\* At most 70 % for a percentage, at most the total for a fixed amount.
calcDiscount(total, promo) ==
    IF promo.type = "PERCENTAGE"
    THEN IF promo.value > 7000 THEN total * 7000 ELSE total * promo.value
    ELSE IF promo.value > total THEN total * Parts ELSE promo.value * Parts

\* What an order whose lines cost gross gets to pay with a discount of d parts.
Amounts(gross, d) ==
    [total |-> Cents(gross * Parts - d, Parts), discount |-> Cents(d, Parts)]

-----------------------------------------------------------------------------
(* Rows that the tables take. *)

OrderFits(row) ==
    /\ row.total >= 0 /\ FitsColumn(row.total)
    /\ row.discount >= 0 /\ FitsColumn(row.discount)

ProductFits(row) == row.price > 0 /\ FitsColumn(row.price) /\ row.stock >= 0

PromoFits(row) ==
    /\ row.type \in DiscountTypes
    /\ row.value > 0 /\ FitsColumn(row.value)
    /\ row.min >= 0 /\ FitsColumn(row.min)
    /\ row.max > 0
    /\ row.ordered
=============================================================================
