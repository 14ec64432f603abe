----------------------------- MODULE PricingProof -----------------------------
(***************************************************************************)
(* The amounts of an order, for every total and every promo code.          *)
(***************************************************************************)
EXTENDS Pricing, TLAPS

\* Cents of a number of parts that a column stores, in bounds.
LEMMA CentsBounds ==
    ASSUME NEW n \in Nat
    PROVE  /\ Cents(n, Parts) \in Nat
           /\ n - 5000 < Parts * Cents(n, Parts)
           /\ Parts * Cents(n, Parts) <= n + 5000
BY DEF Cents, Parts

\* calcDiscount never exceeds the total, nor 70 % of it for a percentage.
LEMMA DiscountBounds ==
    ASSUME NEW gross \in Nat, NEW promo \in Promo
    PROVE  /\ calcDiscount(gross, promo) \in Nat
           /\ calcDiscount(gross, promo) <= gross * Parts
           /\ promo.type = "PERCENTAGE" => calcDiscount(gross, promo) <= gross * 7000
<1> DEFINE v == promo.value
<1>1. v \in Nat /\ v > 0 /\ promo.type \in DiscountTypes
  BY DEF Promo
<1>2. CASE promo.type = "PERCENTAGE" /\ v > 7000
  BY <1>1, <1>2 DEF calcDiscount, Parts
<1>3. CASE promo.type = "PERCENTAGE" /\ ~(v > 7000)
  <2>1. calcDiscount(gross, promo) = gross * v
    BY <1>1, <1>3 DEF calcDiscount
  <2>2. gross * v \in Nat /\ gross * v <= gross * 7000
    BY <1>1, <1>3
  <2> QED
    BY <1>1, <1>3, <2>1, <2>2 DEF Parts
<1>4. CASE promo.type = "FIXED_AMOUNT"
  BY <1>1, <1>4 DEF calcDiscount, Parts
<1> QED
  BY <1>1, <1>2, <1>3, <1>4 DEF DiscountTypes

\* What is paid and what is saved add up, for every exact discount.
THEOREM AmountsAddUp ==
    ASSUME NEW gross \in Nat, NEW d \in Nat, d <= gross * Parts
    PROVE  LET a == Amounts(gross, d)
           IN /\ a.total \in Nat /\ a.discount \in Nat
              /\ a.total + a.discount \in {gross, gross + 1}
              /\ a.discount <= gross
              /\ Parts * a.discount <= d + 5000
<1> DEFINE rest == gross * Parts - d
<1>1. rest \in Nat /\ rest + d = gross * Parts
  BY DEF Parts
<1>2. /\ Cents(rest, Parts) \in Nat
      /\ rest - 5000 < Parts * Cents(rest, Parts)
      /\ Parts * Cents(rest, Parts) <= rest + 5000
  BY <1>1, CentsBounds
<1>3. /\ Cents(d, Parts) \in Nat
      /\ d - 5000 < Parts * Cents(d, Parts)
      /\ Parts * Cents(d, Parts) <= d + 5000
  BY CentsBounds
<1> HIDE DEF rest
<1>4. /\ Cents(rest, Parts) + Cents(d, Parts) \in {gross, gross + 1}
      /\ Cents(d, Parts) <= gross
  BY <1>1, <1>2, <1>3 DEF Parts
<1> QED
  BY <1>2, <1>3, <1>4 DEF Amounts, rest

=============================================================================
