------------------------- MODULE InvoiceDraftProofs -------------------------
(***************************************************************************)
(* What is proved about the figures of an invoice, for every line, every   *)
(* number of lines and every number of decimals: a discount never exceeds  *)
(* its line, the route of a supply changes a line's total by at most a     *)
(* paisa, the header adds up with its lines, no CHECK constraint is met,   *)
(* a server error means amounts too large, and a client that rounds late   *)
(* is within the tolerance.                                                *)
(***************************************************************************)
EXTENDS InvoiceDraftProperties, LedgerSumsProofs

(***************************************************************************)
(* Half-up rounding is bracketed by its numerator.                         *)
(***************************************************************************)
LEMMA RoundBracket ==
    ASSUME NEW n \in Int, NEW d \in Nat \ {0}
    PROVE  /\ _round(n, d) \in Int
           /\ 2 * d * _round(n, d) <= 2 * n + d
           /\ 2 * n + d < 2 * d * (_round(n, d) + 1)
<1> DEFINE a == 2 * n + d
           c == 2 * d
<1>1. a \in Int /\ c \in Nat \ {0}  OBVIOUS
<1> HIDE DEF a, c
<1> DEFINE q == a \div c
<1>2. q \in Int /\ c * q <= a /\ a < c * q + c
  BY <1>1
<1> HIDE DEF q
<1>3. c * (q + 1) = c * q + c
  BY <1>1, <1>2
<1>4. _round(n, d) = q
  BY DEF _round, a, c, q
<1>5. QED
  BY <1>1, <1>2, <1>3, <1>4 DEF a, c

(***************************************************************************)
(* A quotient that is bracketed from above is at most the bracket.         *)
(***************************************************************************)
LEMMA RoundAtMost ==
    ASSUME NEW n \in Int, NEW d \in Nat \ {0}, NEW m \in Int,
           2 * n + d < 2 * d * (m + 1)
    PROVE  _round(n, d) <= m
  <1> DEFINE q == _round(n, d)
  <1>1. q \in Int /\ 2 * d * q <= 2 * n + d  BY RoundBracket DEF q
  <1> HIDE DEF q
  <1>2. 2 * d * q < 2 * d * (m + 1)  BY <1>1
  <1>3. SUFFICES ASSUME q >= m + 1 PROVE FALSE  BY <1>1 DEF q
  <1>4. 2 * d * (q - (m + 1)) >= 0  BY <1>1, <1>3
  <1>5. 2 * d * (q - (m + 1)) = 2 * d * q - 2 * d * (m + 1)  BY <1>1
  <1> QED BY <1>1, <1>2, <1>4, <1>5

(***************************************************************************)
(* A share of at most the whole rounds to at most the rounded whole.       *)
(***************************************************************************)
LEMMA RoundedShare ==
    ASSUME NEW g \in Nat, NEW d \in Nat \ {0}, NEW p \in Nat \ {0},
           NEW x \in Nat, x <= p
    PROVE  _round(g * x, d * p) <= _round(g, d)
<1> DEFINE m == _round(g, d)
<1>1. m \in Int /\ 2 * g + d < 2 * d * (m + 1)
  BY RoundBracket
<1> HIDE DEF m
<1>2. g * x \in Int /\ g * p \in Int /\ d * p \in Nat \ {0}
  OBVIOUS
<1>3. 2 * (g * x) + d * p < 2 * (d * p) * (m + 1)
  <2> DEFINE low == 2 * g + d
             high == 2 * d * (m + 1)
             gx == g * x
             gp == g * p
             dp == d * p
  <2>1. gx <= gp
    OBVIOUS
  <2>2. low \in Int /\ high \in Int /\ low < high
    BY <1>1
  <2>3. p * low = 2 * gp + dp
    OBVIOUS
  <2>4. p * high = 2 * dp * (m + 1)
    BY <1>1
  <2>5. gx \in Int /\ gp \in Int /\ dp \in Int
    OBVIOUS
  <2> HIDE DEF low, high, gx, gp, dp
  <2>6. p * low < p * high
    BY <2>2
  <2>7. 2 * gx + dp < 2 * dp * (m + 1)
    BY <1>1, <2>1, <2>3, <2>4, <2>5, <2>6
  <2>8. QED
    BY <2>7 DEF gx, dp
<1>4. QED
  BY <1>1, <1>2, <1>3, RoundAtMost DEF m

(***************************************************************************)
(* calculate_taxable_amount's "Discount cannot exceed gross value" is      *)
(* never raised for a line of a request, although the discount is computed *)
(* from the exact value of the line and compared with the rounded one.     *)
(***************************************************************************)
THEOREM DiscountFits ==
    \A line \in Lines :
        ~taxable_amount_raises(line.quantity, line.rate, discount_of(line))
<1> SUFFICES ASSUME NEW line \in Lines
             PROVE  ~taxable_amount_raises(line.quantity, line.rate, discount_of(line))
  OBVIOUS
<1> DEFINE g == line.quantity * line.rate
           x == line.discount_percent
           d == QUANTITY_SCALE * RATE_SCALE
           p == 100 * PERCENT_SCALE
<1>1. line.quantity \in Nat \ {0} /\ line.rate \in Nat \ {0} /\ x \in 0..p
  BY LinesAssumption
<1>2. g \in Nat /\ d \in Nat \ {0} /\ p \in Nat \ {0} /\ x \in Nat /\ x <= p
  BY <1>1, ScaleAssumption
<1>3. d * p = QUANTITY_SCALE * RATE_SCALE * 100 * PERCENT_SCALE
  BY ScaleAssumption
<1>4. discount_of(line) = _round(g * x, d * p)
  BY <1>3 DEF discount_of, line_discount
<1>5. gross_value(line.quantity, line.rate) = _round(g, d)
  BY DEF gross_value
<1> HIDE DEF g, x, d, p
<1>6. _round(g * x, d * p) \in Int /\ _round(g, d) \in Int
  <2>1. g * x \in Int /\ d * p \in Nat \ {0}
    BY <1>2
  <2>2. QED
    BY <1>2, <2>1, RoundBracket
<1>7. _round(g * x, d * p) <= _round(g, d)
  BY <1>2, RoundedShare
<1>8. QED
  BY <1>1, <1>4, <1>5, <1>6, <1>7 DEF taxable_amount_raises

(***************************************************************************)
(* Two rounded halves of a tax are within a paisa of the rounded whole.    *)
(***************************************************************************)
LEMMA HalvesAndWhole ==
    ASSUME NEW taxable \in Int, NEW gst_rate \in Int
    PROVE  2 * half_tax(taxable, gst_rate) - integrated_tax(taxable, gst_rate) \in -1..1
<1> DEFINE n == taxable * gst_rate
           h == _round(n, 200000)
           w == _round(n, 100000)
<1>1. n \in Int
  OBVIOUS
<1>2. h \in Int /\ 400000 * h <= 2 * n + 200000 /\ 2 * n + 200000 < 400000 * (h + 1)
  BY <1>1, RoundBracket
<1>3. w \in Int /\ 200000 * w <= 2 * n + 100000 /\ 2 * n + 100000 < 200000 * (w + 1)
  BY <1>1, RoundBracket
<1>4. half_tax(taxable, gst_rate) = h /\ integrated_tax(taxable, gst_rate) = w
  BY DEF half_tax, integrated_tax
<1> HIDE DEF n, h, w
<1>5. QED
  BY <1>1, <1>2, <1>3, <1>4

\* The items that can be built from the lines of a request.
Models(supply) ==
    {line_item_model(line, breakdown_of(line, supply)) :
        line \in {l \in Lines : validate_gst_rate(l.gst_rate)}}

Supplies == {"intrastate", "interstate"}

(***************************************************************************)
(* Rounding keeps the sign of its numerator.                               *)
(***************************************************************************)
LEMMA RoundNat ==
    ASSUME NEW n \in Nat, NEW d \in Nat \ {0}
    PROVE  _round(n, d) \in Nat
<1> DEFINE q == _round(n, d)
<1>1. q \in Int /\ 2 * n + d < 2 * d * (q + 1)
  BY RoundBracket
<1> HIDE DEF q
<1>2. SUFFICES ASSUME q + 1 <= 0 PROVE FALSE
  BY <1>1 DEF q
<1>3. d * (q + 1) <= 0
  BY <1>1, <1>2
<1>4. QED
  BY <1>1, <1>3

(***************************************************************************)
(* The value of a line, its discount and what is taxed are amounts.        *)
(***************************************************************************)
LEMMA LineAmounts ==
    ASSUME NEW line \in Lines
    PROVE  /\ gross_value(line.quantity, line.rate) \in Nat
           /\ discount_of(line) \in Nat
           /\ calculate_taxable_amount(line.quantity, line.rate, discount_of(line)) \in Nat
           /\ calculate_taxable_amount(line.quantity, line.rate, discount_of(line))
                = gross_value(line.quantity, line.rate) - discount_of(line)
<1> DEFINE g == line.quantity * line.rate
           d == QUANTITY_SCALE * RATE_SCALE
           p == 100 * PERCENT_SCALE
           v == gross_value(line.quantity, line.rate)
           o == discount_of(line)
<1>1. g \in Nat /\ g * line.discount_percent \in Nat
  BY LinesAssumption, ScaleAssumption
<1>2. d \in Nat \ {0} /\ d * p \in Nat \ {0}
      /\ d * p = QUANTITY_SCALE * RATE_SCALE * 100 * PERCENT_SCALE
  BY ScaleAssumption
<1>3. v = _round(g, d) /\ o = _round(g * line.discount_percent, d * p)
  BY <1>2 DEF gross_value, discount_of, line_discount
<1>4. v \in Nat /\ o \in Nat
  <2> HIDE DEF g, d, p, v, o
  <2> QED BY <1>1, <1>2, <1>3, RoundNat
<1>5. o <= v
  <2>1. ~(o > v)
    BY DiscountFits DEF taxable_amount_raises
  <2> QED BY <1>4, <2>1
<1>6. calculate_taxable_amount(line.quantity, line.rate, o) = v - o
  BY DEF calculate_taxable_amount
<1> HIDE DEF v, o
<1>7. v - o \in Nat
  BY <1>4, <1>5
<1>8. QED
  BY <1>4, <1>6, <1>7 DEF v, o

(***************************************************************************)
(* The figures of an item: what is taxed is the line less its discount,    *)
(* its total is what is taxed and its taxes, and the taxes that apply are  *)
(* those of the route.                                                     *)
(***************************************************************************)
LEMMA ModelFigures ==
    ASSUME NEW supply \in Supplies, NEW item \in Models(supply)
    PROVE  LET b == item.breakdown
           IN  /\ item.line \in Lines
               /\ subtotal_of(item) \in Nat
               /\ item.discount_amount \in Nat
               /\ b.taxable_amount \in Nat
               /\ b.gst_rate \in GST_RATE_SLABS
               /\ b.cess_rate \in Nat
               /\ b.cgst_rate \in Nat /\ b.cgst_amount \in Nat
               /\ b.sgst_rate \in Nat /\ b.sgst_amount \in Nat
               /\ b.igst_rate \in Nat /\ b.igst_amount \in Nat
               /\ b.cess_amount \in Nat
               /\ item.total_amount \in Nat
               /\ b.line_total \in Nat
               /\ DOMAIN b = {"taxable_amount", "gst_rate", "cgst_rate", "cgst_amount",
                              "sgst_rate", "sgst_amount", "igst_rate", "igst_amount",
                              "cess_rate", "cess_amount", "line_total"}
               /\ b.taxable_amount = subtotal_of(item) - item.discount_amount
               /\ item.total_amount
                    = b.taxable_amount + b.cgst_amount + b.sgst_amount + b.igst_amount
                        + b.cess_amount
               /\ b.line_total = item.total_amount
               /\ supply = "intrastate" => b.igst_amount = 0 /\ b.igst_rate = 0
               /\ supply = "interstate" =>
                     /\ b.cgst_amount = 0 /\ b.sgst_amount = 0
                     /\ b.cgst_rate = 0 /\ b.sgst_rate = 0
<1>1. PICK line \in Lines :
          /\ line.gst_rate \in GST_RATE_SLABS
          /\ item = line_item_model(line, breakdown_of(line, supply))
  BY DEF Models, validate_gst_rate
<1> DEFINE v == gross_value(line.quantity, line.rate)
           o == discount_of(line)
           t == calculate_taxable_amount(line.quantity, line.rate, o)
           r == line.gst_rate
           h == IF supply = "intrastate" THEN half_tax(t, r) ELSE 0
           w == IF supply = "intrastate" THEN 0 ELSE integrated_tax(t, r)
           c == cess(t, line.cess_rate)
           b == breakdown_of(line, supply)
<1>2. v \in Nat /\ o \in Nat /\ t \in Nat /\ t = v - o
  BY LineAmounts
<1>3. r \in Nat /\ line.cess_rate \in Nat
  BY LinesAssumption, ScaleAssumption
<1>4. half_tax(t, r) \in Nat /\ integrated_tax(t, r) \in Nat /\ c \in Nat
  <2>1. t * r \in Nat /\ t * line.cess_rate \in Nat /\ 100 * CESS_SCALE \in Nat \ {0}
    <3> HIDE DEF t, r
    <3> QED BY <1>2, <1>3, ScaleAssumption
  <2>2. /\ half_tax(t, r) = _round(t * r, 200000)
        /\ integrated_tax(t, r) = _round(t * r, 100000)
        /\ c = _round(t * line.cess_rate, 100 * CESS_SCALE)
    BY DEF half_tax, integrated_tax, cess
  <2> HIDE DEF t, r, c
  <2> QED BY <2>1, <2>2, RoundNat
<1>5. h \in Nat /\ w \in Nat
  BY <1>4
<1>6. b = [taxable_amount |-> t, gst_rate |-> r,
           cgst_rate |-> IF supply = "intrastate" THEN 5 * r ELSE 0, cgst_amount |-> h,
           sgst_rate |-> IF supply = "intrastate" THEN 5 * r ELSE 0, sgst_amount |-> h,
           igst_rate |-> IF supply = "intrastate" THEN 0 ELSE r, igst_amount |-> w,
           cess_rate |-> line.cess_rate, cess_amount |-> c,
           line_total |-> t + h + h + w + c]
  BY DEF breakdown_of, calculate_line_item_tax
<1>7. /\ item.line = line /\ item.discount_amount = o /\ item.breakdown = b
      /\ item.total_amount = b.taxable_amount + total_tax(b)
  BY <1>1 DEF line_item_model
<1>8. subtotal_of(item) = v
  BY <1>7 DEF subtotal_of
<1>9. supply = "intrastate" => w = 0
  OBVIOUS
<1>10. supply = "interstate" => h = 0
  OBVIOUS
<1>11. /\ b.taxable_amount = t /\ b.gst_rate = r /\ b.cess_rate = line.cess_rate
       /\ b.cgst_amount = h /\ b.sgst_amount = h /\ b.igst_amount = w /\ b.cess_amount = c
       /\ b.line_total = t + h + h + w + c
       /\ b.cgst_rate = (IF supply = "intrastate" THEN 5 * r ELSE 0)
       /\ b.sgst_rate = (IF supply = "intrastate" THEN 5 * r ELSE 0)
       /\ b.igst_rate = (IF supply = "intrastate" THEN 0 ELSE r)
       /\ DOMAIN b = {"taxable_amount", "gst_rate", "cgst_rate", "cgst_amount",
                      "sgst_rate", "sgst_amount", "igst_rate", "igst_amount",
                      "cess_rate", "cess_amount", "line_total"}
  <2> HIDE DEF b, t, r, h, w, c
  <2> QED BY <1>6
<1>12. item.total_amount = t + (h + h + w + c)
  <2> HIDE DEF b, t, r, h, w, c
  <2> QED BY <1>7, <1>11 DEF total_tax
<1>13. line \in Lines /\ r \in GST_RATE_SLABS
  BY <1>1
<1> HIDE DEF v, o, t, r, h, w, c, b
<1>14. QED
  BY <1>2, <1>3, <1>4, <1>5, <1>7, <1>8, <1>9, <1>10, <1>11, <1>12, <1>13 DEF Supplies

Priced == items \in Seq(Models(supply_type))

(***************************************************************************)
(* Whatever has been priced is built from a line of the request.           *)
(***************************************************************************)
LEMMA ItemsAreModels == Spec => []Priced
<1>1. Init => Priced
  BY DEF Init, Priced
<1>2. Priced /\ [Next]_vars => Priced'
  <2> SUFFICES ASSUME items \in Seq(Models(supply_type)), [Next]_vars
               PROVE  Priced'
    BY DEF Priced
  <2>0. supply_type' = supply_type
    BY DEF Next, PriceLine, Create, vars, supply_type, place_of_supply
  <2> SUFFICES items' \in Seq(Models(supply_type))
    BY <2>0 DEF Priced
  <2>1. ASSUME NEW line \in Lines, PriceLine(line)
        PROVE  items' \in Seq(Models(supply_type))
    <3>1. line_item_model(line, breakdown_of(line, supply_type)) \in Models(supply_type)
      BY <2>1 DEF Models, PriceLine, line_allowed
    <3>3. QED
      BY <2>1, <3>1 DEF PriceLine
  <2>2. ASSUME NEW declared, Create(declared)
        PROVE  items' \in Seq(Models(supply_type))
    BY <2>2 DEF Create
  <2>3. CASE UNCHANGED vars
    BY <2>3 DEF vars
  <2>4. QED
    BY <2>1, <2>2, <2>3 DEF Next
<1>3. QED
  BY <1>1, <1>2, PTL DEF Spec

(***************************************************************************)
(* A line taxed in two halves and the same line taxed as a whole differ by *)
(* at most a paisa, for every line, rate and cess.                         *)
(***************************************************************************)
THEOREM RouteNeutral == Spec => []TaxIndependentOfRoute
<1>1. Priced => TaxIndependentOfRoute
  <2> SUFFICES ASSUME items \in Seq(Models(supply_type)), NEW i \in DOMAIN items
               PROVE  LET taxed(supply) ==
                              LET b == items[i].breakdown
                              IN  calculate_line_item_tax(b.taxable_amount, b.gst_rate,
                                                          supply, b.cess_rate).line_total
                      IN  taxed("intrastate") - taxed("interstate") \in -1..1
    BY DEF TaxIndependentOfRoute, Priced
  <2> DEFINE b == items[i].breakdown
             h == half_tax(b.taxable_amount, b.gst_rate)
             w == integrated_tax(b.taxable_amount, b.gst_rate)
             c == cess(b.taxable_amount, b.cess_rate)
             total(supply) ==
                 calculate_line_item_tax(b.taxable_amount, b.gst_rate, supply,
                                         b.cess_rate).line_total
  <2>1. items[i] \in Models(supply_type) /\ supply_type \in Supplies
    BY DEF Supplies, supply_type, determine_supply_type
  <2>2. b.taxable_amount \in Int /\ b.gst_rate \in Int /\ b.cess_rate \in Int
    <3>1. b.taxable_amount \in Nat /\ b.gst_rate \in GST_RATE_SLABS /\ b.cess_rate \in Nat
      <4> DEFINE item == items[i]
      <4>1. item \in Models(supply_type) /\ supply_type \in Supplies
        BY <2>1
      <4> HIDE DEF item
      <4>2. /\ item.breakdown.taxable_amount \in Nat
            /\ item.breakdown.gst_rate \in GST_RATE_SLABS
            /\ item.breakdown.cess_rate \in Nat
        BY <4>1, ModelFigures
      <4> QED BY <4>2 DEF item
    <3>2. GST_RATE_SLABS \subseteq Int
      BY DEF GST_RATE_SLABS
    <3>3. b.taxable_amount \in Int /\ b.cess_rate \in Int
      BY <3>1
    <3>4. b.gst_rate \in Int
      BY <3>1, <3>2
    <3> QED BY <3>3, <3>4
  <2>3. total("intrastate") = b.taxable_amount + h + h + 0 + c
        /\ total("interstate") = b.taxable_amount + 0 + 0 + w + c
    BY DEF calculate_line_item_tax
  <2>4. h \in Int /\ w \in Int /\ c \in Int
    <3> DEFINE t == b.taxable_amount * b.gst_rate
               s == b.taxable_amount * b.cess_rate
               e == 100 * CESS_SCALE
    <3>1. t \in Int /\ s \in Int /\ e \in Nat \ {0}
      BY <2>2, ScaleAssumption
    <3>2. h = _round(t, 200000) /\ w = _round(t, 100000) /\ c = _round(s, e)
      BY DEF half_tax, integrated_tax, cess
    <3> HIDE DEF h, w, c, t, s, e
    <3>3. QED
      BY <3>1, <3>2, RoundBracket
  <2>5. 2 * h - w \in -1..1
    BY <2>2, HalvesAndWhole
  <2> HIDE DEF b, h, w, c
  <2>6. total("intrastate") - total("interstate") = 2 * h - w
    BY <2>2, <2>3, <2>4
  <2>7. QED
    BY <2>5, <2>6 DEF b
<1>2. QED
  BY <1>1, ItemsAreModels, PTL

-----------------------------------------------------------------------------
(***************************************************************************)
(* How far a client may be off that rounds elsewhere.                      *)
(***************************************************************************)

\* Numerators at most the denominator apart round to integers at most one apart.
LEMMA QuotientsClose ==
    ASSUME NEW d \in Nat \ {0}, NEW n \in Int, NEW m \in Int, n - m <= d, m - n <= d
    PROVE  _round(n, d) - _round(m, d) \in -1..1
<1> DEFINE q == _round(n, d)
           r == _round(m, d)
           dq == d * q
           dr == d * r
<1>1. q \in Int /\ r \in Int
  BY RoundBracket
<1>2. /\ 2 * dq <= 2 * n + d /\ 2 * n + d < 2 * dq + 2 * d
      /\ 2 * dr <= 2 * m + d /\ 2 * m + d < 2 * dr + 2 * d
      /\ dq \in Int /\ dr \in Int
  <2>1. /\ 2 * d * q <= 2 * n + d /\ 2 * n + d < 2 * d * (q + 1)
        /\ 2 * d * r <= 2 * m + d /\ 2 * m + d < 2 * d * (r + 1)
    BY RoundBracket
  <2> HIDE DEF q, r
  <2>2. /\ 2 * d * q = 2 * dq /\ 2 * d * (q + 1) = 2 * dq + 2 * d
        /\ 2 * d * r = 2 * dr /\ 2 * d * (r + 1) = 2 * dr + 2 * d
        /\ dq \in Int /\ dr \in Int
    BY <1>1
  <2> QED BY <2>1, <2>2
<1>3. d * (q - r) = dq - dr
  <2> HIDE DEF q, r
  <2> QED BY <1>1
<1>4. dq - dr < 2 * d /\ dr - dq < 2 * d
  <2> HIDE DEF dq, dr
  <2> QED BY <1>2
<1> HIDE DEF q, r, dq, dr
<1>5. ASSUME q - r >= 2 PROVE FALSE
  <2>1. d * (q - r) >= d * 2
    BY <1>1, <1>5
  <2> QED BY <1>2, <1>3, <1>4, <2>1
<1>6. ASSUME q - r <= -2 PROVE FALSE
  <2>1. d * (q - r) <= d * (-2)
    BY <1>1, <1>6
  <2> QED BY <1>2, <1>3, <1>4, <2>1
<1> QED BY <1>1, <1>5, <1>6 DEF q, r

\* A paisa more or less of what is taxed moves the tax by at most a paisa.
LEMMA TaxClose ==
    ASSUME NEW t \in Nat, NEW u \in Nat, t - u \in -1..1,
           NEW d \in Nat \ {0}, NEW r \in 0..d
    PROVE  _round(t * r, d) - _round(u * r, d) \in -1..1
<1> DEFINE n == t * r
           m == u * r
<1>1. n \in Int /\ m \in Int
  OBVIOUS
<1>2. n - m <= d /\ m - n <= d
  <2>1. CASE t = u
    BY <2>1
  <2>2. CASE t = u + 1
    <3>1. n = m + r
      BY <2>2
    <3> QED BY <1>1, <3>1
  <2>3. CASE u = t + 1
    <3>1. m = n + r
      BY <2>3
    <3> QED BY <1>1, <3>1
  <2> QED BY <2>1, <2>2, <2>3
<1> HIDE DEF n, m
<1>3. _round(n, d) - _round(m, d) \in -1..1
  BY <1>1, <1>2, QuotientsClose
<1> QED BY <1>3 DEF n, m

(***************************************************************************)
(* Rounding a value and its discount apart, or what is left of it at once, *)
(* gives amounts at most a paisa apart.                                    *)
(***************************************************************************)
LEMMA RemainderClose ==
    ASSUME NEW g \in Nat, NEW d \in Nat \ {0}, NEW p \in Nat \ {0}, NEW x \in 0..p
    PROVE  _round(g, d) - _round(g * x, d * p) - _round(g * (p - x), d * p) \in -1..1
<1> DEFINE a == _round(g, d)
           b == _round(g * x, d * p)
           c == _round(g * (p - x), d * p)
           e == d * p
           ea == e * a
           eb == e * b
           ec == e * c
           gp == g * p
           gx == g * x
           gy == g * (p - x)
<1>1. /\ e \in Nat \ {0} /\ gp \in Nat /\ gx \in Nat /\ gy \in Nat
      /\ gy = gp - gx
  OBVIOUS
<1>2. a \in Int /\ b \in Int /\ c \in Int
  <2> HIDE DEF gx, gy, e
  <2>1. _round(gx, e) \in Int /\ _round(gy, e) \in Int /\ _round(g, d) \in Int
    BY <1>1, RoundBracket
  <2> QED BY <2>1 DEF gx, gy, e
<1>3. 2 * ea <= 2 * gp + e /\ 2 * gp + e < 2 * ea + 2 * e
  <2>1. 2 * d * a <= 2 * g + d /\ 2 * g + d < 2 * d * (a + 1)
    BY RoundBracket
  <2> DEFINE low == 2 * d * a
             mid == 2 * g + d
             high == 2 * d * (a + 1)
  <2>2. /\ p * low = 2 * ea /\ p * mid = 2 * gp + e /\ p * high = 2 * ea + 2 * e
        /\ low \in Int /\ mid \in Int /\ high \in Int
    <3> HIDE DEF a
    <3> QED BY <1>2
  <2>3. low <= mid /\ mid < high
    BY <2>1
  <2>4. p * low <= p * mid /\ p * mid < p * high
    <3> HIDE DEF low, mid, high
    <3> QED BY <2>2, <2>3
  <2> QED BY <2>2, <2>4
<1>4. 2 * eb <= 2 * gx + e /\ 2 * gx + e < 2 * eb + 2 * e
  <2> HIDE DEF gx, e
  <2>1. b = _round(gx, e)
    BY DEF gx, e
  <2>2. 2 * e * b <= 2 * gx + e /\ 2 * gx + e < 2 * e * (b + 1)
    BY <1>1, <2>1, RoundBracket
  <2> HIDE DEF b
  <2>3. 2 * e * b = 2 * eb /\ 2 * e * (b + 1) = 2 * eb + 2 * e
    BY <1>1, <1>2
  <2> QED BY <2>2, <2>3
<1>5. 2 * ec <= 2 * gy + e /\ 2 * gy + e < 2 * ec + 2 * e
  <2> HIDE DEF gy, e
  <2>1. c = _round(gy, e)
    BY DEF gy, e
  <2>2. 2 * e * c <= 2 * gy + e /\ 2 * gy + e < 2 * e * (c + 1)
    BY <1>1, <2>1, RoundBracket
  <2> HIDE DEF c
  <2>3. 2 * e * c = 2 * ec /\ 2 * e * (c + 1) = 2 * ec + 2 * e
    BY <1>1, <1>2
  <2> QED BY <2>2, <2>3
<1>6. ea \in Int /\ eb \in Int /\ ec \in Int /\ e * (a - b - c) = ea - eb - ec
  <2> HIDE DEF a, b, c, e
  <2> QED BY <1>1, <1>2
<1> HIDE DEF ea, eb, ec, e, gp, gx, gy, a, b, c
<1>7. 2 * (ea - eb - ec) < 3 * e /\ 2 * (ea - eb - ec) > -(3 * e)
  BY <1>1, <1>3, <1>4, <1>5, <1>6
<1>8. ASSUME a - b - c >= 2 PROVE FALSE
  <2>1. e * (a - b - c) >= e * 2
    BY <1>1, <1>2, <1>8
  <2> QED BY <1>1, <1>6, <1>7, <2>1
<1>9. ASSUME a - b - c <= -2 PROVE FALSE
  <2>1. e * (a - b - c) <= e * (-2)
    BY <1>1, <1>2, <1>9
  <2> QED BY <1>1, <1>6, <1>7, <2>1
<1>10. a - b - c \in -1..1
  BY <1>2, <1>8, <1>9
<1> QED BY <1>10, Zenon DEF a, b, c

\* A rate of 100 %, in thousandths of a percent.
Whole == 100000

LEMMA RatesAreShares ==
    /\ Whole \in Nat \ {0}
    /\ GST_RATE_SLABS \subseteq 0..Whole
    /\ \A t, r : integrated_tax(t, r) = _round(t * r, Whole)
<1>1. Whole \in Nat \ {0}
  BY SMT DEF Whole
<1>2. GST_RATE_SLABS \subseteq 0..Whole
  <2>1. \A rate \in GST_RATE_SLABS : rate \in Int /\ 0 <= rate /\ rate <= Whole
    BY SMTT(60) DEF GST_RATE_SLABS, Whole
  <2>2. \A rate \in GST_RATE_SLABS : rate \in 0..Whole
    BY <1>1, <2>1
  <2> QED BY <2>2, Zenon
<1>3. \A t, r : integrated_tax(t, r) = _round(t * r, Whole)
  BY SMT DEF Whole, integrated_tax
<1> QED BY <1>1, <1>2, <1>3

(***************************************************************************)
(* The total the server computes for an item and the total of a client     *)
(* that rounds late are a few paise apart.                                 *)
(***************************************************************************)
LEMMA LateRounding ==
    ASSUME NEW supply \in Supplies, NEW item \in Models(supply)
    PROVE  /\ late_rounded_total(item) \in Nat
           /\ item.breakdown.line_total - late_rounded_total(item) \in -4..4
<1>1. PICK line \in Lines :
          /\ line.gst_rate \in GST_RATE_SLABS
          /\ item = line_item_model(line, breakdown_of(line, supply))
  BY DEF Models, validate_gst_rate
<1> DEFINE g == line.quantity * line.rate
           x == line.discount_percent
           d == QUANTITY_SCALE * RATE_SCALE
           p == 100 * PERCENT_SCALE
           t == calculate_taxable_amount(line.quantity, line.rate, discount_of(line))
           u == _round(g * (p - x), d * p)
           r == line.gst_rate
           s == line.cess_rate
           k == 100 * CESS_SCALE
<1>2. /\ line.quantity \in Nat \ {0} /\ line.rate \in Nat \ {0} /\ x \in 0..p
      /\ s \in 0..k
  BY LinesAssumption
<1>3. r \in 0..Whole /\ r \in Nat /\ Whole \in Nat \ {0}
  <2>1. r \in 0..Whole /\ Whole \in Nat \ {0}
    BY <1>1, RatesAreShares
  <2> HIDE DEF r
  <2> QED BY <2>1
<1>4. /\ g \in Nat /\ d \in Nat \ {0} /\ p \in Nat \ {0} /\ k \in Nat \ {0}
      /\ d * p = QUANTITY_SCALE * RATE_SCALE * 100 * PERCENT_SCALE
      /\ g * x = line.quantity * line.rate * x
      /\ g * (p - x) = line.quantity * line.rate * (p - x)
  BY <1>2, ScaleAssumption
<1>5. t \in Nat
  BY LineAmounts
<1>6. t = _round(g, d) - _round(g * x, d * p)
  BY <1>4 DEF calculate_taxable_amount, gross_value, discount_of, line_discount
<1>7. u \in Nat
  <2>1. g * (p - x) \in Nat /\ d * p \in Nat \ {0}
    <3> HIDE DEF g, d, p, x
    <3> QED BY <1>2, <1>4
  <2> HIDE DEF g, d, p, x
  <2> QED BY <2>1, RoundNat
<1>8. t - u \in -1..1
  <2> HIDE DEF g, d, p, x, t
  <2>1. _round(g, d) - _round(g * x, d * p) - u \in -1..1
    BY <1>2, <1>4, RemainderClose
  <2> HIDE DEF u
  <2> QED BY <1>6, <2>1
<1>9. /\ item.line = line
      /\ item.breakdown = calculate_line_item_tax(t, r, supply, s)
  BY <1>1 DEF line_item_model, breakdown_of
<1>10. late_rounded_total(item) = u + integrated_tax(u, r) + cess(u, s)
  <2> DEFINE l == item.line
             v == _round(l.quantity * l.rate * (100 * PERCENT_SCALE - l.discount_percent),
                         QUANTITY_SCALE * RATE_SCALE * 100 * PERCENT_SCALE)
  <2>1. late_rounded_total(item) = v + integrated_tax(v, l.gst_rate) + cess(v, l.cess_rate)
    BY DEF late_rounded_total
  <2>2. v = u
    BY <1>4, <1>9
  <2>3. l.gst_rate = r /\ l.cess_rate = s
    BY <1>9
  <2> HIDE DEF u, v, r, s, l
  <2> QED BY <2>1, <2>2, <2>3
<1> DEFINE h == half_tax(t, r)
           w == integrated_tax(t, r)
           c == cess(t, s)
           y == integrated_tax(u, r)
           z == cess(u, s)
<1>11. item.breakdown.line_total =
           IF supply = "intrastate" THEN t + h + h + 0 + c ELSE t + 0 + 0 + w + c
  <2> HIDE DEF t, r, s
  <2> QED BY <1>9 DEF calculate_line_item_tax
<1>12. /\ w - y \in -1..1 /\ c - z \in -1..1
  <2> HIDE DEF t, u, r, s, k
  <2>1. w = _round(t * r, Whole) /\ y = _round(u * r, Whole)
    BY RatesAreShares
  <2>2. c = _round(t * s, k) /\ z = _round(u * s, k)
    BY DEF cess, k
  <2>3. _round(t * r, Whole) - _round(u * r, Whole) \in -1..1
    BY <1>3, <1>5, <1>7, <1>8, TaxClose
  <2>4. k \in Nat \ {0} /\ s \in 0..k
    BY <1>2, <1>4 DEF s, k
  <2>5. _round(t * s, k) - _round(u * s, k) \in -1..1
    BY <1>5, <1>7, <1>8, <2>4, TaxClose
  <2> HIDE DEF w, y, c, z
  <2> QED BY <2>1, <2>2, <2>3, <2>5
<1>13. /\ h \in Int /\ w \in Nat /\ c \in Nat /\ y \in Nat /\ z \in Nat
  <2> HIDE DEF t, u, r, s, k
  <2>1. t * r \in Nat /\ u * r \in Nat /\ t * s \in Nat /\ u * s \in Nat
    BY <1>2, <1>3, <1>4, <1>5, <1>7
  <2>2. w = _round(t * r, Whole) /\ y = _round(u * r, Whole)
    BY RatesAreShares
  <2>3. c = _round(t * s, k) /\ z = _round(u * s, k)
    BY DEF cess, k
  <2>4. h \in Int
    <3>1. h = _round(t * r, 200000)
      BY SMT DEF half_tax
    <3>2. t * r \in Int /\ 200000 \in Nat \ {0}
      BY <2>1, SMT
    <3> HIDE DEF h
    <3> QED BY <3>1, <3>2, RoundBracket, SMT
  <2> HIDE DEF h, w, y, c, z
  <2> QED BY <1>3, <1>4, <2>1, <2>2, <2>3, <2>4, RoundNat
<1>14. 2 * h - w \in -1..1
  <2> HIDE DEF t, r, h, w
  <2>1. t \in Int /\ r \in Int
    BY <1>3, <1>5
  <2> QED BY <2>1, HalvesAndWhole DEF h, w
<1> HIDE DEF t, u, r, s, h, w, c, y, z
<1>15. late_rounded_total(item) = u + y + z
  BY <1>10 DEF y, z
<1> QED BY <1>5, <1>7, <1>8, <1>11, <1>12, <1>13, <1>14, <1>15

-----------------------------------------------------------------------------
(***************************************************************************)
(* The sums over the lines of an invoice.                                  *)
(***************************************************************************)

\* What is summed of an item.
amounts(item) ==
    [subtotal |-> subtotal_of(item), discount |-> item.discount_amount,
     taxable |-> item.breakdown.taxable_amount, cgst |-> item.breakdown.cgst_amount,
     sgst |-> item.breakdown.sgst_amount, igst |-> item.breakdown.igst_amount,
     cess |-> item.breakdown.cess_amount, total |-> item.total_amount,
     line_total |-> item.breakdown.line_total, late |-> late_rounded_total(item)]

Kinds ==
    {"subtotal", "discount", "taxable", "cgst", "sgst", "igst", "cess", "total",
     "line_total", "late"}

tally(lines) ==
    [kind \in Kinds |-> Sum(DOMAIN lines, [i \in DOMAIN lines |-> amounts(lines[i])[kind]])]

\* What holds of the amounts of an item, and of their sums; `slack' bounds the client's part.
AddsUp(a, slack) ==
    /\ \A kind \in Kinds : a[kind] \in Nat
    /\ a["taxable"] = a["subtotal"] - a["discount"]
    /\ a["total"] = a["taxable"] + a["cgst"] + a["sgst"] + a["igst"] + a["cess"]
    /\ a["line_total"] = a["total"]
    /\ a["line_total"] - a["late"] <= slack
    /\ a["late"] - a["line_total"] <= slack

Balanced(lines) == AddsUp(tally(lines), 4 * Len(lines))

LEMMA SumAddsUp ==
    ASSUME NEW a, NEW b, NEW c, NEW s \in Nat, NEW t \in Nat, AddsUp(a, s), AddsUp(b, t),
           \A kind \in Kinds : c[kind] = a[kind] + b[kind]
    PROVE  AddsUp(c, s + t)
<1>1. \A kind \in Kinds :
         c[kind] = a[kind] + b[kind] /\ a[kind] \in Nat /\ b[kind] \in Nat
  BY DEF AddsUp
<1>2. \A kind \in Kinds : c[kind] \in Nat
  BY <1>1
<1>3. c["taxable"] = c["subtotal"] - c["discount"]
  BY <1>1 DEF AddsUp, Kinds
<1>4. c["total"] = c["taxable"] + c["cgst"] + c["sgst"] + c["igst"] + c["cess"]
  BY <1>1 DEF AddsUp, Kinds
<1>5. c["line_total"] = c["total"]
  BY <1>1 DEF AddsUp, Kinds
<1>6. c["line_total"] - c["late"] <= s + t /\ c["late"] - c["line_total"] <= s + t
  BY <1>1 DEF AddsUp, Kinds
<1> QED BY <1>2, <1>3, <1>4, <1>5, <1>6 DEF AddsUp

LEMMA AmountsAddUp ==
    ASSUME NEW supply \in Supplies, NEW item \in Models(supply)
    PROVE  AddsUp(amounts(item), 4)
<1> DEFINE b == item.breakdown
<1>1. /\ subtotal_of(item) \in Nat /\ item.discount_amount \in Nat
      /\ b.taxable_amount \in Nat /\ b.cgst_amount \in Nat
      /\ b.sgst_amount \in Nat /\ b.igst_amount \in Nat
      /\ b.cess_amount \in Nat /\ item.total_amount \in Nat
      /\ b.line_total \in Nat
      /\ b.taxable_amount = subtotal_of(item) - item.discount_amount
      /\ item.total_amount
           = b.taxable_amount + b.cgst_amount + b.sgst_amount + b.igst_amount
               + b.cess_amount
      /\ b.line_total = item.total_amount
  BY ModelFigures
<1>2. late_rounded_total(item) \in Nat /\ b.line_total - late_rounded_total(item) \in -4..4
  BY LateRounding
<1>3. \A kind \in Kinds : amounts(item)[kind] \in Nat
  BY <1>1, <1>2 DEF amounts, Kinds
<1> QED BY <1>1, <1>2, <1>3 DEF AddsUp, amounts

LEMMA BalancedEmpty == Balanced(<< >>)
<1>1. DOMAIN << >> = {} /\ 4 * Len(<< >>) = 0
  OBVIOUS
<1>2. \A kind \in Kinds : tally(<< >>)[kind] = 0
  BY <1>1, SumEmpty DEF tally
<1>3. AddsUp(tally(<< >>), 0)
  <2> DEFINE a == tally(<< >>)
  <2>1. \A kind \in Kinds : a[kind] = 0
    BY <1>2
  <2> HIDE DEF a
  <2>2. \A kind \in Kinds : a[kind] \in Nat
    BY <2>1
  <2>3. /\ a["taxable"] = 0 /\ a["subtotal"] = 0 /\ a["discount"] = 0 /\ a["total"] = 0
        /\ a["cgst"] = 0 /\ a["sgst"] = 0 /\ a["igst"] = 0 /\ a["cess"] = 0
        /\ a["line_total"] = 0 /\ a["late"] = 0
    BY <2>1 DEF Kinds
  <2>4. AddsUp(a, 0)
    BY <2>2, <2>3 DEF AddsUp
  <2> QED BY <2>4 DEF a
<1> QED BY <1>1, <1>3 DEF Balanced

\* One more item adds its amounts.
LEMMA TallyAppend ==
    ASSUME NEW supply \in Supplies, NEW lines \in Seq(Models(supply)),
           NEW item \in Models(supply), NEW kind \in Kinds
    PROVE  tally(Append(lines, item))[kind] = tally(lines)[kind] + amounts(item)[kind]
<1> DEFINE n == Len(lines)
           longer == Append(lines, item)
           old == [i \in DOMAIN lines |-> amounts(lines[i])[kind]]
           new == [i \in DOMAIN longer |-> amounts(longer[i])[kind]]
<1>1. /\ n \in Nat /\ DOMAIN lines = 1..n /\ DOMAIN longer = 1..(n + 1)
      /\ longer \in Seq(Models(supply))
      /\ \A i \in 1..n : longer[i] = lines[i]
      /\ longer[n + 1] = item
  OBVIOUS
<1>2. \A i \in 1..(n + 1) : longer[i] \in Models(supply)
  <2> HIDE DEF longer
  <2> QED BY <1>1
<1>3. /\ 1..(n + 1) = (1..n) \cup {n + 1} /\ n + 1 \notin 1..n
      /\ IsFiniteSet(1..n)
  <2> HIDE DEF n
  <2>1. 1..(n + 1) = (1..n) \cup {n + 1} /\ n + 1 \notin 1..n
    BY <1>1
  <2>2. IsFiniteSet(1..n)
    BY <1>1, FS_Interval
  <2> QED BY <2>1, <2>2
<1>4. new \in [1..(n + 1) -> Nat]
  <2> HIDE DEF longer, n
  <2>1. ASSUME NEW m \in Models(supply) PROVE amounts(m)[kind] \in Nat
    BY AmountsAddUp DEF AddsUp
  <2> QED BY <1>1, <1>2, <2>1
<1>5. \A i \in 1..n : new[i] = old[i]
  <2> HIDE DEF longer, n
  <2> QED BY <1>1
<1>6. new[n + 1] = amounts(item)[kind]
  <2> HIDE DEF longer, n
  <2> QED BY <1>1
<1>7. tally(longer)[kind] = Sum(1..(n + 1), new) /\ tally(lines)[kind] = Sum(1..n, old)
  BY <1>1 DEF tally
<1> HIDE DEF n, longer, old, new
<1>8. Sum(1..n, new) = Sum(1..n, old)
  BY <1>5, SumSame
<1>9. Sum((1..n) \cup {n + 1}, new) = Sum(1..n, new) + new[n + 1]
  BY <1>3, <1>4, SumAdd
<1>10. Sum(1..(n + 1), new) = Sum(1..n, new) + new[n + 1]
  BY <1>3, <1>9
<1> QED BY <1>6, <1>7, <1>8, <1>10 DEF longer

LEMMA BalancedAppend ==
    ASSUME NEW supply \in Supplies, NEW lines \in Seq(Models(supply)),
           NEW item \in Models(supply), Balanced(lines)
    PROVE  Balanced(Append(lines, item))
<1>1. /\ Len(Append(lines, item)) = Len(lines) + 1
      /\ 4 * Len(Append(lines, item)) = 4 * Len(lines) + 4
      /\ 4 * Len(lines) \in Nat
  OBVIOUS
<1>2. \A kind \in Kinds :
         tally(Append(lines, item))[kind] = tally(lines)[kind] + amounts(item)[kind]
  BY TallyAppend
<1>3. AddsUp(tally(lines), 4 * Len(lines)) /\ AddsUp(amounts(item), 4)
  BY AmountsAddUp DEF Balanced
<1>4. AddsUp(tally(Append(lines, item)), 4 * Len(lines) + 4)
  BY <1>1, <1>2, <1>3, SumAddsUp
<1> QED BY <1>1, <1>4 DEF Balanced

(***************************************************************************)
(* The sums of the code are these sums.                                    *)
(***************************************************************************)
LEMMA SumsAreTallies ==
    /\ sum_of(subtotal_of) = tally(items)["subtotal"]
    /\ sum_of(LAMBDA i : i.discount_amount) = tally(items)["discount"]
    /\ sum_of(LAMBDA i : i.breakdown.taxable_amount) = tally(items)["taxable"]
    /\ sum_of(LAMBDA i : i.breakdown.cgst_amount) = tally(items)["cgst"]
    /\ sum_of(LAMBDA i : i.breakdown.sgst_amount) = tally(items)["sgst"]
    /\ sum_of(LAMBDA i : i.breakdown.igst_amount) = tally(items)["igst"]
    /\ sum_of(LAMBDA i : i.breakdown.cess_amount) = tally(items)["cess"]
    /\ sum_of(LAMBDA i : i.total_amount) = tally(items)["total"]
    /\ sum_of(LAMBDA i : i.breakdown.line_total) = tally(items)["line_total"]
    /\ sum_of(late_rounded_total) = tally(items)["late"]
BY DEF sum_of, tally, amounts, Kinds

-----------------------------------------------------------------------------
(***************************************************************************)
(* Nothing the insert asks for can be missing.                             *)
(***************************************************************************)

\* A sum of zeros is zero.
LEMMA TallyOfZeros ==
    ASSUME NEW kind \in Kinds, \A i \in DOMAIN items : amounts(items[i])[kind] = 0
    PROVE  tally(items)[kind] = 0
<1> DEFINE none == [i \in DOMAIN items |-> amounts(items[i])[kind]]
<1>1. Paise(DOMAIN items, none) = {}
  BY DEF Paise
<1>2. Sum(DOMAIN items, none) = 0
  BY <1>1, FS_EmptySet DEF Sum
<1> QED BY <1>2 DEF tally

\* The header is a row of invoices, and its CHECK constraints hold.
LEMMA HeaderStorable ==
    ASSUME request \in Requests, Priced, Balanced(items)
    PROVE  header \in Header /\ header_storable(header)
<1> DEFINE a == tally(items)
<1>1. supply_type \in Supplies
  BY DEF Supplies, supply_type, determine_supply_type
<1>2. \A kind \in Kinds : a[kind] \in Nat
  BY DEF Balanced, AddsUp
<1>3. header =
        [invoice_type |-> request.invoice_type, supply_type |-> supply_type,
         place_of_supply |-> place_of_supply,
         reverse_charge |-> ~request.party.registered,
         subtotal |-> a["subtotal"], discount_amount |-> a["discount"],
         taxable_amount |-> a["taxable"], cgst_amount |-> a["cgst"],
         sgst_amount |-> a["sgst"], igst_amount |-> a["igst"], cess_amount |-> a["cess"],
         total_amount |-> a["taxable"] + a["cgst"] + a["sgst"] + a["igst"] + a["cess"]]
  BY SumsAreTallies DEF header
<1> HIDE DEF a
<1>4. /\ a["subtotal"] \in Nat /\ a["discount"] \in Nat /\ a["taxable"] \in Nat
      /\ a["cgst"] \in Nat /\ a["sgst"] \in Nat /\ a["igst"] \in Nat /\ a["cess"] \in Nat
  BY <1>2 DEF Kinds
<1>5. a["taxable"] + a["cgst"] + a["sgst"] + a["igst"] + a["cess"] \in Nat
  BY <1>4
<1>6. header \in Header
  <2>1. place_of_supply
          \in {determine_place_of_supply(r.tenant_state, r.party, r.is_service) :
                  r \in Requests}
    BY DEF place_of_supply
  <2>2. request.invoice_type \in {r.invoice_type : r \in Requests}
    OBVIOUS
  <2>3. supply_type \in {"intrastate", "interstate"}
    BY <1>1 DEF Supplies
  <2>4. (~request.party.registered) \in BOOLEAN
    OBVIOUS
  <2> QED BY <1>3, <1>4, <1>5, <2>1, <2>2, <2>3, <2>4 DEF Header
<1>7. \A i \in DOMAIN items : items[i] \in Models(supply_type)
  BY DEF Priced
<1>8. supply_type = "intrastate" => a["igst"] = 0
  <2> SUFFICES ASSUME supply_type = "intrastate" PROVE a["igst"] = 0
    OBVIOUS
  <2>1. ASSUME NEW i \in DOMAIN items PROVE amounts(items[i])["igst"] = 0
    <3>1. items[i].breakdown.igst_amount = 0
      BY <1>1, <1>7, ModelFigures
    <3> QED BY <3>1 DEF amounts
  <2> QED BY <2>1, TallyOfZeros DEF a, Kinds
<1>9. supply_type = "interstate" => a["cgst"] = 0 /\ a["sgst"] = 0
  <2> SUFFICES ASSUME supply_type = "interstate" PROVE a["cgst"] = 0 /\ a["sgst"] = 0
    OBVIOUS
  <2>1. ASSUME NEW i \in DOMAIN items
        PROVE  amounts(items[i])["cgst"] = 0 /\ amounts(items[i])["sgst"] = 0
    <3>1. items[i].breakdown.cgst_amount = 0 /\ items[i].breakdown.sgst_amount = 0
      BY <1>1, <1>7, ModelFigures
    <3> QED BY <3>1 DEF amounts
  <2> QED BY <2>1, TallyOfZeros DEF a, Kinds
<1>10. /\ header.supply_type = supply_type
       /\ header.cgst_amount = a["cgst"] /\ header.sgst_amount = a["sgst"]
       /\ header.igst_amount = a["igst"]
  BY <1>3
<1>11. \A column \in amount_columns : header[column] >= 0
  <2>1. /\ header.subtotal \in Nat /\ header.taxable_amount \in Nat
        /\ header.total_amount \in Nat /\ header.discount_amount \in Nat
        /\ header.cgst_amount \in Nat /\ header.sgst_amount \in Nat
        /\ header.igst_amount \in Nat /\ header.cess_amount \in Nat
    BY <1>6 DEF Header
  <2> QED BY <2>1 DEF amount_columns
<1> QED BY <1>1, <1>6, <1>8, <1>9, <1>10, <1>11 DEF header_storable, Supplies

\* So do those of its lines.
LEMMA ItemStorable ==
    ASSUME NEW supply \in Supplies, NEW item \in Models(supply)
    PROVE  item_storable(item)
<1> DEFINE b == item.breakdown
<1>1. /\ item.line \in Lines
      /\ b.taxable_amount \in Nat /\ b.cgst_amount \in Nat /\ b.sgst_amount \in Nat
      /\ b.igst_amount \in Nat /\ b.cess_amount \in Nat /\ b.gst_rate \in GST_RATE_SLABS
      /\ item.total_amount
           = b.taxable_amount + b.cgst_amount + b.sgst_amount + b.igst_amount
               + b.cess_amount
  BY ModelFigures
<1>2. \/ b.igst_amount = 0 /\ b.igst_rate = 0
      \/ b.cgst_amount = 0 /\ b.sgst_amount = 0 /\ b.cgst_rate = 0 /\ b.sgst_rate = 0
  BY ModelFigures DEF Supplies
<1>3. /\ item.line.quantity > 0 /\ item.line.rate > 0
      /\ item.line.discount_percent \in 0..(100 * PERCENT_SCALE)
      /\ item.line.hsn_sac_code # NoCode => item.line.hsn_sac_code.digits \in 4..8
  BY <1>1, LinesAssumption
<1>4. item.total_amount >= b.taxable_amount /\ b.taxable_amount >= 0
  BY <1>1
<1> QED BY <1>1, <1>2, <1>3, <1>4 DEF item_storable

DraftInv ==
    /\ request \in Requests
    /\ outcome \in {"pricing", "created", "overflow", "invalid_operation"}
    /\ Priced
    /\ Len(items) <= MAX_LINES
    /\ Balanced(items)
    /\ invoice = IF outcome = "created" THEN header ELSE NoInvoice

\* No CHECK constraint refuses the insert.
LEMMA NoConstraintMet ==
    ASSUME DraftInv
    PROVE  /\ header_storable(header)
           /\ \A i \in DOMAIN items : item_storable(items[i])
           /\ inserted \in {"created", "overflow"}
<1>1. header_storable(header)
  BY HeaderStorable DEF DraftInv
<1>2. supply_type \in Supplies
  BY DEF Supplies, supply_type, determine_supply_type
<1>3. \A i \in DOMAIN items : item_storable(items[i])
  BY <1>2, ItemStorable DEF DraftInv, Priced
<1> QED BY <1>1, <1>3 DEF inserted

LEMMA DraftInvariance == Spec => []DraftInv
<1>1. Init => DraftInv
  <2> SUFFICES ASSUME Init PROVE DraftInv
    OBVIOUS
  <2>1. Priced /\ Len(items) <= MAX_LINES
    BY BoundAssumption DEF Init, Priced
  <2>2. Balanced(items)
    BY BalancedEmpty DEF Init
  <2> QED BY <2>1, <2>2 DEF Init, DraftInv
<1>2. DraftInv /\ Priced' /\ [Next]_vars => DraftInv'
  <2> SUFFICES ASSUME DraftInv, Priced', [Next]_vars PROVE DraftInv'
    OBVIOUS
  <2>1. supply_type \in Supplies
    BY DEF Supplies, supply_type, determine_supply_type
  <2>2. ASSUME NEW line \in Lines, PriceLine(line) PROVE DraftInv'
    <3> DEFINE item == line_item_model(line, breakdown_of(line, supply_type))
    <3>1. ~taxable_amount_raises(line.quantity, line.rate, discount_of(line))
      BY DiscountFits
    <3>2. /\ outcome = "pricing" /\ outcome' = outcome /\ invoice' = invoice
          /\ request' = request /\ Len(items) < MAX_LINES /\ items' = Append(items, item)
      BY <2>2, <3>1 DEF PriceLine
    <3>3. item \in Models(supply_type)
      BY <2>2 DEF PriceLine, line_allowed, Models
    <3> HIDE DEF item
    <3>4. Len(items) \in Nat /\ Len(items') = Len(items) + 1
      BY <3>2, <3>3 DEF DraftInv, Priced
    <3>5. Balanced(items')
      BY <2>1, <3>2, <3>3, BalancedAppend DEF DraftInv, Priced
    <3>6. Balanced(items)'
      BY <3>5
    <3>7. invoice' = NoInvoice
      BY <3>2 DEF DraftInv
    <3>8. Len(items') <= MAX_LINES
      BY <3>2, <3>4, BoundAssumption
    <3> QED BY <3>2, <3>6, <3>7, <3>8 DEF DraftInv
  <2>3. ASSUME NEW declared, Create(declared) PROVE DraftInv'
    <3>1. inserted \in {"created", "overflow"}
      BY NoConstraintMet
    <3>2. invoice = NoInvoice
      BY <2>3 DEF Create, DraftInv
    <3>3. /\ outcome' \in {"created", "overflow", "invalid_operation"}
          /\ invoice' = IF outcome' = "created" THEN header ELSE NoInvoice
          /\ request' = request /\ items' = items
      BY <2>3, <3>1, <3>2 DEF Create
    <3>4. header' = header
      BY <3>3 DEF header, supply_type, place_of_supply, sum_of
    <3>5. Balanced(items)'
      BY <3>3 DEF DraftInv
    <3> QED BY <3>3, <3>4, <3>5 DEF DraftInv
  <2>4. CASE UNCHANGED vars
    <3>1. /\ request' = request /\ items' = items /\ invoice' = invoice
          /\ outcome' = outcome
      BY <2>4 DEF vars
    <3>2. header' = header
      BY <3>1 DEF header, supply_type, place_of_supply, sum_of
    <3>3. Balanced(items)'
      BY <3>1 DEF DraftInv
    <3> QED BY <3>1, <3>2, <3>3 DEF DraftInv
  <2> QED BY <2>2, <2>3, <2>4 DEF Next
<1> QED BY <1>1, <1>2, ItemsAreModels, PTL DEF Spec

(***************************************************************************)
(* Every figure of an invoice is a natural number of its unit, and there   *)
(* is a header exactly when the invoice has been created.                  *)
(***************************************************************************)
THEOREM DraftTypeCorrect == Spec => []TypeOK
<1>1. DraftInv => TypeOK
  <2> SUFFICES ASSUME DraftInv PROVE TypeOK
    OBVIOUS
  <2>1. header \in Header
    BY HeaderStorable DEF DraftInv
  <2>2. invoice \in Header \cup {NoInvoice}
    BY <2>1 DEF DraftInv
  <2>3. (outcome = "created") <=> (invoice # NoInvoice)
    BY <2>1, NoInvoiceAssumption DEF DraftInv
  <2>4. ASSUME NEW i \in DOMAIN items
        PROVE  /\ items[i].line \in Lines
               /\ items[i].discount_amount \in Nat
               /\ items[i].total_amount \in Nat
               /\ \A figure \in DOMAIN items[i].breakdown :
                     items[i].breakdown[figure] \in Nat
    <3> DEFINE item == items[i]
    <3>1. supply_type \in Supplies /\ item \in Models(supply_type)
      BY DEF Supplies, supply_type, determine_supply_type, DraftInv, Priced
    <3> HIDE DEF item
    <3>2. GST_RATE_SLABS \subseteq Nat
      BY RatesAreShares
    <3>3. item.line \in Lines /\ item.discount_amount \in Nat /\ item.total_amount \in Nat
      BY <3>1, ModelFigures
    <3>4. \A figure \in DOMAIN item.breakdown : item.breakdown[figure] \in Nat
      BY <3>1, <3>2, ModelFigures
    <3> QED BY <3>3, <3>4 DEF item
  <2> QED BY <2>2, <2>3, <2>4 DEF DraftInv, TypeOK
<1> QED BY <1>1, DraftInvariance, PTL

\* No line has more of anything than the whole invoice.
LEMMA LineWithinTally ==
    ASSUME DraftInv, NEW i \in DOMAIN items, NEW kind \in Kinds
    PROVE  /\ amounts(items[i])[kind] \in Nat
           /\ amounts(items[i])[kind] <= tally(items)[kind]
<1> DEFINE S == DOMAIN items
           f == [j \in S |-> amounts(items[j])[kind]]
           g == [j \in S \ {i} |-> f[j]]
<1>1. supply_type \in Supplies
  BY DEF Supplies, supply_type, determine_supply_type
<1>2. ASSUME NEW j \in S PROVE amounts(items[j])[kind] \in Nat
  <2>1. items[j] \in Models(supply_type)
    BY DEF DraftInv, Priced
  <2> QED BY <1>1, <2>1, AmountsAddUp DEF AddsUp
<1>3. IsFiniteSet(S)
  <2>1. S = 1..Len(items) /\ Len(items) \in Nat
    BY DEF DraftInv, Priced
  <2> QED BY <2>1, FS_Interval
<1>4. f \in [S -> Nat] /\ f[i] = amounts(items[i])[kind]
  BY <1>2
<1>5. tally(items)[kind] = Sum(S, f)
  BY DEF tally
<1> HIDE DEF f, S
<1>6. i \in S
  BY DEF S
<1>7. Sum(S \ {i}, f) = Sum(S, f) - f[i]
  BY <1>3, <1>4, <1>6, SumRemove
<1>8. Sum(S \ {i}, f) \in Nat
  <2>1. g \in [S \ {i} -> Nat] /\ IsFiniteSet(S \ {i})
    BY <1>3, <1>4, FS_Subset
  <2>2. Sum(S \ {i}, f) = Sum(S \ {i}, g)
    BY SumSame
  <2> HIDE DEF g
  <2> QED BY <2>1, <2>2, SumType
<1>9. Sum(S, f) \in Nat /\ f[i] \in Nat
  BY <1>3, <1>4, <1>6, SumType
<1> QED BY <1>4, <1>5, <1>7, <1>8, <1>9

\* The columns of the header, and what bounds them.
LEMMA HeaderBounded ==
    ASSUME DraftInv, fits_columns(header)
    PROVE  /\ \A kind \in Kinds \ {"late"} : tally(items)[kind] <= MAX_MONEY
           /\ header_fits(header)
<1> DEFINE a == tally(items)
<1>1. \A kind \in Kinds : a[kind] \in Nat
  BY DEF DraftInv, Balanced, AddsUp
<1>2. /\ a["taxable"] = a["subtotal"] - a["discount"]
      /\ a["total"] = a["taxable"] + a["cgst"] + a["sgst"] + a["igst"] + a["cess"]
      /\ a["line_total"] = a["total"]
  BY DEF DraftInv, Balanced, AddsUp
<1>3. /\ header.subtotal = a["subtotal"] /\ header.discount_amount = a["discount"]
      /\ header.taxable_amount = a["taxable"]
      /\ header.cgst_amount = a["cgst"] /\ header.sgst_amount = a["sgst"]
      /\ header.igst_amount = a["igst"] /\ header.cess_amount = a["cess"]
      /\ header.total_amount = a["taxable"] + a["cgst"] + a["sgst"] + a["igst"] + a["cess"]
  BY SumsAreTallies DEF header
<1> HIDE DEF a
<1>4. /\ a["subtotal"] \in Nat /\ a["discount"] \in Nat /\ a["taxable"] \in Nat
      /\ a["cgst"] \in Nat /\ a["sgst"] \in Nat /\ a["igst"] \in Nat /\ a["cess"] \in Nat
  BY <1>1 DEF Kinds
<1>5. a["subtotal"] <= MAX_MONEY /\ a["total"] <= MAX_MONEY
  BY <1>2, <1>3 DEF fits_columns
<1>6. /\ a["discount"] <= MAX_MONEY /\ a["taxable"] <= MAX_MONEY
      /\ a["cgst"] <= MAX_MONEY /\ a["sgst"] <= MAX_MONEY
      /\ a["igst"] <= MAX_MONEY /\ a["cess"] <= MAX_MONEY
  BY <1>2, <1>4, <1>5, MagnitudeAssumption
<1>7. \A kind \in Kinds \ {"late"} : a[kind] <= MAX_MONEY
  BY <1>2, <1>5, <1>6 DEF Kinds
<1>8. header_fits(header)
  BY <1>2, <1>3, <1>5, <1>6 DEF header_fits, amount_columns
<1> QED BY <1>7, <1>8 DEF a

\* Then the lines fit as well, and the insert goes through.
LEMMA FittingInserted ==
    ASSUME DraftInv, fits_columns(header)
    PROVE  inserted = "created"
<1>1. ASSUME NEW i \in DOMAIN items PROVE item_fits(items[i])
  <2> DEFINE a == amounts(items[i])
  <2>1. \A kind \in Kinds \ {"late"} : a[kind] <= MAX_MONEY
    <3> SUFFICES ASSUME NEW kind \in Kinds \ {"late"} PROVE a[kind] <= MAX_MONEY
      OBVIOUS
    <3>1. a[kind] \in Nat /\ a[kind] <= tally(items)[kind]
      BY LineWithinTally
    <3>2. tally(items)[kind] <= MAX_MONEY
      BY HeaderBounded
    <3>3. tally(items)[kind] \in Nat
      BY DEF DraftInv, Balanced, AddsUp
    <3> HIDE DEF a
    <3> QED BY <3>1, <3>2, <3>3, MagnitudeAssumption
  <2>2. /\ a["discount"] <= MAX_MONEY /\ a["taxable"] <= MAX_MONEY
        /\ a["cgst"] <= MAX_MONEY /\ a["sgst"] <= MAX_MONEY
        /\ a["igst"] <= MAX_MONEY /\ a["cess"] <= MAX_MONEY /\ a["total"] <= MAX_MONEY
    BY <2>1 DEF Kinds
  <2> QED BY <2>2 DEF item_fits, amounts
<1> QED BY <1>1, HeaderBounded, NoConstraintMet DEF inserted

\* Nor does quantize raise when the declared total fits, too.
LEMMA FittingQuantized ==
    ASSUME DraftInv, fits_columns(header), NEW declared \in Int, declared >= 0,
           declared <= 10 * MAX_MONEY
    PROVE  ~quantize_raises(declared)
<1> DEFINE off == distance(10 * server_computed, declared)
<1>1. server_computed = tally(items)["line_total"]
  BY SumsAreTallies DEF server_computed
<1>2. server_computed \in Nat /\ server_computed <= MAX_MONEY
  BY <1>1, HeaderBounded DEF DraftInv, Balanced, AddsUp, Kinds
<1>3. off \in Int /\ off <= 10 * MAX_MONEY
  BY <1>2, MagnitudeAssumption DEF distance
<1>4. discrepancy(declared) = _round(off, 10)
  BY DEF discrepancy
<1> HIDE DEF off
<1>5. 2 * off + 10 < 2 * 10 * (MAX_MONEY + 1) /\ MAX_MONEY \in Int /\ 10 \in Nat \ {0}
  BY <1>3, MagnitudeAssumption
<1>6. _round(off, 10) <= MAX_MONEY /\ _round(off, 10) \in Int
  BY <1>3, <1>5, RoundAtMost, RoundBracket
<1> QED BY <1>4, <1>6, MagnitudeAssumption DEF quantize_raises

(***************************************************************************)
(* No request meets a ValueError of calculate_taxable_amount or a CHECK    *)
(* constraint on the amounts, and one whose subtotal, total and declared   *)
(* total fit their columns meets no server error at all.                   *)
(***************************************************************************)
THEOREM ServerErrorsAreOfSize == Spec => FailsForSizeOnly
<1>1. ASSUME DraftInv, [Next]_vars, outcome' \notin {outcome, "created"}
      PROVE  /\ outcome' # "failed"
             /\ fits_columns(header) =>
                   \A offset \in Offsets :
                       LET declared == 10 * server_computed + offset
                       IN  Create(declared) => declared > 10 * MAX_MONEY
  <2>1. outcome' # "failed"
    <3>1. ASSUME NEW line \in Lines, PriceLine(line) PROVE FALSE
      <4>1. ~taxable_amount_raises(line.quantity, line.rate, discount_of(line))
        BY DiscountFits
      <4> QED BY <1>1, <3>1, <4>1 DEF PriceLine
    <3>2. ASSUME NEW declared, Create(declared) PROVE outcome' # "failed"
      BY <1>1, <3>2, NoConstraintMet DEF Create
    <3> QED BY <1>1, <3>1, <3>2 DEF Next, vars
  <2>2. ASSUME fits_columns(header), NEW offset \in Offsets,
               Create(10 * server_computed + offset)
        PROVE  10 * server_computed + offset > 10 * MAX_MONEY
    <3> DEFINE declared == 10 * server_computed + offset
    <3>1. server_computed \in Nat
      BY <1>1, SumsAreTallies DEF server_computed, DraftInv, Balanced, AddsUp, Kinds
    <3>2. declared \in Int /\ declared >= 0
      BY <2>2, <3>1, OffsetsAssumption DEF Create
    <3>3. Create(declared)
      BY <2>2
    <3> HIDE DEF declared
    <3>4. ASSUME declared <= 10 * MAX_MONEY PROVE FALSE
      <4>1. ~quantize_raises(declared) /\ inserted = "created"
        BY <1>1, <2>2, <3>2, <3>4, FittingInserted, FittingQuantized
      <4> QED BY <1>1, <3>3, <4>1 DEF Create
    <3>5. declared > 10 * MAX_MONEY
      BY <3>2, <3>4, MagnitudeAssumption
    <3> QED BY <3>5 DEF declared
  <2> QED BY <2>1, <2>2
<1>2. DraftInv /\ [Next]_vars => [size_to_blame]_vars
  BY <1>1 DEF size_to_blame
<1> QED BY <1>2, DraftInvariance, PTL DEF Spec, FailsForSizeOnly

(***************************************************************************)
(* The stored header and the stored lines add up.                          *)
(***************************************************************************)
THEOREM HeadersAddUp == Spec => []HeaderAddsUp
<1>1. DraftInv => HeaderAddsUp
  <2> SUFFICES ASSUME DraftInv, outcome = "created"
               PROVE  /\ invoice.subtotal - invoice.discount_amount = invoice.taxable_amount
                      /\ invoice.total_amount = sum_of(LAMBDA i : i.total_amount)
    BY DEF HeaderAddsUp
  <2> DEFINE a == tally(items)
  <2>1. /\ invoice.subtotal = a["subtotal"] /\ invoice.discount_amount = a["discount"]
        /\ invoice.taxable_amount = a["taxable"]
        /\ invoice.total_amount
             = a["taxable"] + a["cgst"] + a["sgst"] + a["igst"] + a["cess"]
    BY SumsAreTallies DEF DraftInv, header
  <2>2. /\ a["taxable"] = a["subtotal"] - a["discount"]
        /\ a["total"] = a["taxable"] + a["cgst"] + a["sgst"] + a["igst"] + a["cess"]
    BY DEF DraftInv, Balanced, AddsUp
  <2>3. sum_of(LAMBDA i : i.total_amount) = a["total"]
    BY SumsAreTallies
  <2> HIDE DEF a
  <2> QED BY <2>1, <2>2, <2>3
<1> QED BY <1>1, DraftInvariance, PTL

(***************************************************************************)
(* The tolerance covers every client that rounds later than the server.    *)
(***************************************************************************)
THEOREM HonestTotalsAccepted == Spec => []HonestTotalAccepted
<1>1. DraftInv => HonestTotalAccepted
  <2> SUFFICES ASSUME DraftInv
               PROVE  validate_invoice_arithmetic(10 * sum_of(late_rounded_total))
    BY DEF HonestTotalAccepted
  <2> DEFINE computed == server_computed
             late == sum_of(late_rounded_total)
             n == Len(items)
             off == distance(10 * computed, 10 * late)
  <2>1. /\ computed \in Nat /\ late \in Nat
        /\ computed - late <= 4 * n /\ late - computed <= 4 * n
    BY SumsAreTallies DEF DraftInv, Balanced, AddsUp, Kinds, server_computed
  <2>2. n \in Nat
    BY DEF DraftInv, Priced
  <2> HIDE DEF computed, late, n
  <2>3. off \in Int /\ 2 * off + 10 < 2 * 10 * (4 * n + 1)
    BY <2>1, <2>2 DEF distance
  <2>4. 4 * n \in Int /\ 10 \in Nat \ {0}
    BY <2>2
  <2> HIDE DEF off
  <2>5. _round(off, 10) <= 4 * n /\ _round(off, 10) \in Int
    BY <2>3, <2>4, RoundAtMost, RoundBracket
  <2>6. _round(off, 10) <= tolerance(n)
    BY <2>2, <2>5 DEF tolerance
  <2> QED BY <2>6 DEF validate_invoice_arithmetic, discrepancy, computed, late, n, off
<1> QED BY <1>1, DraftInvariance, PTL

=============================================================================
