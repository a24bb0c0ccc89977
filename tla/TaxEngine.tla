----------------------------- MODULE TaxEngine -----------------------------
(***************************************************************************)
(* app/domain/tax_engine.py and the part of app/domain/business_rules.py   *)
(* that decides how an invoice is taxed.                                   *)
(*                                                                         *)
(* Decimals are integers of a fixed unit: money is in paise, a GST rate in *)
(* thousandths of a percent.  Quantities, prices, discount percentages and *)
(* cess rates have the number of decimals the constants say, so that the   *)
(* instance TLC checks fits in its integers.                               *)
(***************************************************************************)
EXTENDS Integers

CONSTANTS
    QUANTITY_SCALE,     \* units of a quantity, 1000 in the request schema
    RATE_SCALE,         \* units of a price per paisa, 100 in the schema
    PERCENT_SCALE,      \* units of a discount per percent, 100 in the schema
    CESS_SCALE          \* units of a cess rate per percent, unlimited in the schema

ASSUME ScaleAssumption ==
    /\ QUANTITY_SCALE \in Nat \ {0}
    /\ RATE_SCALE \in Nat \ {0}
    /\ PERCENT_SCALE \in Nat \ {0}
    /\ CESS_SCALE \in Nat \ {0}

\* n / d to the nearest integer, halves up; every amount that is rounded is >= 0.
_round(n, d) == (2 * n + d) \div (2 * d)

GST_RATE_SLABS ==
    {0, 100, 125, 250, 750, 1000, 1500, 2500, 3000, 5000, 6000, 7500, 9000,
     12000, 14000, 18000, 28000, 40000}

validate_gst_rate(rate) == rate \in GST_RATE_SLABS

determine_supply_type(supplier_state_code, place_of_supply) ==
    IF supplier_state_code = place_of_supply THEN "intrastate" ELSE "interstate"

\* A party's GSTIN, when it has one, starts with its state code (party_service).
determine_place_of_supply(supplier_state_code, party, is_service) ==
    IF is_service /\ ~party.registered THEN supplier_state_code ELSE party.state_code

-----------------------------------------------------------------------------

gross_value(quantity, rate) == _round(quantity * rate, QUANTITY_SCALE * RATE_SCALE)

\* Planted fault: fractions of a paisa are rounded in the customer's favour.
discount_rounded_up(quantity, rate, percent) ==
    LET d == QUANTITY_SCALE * RATE_SCALE * 100 * PERCENT_SCALE
    IN  (quantity * rate * percent + d - 1) \div d

line_discount(quantity, rate, percent) ==
    _round(quantity * rate * percent, QUANTITY_SCALE * RATE_SCALE * 100 * PERCENT_SCALE)

\* Planted fault: the discount is taken off twice.
taxable_after_double_discount(quantity, rate, discount) ==
    gross_value(quantity, rate) - 2 * discount

calculate_taxable_amount(quantity, rate, discount) == gross_value(quantity, rate) - discount

\* The ValueErrors of calculate_taxable_amount.
taxable_amount_raises(quantity, rate, discount) ==
    quantity <= 0 \/ rate < 0 \/ discount > gross_value(quantity, rate)

\* Planted fault: the central and the state tax are each taken at the full rate.
tax_at_full_rate(taxable, gst_rate) == _round(taxable * gst_rate, 100000)

\* CGST or SGST: half the rate each, rounded each.
half_tax(taxable, gst_rate) == _round(taxable * gst_rate, 200000)

integrated_tax(taxable, gst_rate) == _round(taxable * gst_rate, 100000)

cess(taxable, cess_rate) == _round(taxable * cess_rate, 100 * CESS_SCALE)

\* cgst_rate and sgst_rate are in ten-thousandths of a percent, as in the table.
calculate_line_item_tax(taxable, gst_rate, supply_type, cess_rate) ==
    LET within == supply_type = "intrastate"
        half == IF within THEN half_tax(taxable, gst_rate) ELSE 0
        igst == IF within THEN 0 ELSE integrated_tax(taxable, gst_rate)
    IN  [taxable_amount |-> taxable, gst_rate |-> gst_rate,
         cgst_rate |-> IF within THEN 5 * gst_rate ELSE 0, cgst_amount |-> half,
         sgst_rate |-> IF within THEN 5 * gst_rate ELSE 0, sgst_amount |-> half,
         igst_rate |-> IF within THEN 0 ELSE gst_rate, igst_amount |-> igst,
         cess_rate |-> cess_rate, cess_amount |-> cess(taxable, cess_rate),
         line_total |-> taxable + half + half + igst + cess(taxable, cess_rate)]

total_tax(b) == b.cgst_amount + b.sgst_amount + b.igst_amount + b.cess_amount

-----------------------------------------------------------------------------

\* Turnovers in lakh of rupees.
_HSN_SIX_DIGIT_THRESHOLD == 500
_HSN_FOUR_DIGIT_THRESHOLD == 150

get_required_hsn_digit_count(annual_turnover) ==
    IF annual_turnover > _HSN_SIX_DIGIT_THRESHOLD THEN 6
    ELSE IF annual_turnover > _HSN_FOUR_DIGIT_THRESHOLD THEN 4
    ELSE 0

\* A code is its number of digits and whether it starts with 99.
validate_hsn_sac_code(code, annual_turnover, is_service) ==
    IF is_service THEN code.digits = 6 /\ code.starts_99
    ELSE /\ code.digits \in {2, 4, 6, 8}
         /\ code.digits >= get_required_hsn_digit_count(annual_turnover)

=============================================================================
