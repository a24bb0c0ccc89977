---------------------------- MODULE InvoiceDraft ----------------------------
(***************************************************************************)
(* How _create_invoice_body computes what it stores: the lines one by one, *)
(* then the header, the arithmetic check against the total the client      *)
(* declares, and the insert with its CHECK constraints and its columns of  *)
(* limited size.  Billing starts from the total that comes out.  One       *)
(* request; one that is refused with a business error takes no step, one   *)
(* whose error nobody catches ends in an outcome named for the error.      *)
(***************************************************************************)
EXTENDS TaxEngine, LedgerSums, Sequences

CONSTANTS
    Requests,       \* headers: [invoice_type, is_service, tenant_state, party, annual_turnover]
    Lines,          \* lines that pass the request schema
    Offsets,        \* declared totals off the computed one, in tenths of a paisa
    MAX_LINES,      \* line_items' max_length, 100 in the schema
    MAX_MONEY,      \* what a column Numeric(17, 2) holds, 10^17 - 1 paise
    MAX_QUANTIZED,  \* what quantize returns in 28 digits, 10^28 - 1 paise
    NoCode, NoInvoice

ASSUME BoundAssumption == MAX_LINES \in Nat
ASSUME OffsetsAssumption == Offsets \subseteq Int
ASSUME MagnitudeAssumption ==
    MAX_MONEY \in Nat /\ MAX_QUANTIZED \in Nat /\ MAX_MONEY <= MAX_QUANTIZED

\* What the request schema lets through.
ASSUME LinesAssumption ==
    \A line \in Lines :
        /\ line.quantity \in Nat \ {0}
        /\ line.rate \in Nat \ {0}
        /\ line.discount_percent \in 0..(100 * PERCENT_SCALE)
        /\ line.gst_rate \in Nat
        /\ line.cess_rate \in 0..(100 * CESS_SCALE)
        /\ line.hsn_sac_code # NoCode => line.hsn_sac_code.digits \in 4..8

\* The rows of invoices.
Header ==
    [invoice_type : {r.invoice_type : r \in Requests},
     supply_type : {"intrastate", "interstate"},
     place_of_supply :
        {determine_place_of_supply(r.tenant_state, r.party, r.is_service) : r \in Requests},
     reverse_charge : BOOLEAN, subtotal : Nat, discount_amount : Nat, taxable_amount : Nat,
     cgst_amount : Nat, sgst_amount : Nat, igst_amount : Nat, cess_amount : Nat,
     total_amount : Nat]

ASSUME NoInvoiceAssumption == NoInvoice \notin Header

VARIABLES
    request,
    items,      \* the InvoiceItem objects built so far, and the TaxBreakdown of each
    invoice,    \* the row of invoices
    outcome     \* "pricing", "created", or an error nobody catches: "failed" (a
                \* ValueError or a CHECK constraint), "invalid_operation" (of
                \* quantize), "overflow" (of a column)

vars == <<request, items, invoice, outcome>>

Init ==
    /\ request \in Requests
    /\ items = << >>
    /\ invoice = NoInvoice
    /\ outcome = "pricing"

place_of_supply ==
    determine_place_of_supply(request.tenant_state, request.party, request.is_service)

supply_type == determine_supply_type(request.tenant_state, place_of_supply)

discount_of(line) == line_discount(line.quantity, line.rate, line.discount_percent)

breakdown_of(line, supply) ==
    calculate_line_item_tax(
        calculate_taxable_amount(line.quantity, line.rate, discount_of(line)),
        line.gst_rate, supply, line.cess_rate)

\* _build_line_item_model; total_amount is a computed column.
line_item_model(line, b) ==
    [line |-> line, discount_amount |-> discount_of(line), breakdown |-> b,
     total_amount |-> b.taxable_amount + total_tax(b)]

\* _validate_line_item_business_rules; a line need not have a code.
line_allowed(line) ==
    /\ validate_gst_rate(line.gst_rate)
    /\ line.hsn_sac_code # NoCode =>
          validate_hsn_sac_code(line.hsn_sac_code, request.annual_turnover,
                                request.is_service)

PriceLine(line) ==
    /\ outcome = "pricing"
    /\ Len(items) < MAX_LINES
    /\ line_allowed(line)
    /\ IF taxable_amount_raises(line.quantity, line.rate, discount_of(line))
       THEN outcome' = "failed" /\ UNCHANGED items
       ELSE /\ items' = Append(items, line_item_model(line, breakdown_of(line, supply_type)))
            /\ UNCHANGED outcome
    /\ UNCHANGED <<request, invoice>>

-----------------------------------------------------------------------------

\* sum(... for li in line_items); no amount of a line is negative (TypeOK).
sum_of(value(_)) == Sum(DOMAIN items, [i \in DOMAIN items |-> value(items[i])])

server_computed == sum_of(LAMBDA i : i.breakdown.line_total)

\* Planted fault: the subtotal drops the fractions of a paisa of a line.
subtotal_truncated(item) ==
    (item.line.quantity * item.line.rate) \div (QUANTITY_SCALE * RATE_SCALE)

subtotal_of(item) == gross_value(item.line.quantity, item.line.rate)

\* aggregate_invoice_taxes and the columns of the header.
header ==
    LET taxable == sum_of(LAMBDA i : i.breakdown.taxable_amount)
        cgst == sum_of(LAMBDA i : i.breakdown.cgst_amount)
        sgst == sum_of(LAMBDA i : i.breakdown.sgst_amount)
        igst == sum_of(LAMBDA i : i.breakdown.igst_amount)
        cess_total == sum_of(LAMBDA i : i.breakdown.cess_amount)
    IN  [invoice_type |-> request.invoice_type, supply_type |-> supply_type,
         place_of_supply |-> place_of_supply,
         reverse_charge |-> ~request.party.registered,
         subtotal |-> sum_of(subtotal_of),
         discount_amount |-> sum_of(LAMBDA i : i.discount_amount),
         taxable_amount |-> taxable, cgst_amount |-> cgst, sgst_amount |-> sgst,
         igst_amount |-> igst, cess_amount |-> cess_total,
         total_amount |-> taxable + cgst + sgst + igst + cess_total]

\* Planted fault: the default of validate_invoice_arithmetic, whatever the number of lines.
tolerance_of_default(n) == 2

tolerance(n) == 2 + 5 * n

distance(x, y) == IF x < y THEN y - x ELSE x - y

\* The declared total is in tenths of a paisa: the schema limits neither its
\* decimals nor its size.
discrepancy(declared) == _round(distance(10 * server_computed, declared), 10)

quantize_raises(declared) == discrepancy(declared) > MAX_QUANTIZED

validate_invoice_arithmetic(declared) == discrepancy(declared) <= tolerance(Len(items))

\* The columns Numeric(17, 2) of invoice_items and of invoices; no amount is negative.
item_fits(item) ==
    \A amount \in {item.discount_amount, item.breakdown.taxable_amount,
                   item.breakdown.cgst_amount, item.breakdown.sgst_amount,
                   item.breakdown.igst_amount, item.breakdown.cess_amount,
                   item.total_amount} : amount <= MAX_MONEY

amount_columns ==
    {"subtotal", "discount_amount", "taxable_amount", "cgst_amount", "sgst_amount",
     "igst_amount", "cess_amount", "total_amount"}

header_fits(h) == \A column \in amount_columns : h[column] <= MAX_MONEY

\* The CHECK constraints of invoice_items on amounts and of invoices on the header.
item_storable(item) ==
    LET b == item.breakdown
    IN  /\ item.total_amount >= b.taxable_amount /\ b.taxable_amount >= 0
        /\ item.line.quantity > 0 /\ item.line.rate > 0
        /\ item.line.discount_percent \in 0..(100 * PERCENT_SCALE)
        /\ b.gst_rate \in GST_RATE_SLABS
        /\ item.line.hsn_sac_code # NoCode => item.line.hsn_sac_code.digits \in 4..8
        /\ \/ b.igst_amount = 0 /\ b.igst_rate = 0
           \/ <<b.cgst_amount, b.sgst_amount, b.cgst_rate, b.sgst_rate>> = <<0, 0, 0, 0>>

header_storable(h) ==
    /\ \A column \in amount_columns : h[column] >= 0
    /\ \/ h.supply_type = "intrastate" /\ h.igst_amount = 0
       \/ h.supply_type = "interstate" /\ h.cgst_amount = 0 /\ h.sgst_amount = 0

\* The header is inserted before the lines, and a value brought to its column's
\* size before a constraint looks at it.
inserted ==
    CASE ~header_fits(header) -> "overflow"
      [] header_fits(header) /\ ~header_storable(header) -> "failed"
      [] header_fits(header) /\ header_storable(header) ->
            IF \E i \in DOMAIN items : ~item_fits(items[i]) THEN "overflow"
            ELSE IF \A i \in DOMAIN items : item_storable(items[i]) THEN "created"
            ELSE "failed"

Create(declared) ==
    /\ outcome = "pricing"
    /\ items # << >>
    /\ declared >= 0
    /\ quantize_raises(declared) \/ validate_invoice_arithmetic(declared)
    /\ outcome' = IF quantize_raises(declared) THEN "invalid_operation" ELSE inserted
    /\ invoice' = IF outcome' = "created" THEN header ELSE invoice
    /\ UNCHANGED <<request, items>>

Next ==
    \/ \E line \in Lines : PriceLine(line)
    \/ \E offset \in Offsets : Create(10 * server_computed + offset)

Spec == Init /\ [][Next]_vars

=============================================================================
