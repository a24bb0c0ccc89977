----------------------- MODULE InvoiceDraftProperties -----------------------
(***************************************************************************)
(* What must hold of the figures an invoice is created with.               *)
(***************************************************************************)
EXTENDS InvoiceDraft

(***************************************************************************)
(* Every figure of a line and of the header is a natural number of its     *)
(* unit, a header is there if and only if the invoice has been created.    *)
(***************************************************************************)
TypeOK ==
    /\ request \in Requests
    /\ outcome \in {"pricing", "created", "failed", "overflow", "invalid_operation"}
    /\ invoice \in Header \cup {NoInvoice}
    /\ (outcome = "created") <=> (invoice # NoInvoice)
    /\ Len(items) <= MAX_LINES
    /\ \A i \in DOMAIN items :
          /\ items[i].line \in Lines
          /\ items[i].discount_amount \in Nat
          /\ items[i].total_amount \in Nat
          /\ \A figure \in DOMAIN items[i].breakdown : items[i].breakdown[figure] \in Nat

fits_columns(h) == h.subtotal <= MAX_MONEY /\ h.total_amount <= MAX_MONEY

(***************************************************************************)
(* create_invoice catches no ValueError of calculate_taxable_amount, which *)
(* a discount rounded above its line would raise, no CHECK constraint, no  *)
(* column that overflows and no InvalidOperation of quantize.  The first   *)
(* two never happen.  The others happen for their size only: a request     *)
(* whose subtotal, total and declared total fit Numeric(17, 2) never ends  *)
(* in a server error, because then all its other amounts fit as well.      *)
(***************************************************************************)
size_to_blame ==
    outcome' \notin {outcome, "created"} =>
        /\ outcome' # "failed"
        /\ fits_columns(header) =>
              \A offset \in Offsets :
                  LET declared == 10 * server_computed + offset
                  IN  Create(declared) => declared > 10 * MAX_MONEY

FailsForSizeOnly == [][size_to_blame]_vars

(***************************************************************************)
(* The stored invoice adds up across its two tables: what is left of the   *)
(* subtotal after discount is what is taxed, and the total of the header,  *)
(* built column by column, is the sum of the lines' computed totals.       *)
(***************************************************************************)
HeaderAddsUp ==
    outcome = "created" =>
        /\ invoice.subtotal - invoice.discount_amount = invoice.taxable_amount
        /\ invoice.total_amount = sum_of(LAMBDA i : i.total_amount)

\* The total of a client that rounds the taxable value of a line once, and its tax as a whole.
late_rounded_total(item) ==
    LET line == item.line
        taxable ==
            _round(line.quantity * line.rate * (100 * PERCENT_SCALE - line.discount_percent),
                   QUANTITY_SCALE * RATE_SCALE * 100 * PERCENT_SCALE)
    IN  taxable + integrated_tax(taxable, line.gst_rate) + cess(taxable, line.cess_rate)

(***************************************************************************)
(* validate_invoice_arithmetic: the tolerance covers a client that rounds  *)
(* elsewhere than the server does, however its lines add up and whichever  *)
(* taxes apply; such a client can always create its invoice.               *)
(***************************************************************************)
HonestTotalAccepted ==
    items # << >> => validate_invoice_arithmetic(10 * sum_of(late_rounded_total))

(***************************************************************************)
(* A line taxed within the state, in two rounded halves, and the same line *)
(* taxed across states differ by at most a paisa.                          *)
(***************************************************************************)
TaxIndependentOfRoute ==
    \A i \in DOMAIN items :
        LET taxed(supply) ==
                LET b == items[i].breakdown
                IN  calculate_line_item_tax(b.taxable_amount, b.gst_rate, supply,
                                            b.cess_rate).line_total
        IN  taxed("intrastate") - taxed("interstate") \in -1..1

(***************************************************************************)
(* app/models/invoice.py, line 218: "reverse_charge: RCM applies when      *)
(* purchasing from unregistered dealers".                                  *)
(***************************************************************************)
ReverseChargeOnPurchases ==
    outcome = "created" /\ invoice.reverse_charge => invoice.invoice_type = "purchase"

=============================================================================
