------------------------------ MODULE Billing ------------------------------
(***************************************************************************)
(* The billing core of one tenant: invoices and notes, payments, refunds,  *)
(* their ledger and their numbers.                                         *)
(*                                                                         *)
(* Each action is the database effect of one request handler that commits: *)
(* every handler runs in one `async with db.begin()', so a handler that    *)
(* raises leaves every table as it was and is a stuttering step.  The      *)
(* idempotency reservation around a handler is a table of its own and does *)
(* not touch these.  Every query is filtered by tenant_id, so one tenant   *)
(* is the whole world of a request.                                        *)
(*                                                                         *)
(* The CHECK constraints of the invoices table are deliberately NOT guards *)
(* here: they are invariants (see LedgerWithinBounds), which says the code *)
(* never relies on them to refuse a request it believes it accepted.  The  *)
(* unique indexes the services do rely on are guards.                      *)
(***************************************************************************)
EXTENDS LedgerRules, LedgerSums, DocumentNumbers

CONSTANTS
    InvoiceIds, PaymentIds, RefundIds,  \* the UUIDs rows may be given
    Customers, Vendors,                 \* the tenant's parties, by party_type
    Switchable,                         \* those set_party_active is called for
    FinancialYears,                     \* values of get_financial_year
    Totals,                             \* payable amounts, paise
    Amounts,                            \* requested payments and refunds, paise
    PaymentModes,                       \* subset of the five modes
    References,                         \* bank reference numbers
    NoInvoice, NoReference              \* SQL NULL

ASSUME TotalsAssumption == Totals \subseteq Nat
ASSUME AmountsAssumption == Amounts \subseteq Nat \ {0}
ASSUME PartiesAssumption ==
    Customers \cap Vendors = {} /\ Switchable \subseteq Customers \cup Vendors
ASSUME NullsAssumption ==
    NoInvoice \notin InvoiceIds /\ NoReference \notin References

Parties == Customers \cup Vendors
REFERENCE_REQUIRED_MODES == {"bank_transfer", "upi", "cheque"}

VARIABLES
    invoices,   \* table: invoice id -> row
    payments,   \* table: payment id -> row
    refunds,    \* table: refund id -> row
    sequences,  \* last_number of each (financial_year, type); 0: no row yet
    active      \* the parties with is_active

vars == <<invoices, payments, refunds, sequences, active>>

\* Columns of the three tables that some rule reads.
InvoiceRow ==
    [invoice_type : InvoiceTypes, party : Parties, original : InvoiceIds \cup {NoInvoice},
     total_amount : Nat, paid_amount : Nat, credited_amount : Nat, refunded_amount : Nat,
     invoice_status : InvoiceStatuses, financial_year : FinancialYears, number : Nat \ {0}]
PaymentRow ==
    [invoice : InvoiceIds, amount : Nat \ {0}, payment_mode : PaymentModes,
     reference : References \cup {NoReference}, status : {"active", "cancelled"},
     number : Nat \ {0}]
RefundRow ==
    [invoice : InvoiceIds, amount : Nat \ {0}, reference : References \cup {NoReference},
     status : {"active", "cancelled"}, number : Nat \ {0}]

Init ==
    /\ invoices = << >>
    /\ payments = << >>
    /\ refunds = << >>
    /\ sequences = [key \in FinancialYears \X DocumentTypes |-> 0]
    /\ active = Parties

-----------------------------------------------------------------------------
(* The queries of the repositories, over the tables they are given. *)

receivable(inv) == inv.invoice_type # "credit_note"

\* The column Postgres generates.
outstanding_amount(inv) ==
    IF receivable(inv)
    THEN larger(balance(inv.total_amount, inv.paid_amount,
                        inv.credited_amount, inv.refunded_amount), 0)
    ELSE 0

amounts(table) == [x \in DOMAIN table |-> table[x].amount]
totals(invs) == [x \in DOMAIN invs |-> invs[x].total_amount]

active_rows(table, i) ==
    {x \in DOMAIN table : table[x].invoice = i /\ table[x].status = "active"}

get_total_paid_for_invoice(pays, i) == Sum(active_rows(pays, i), amounts(pays))

get_total_active_for_invoice(refs, i) == Sum(active_rows(refs, i), amounts(refs))

notes_against(invs, o, statuses) ==
    {c \in DOMAIN invs : /\ invs[c].invoice_type = "credit_note"
                         /\ invs[c].original = o
                         /\ invs[c].invoice_status \in statuses}

\* Planted fault: a sent note, which never becomes partial or paid, is left out.
settled_credits(invs, o) ==
    Sum(notes_against(invs, o, {"partial", "paid"}), totals(invs))

get_total_credited(invs, o) ==
    Sum(notes_against(invs, o, {"sent", "partial", "paid"}), totals(invs))

\* Planted fault: drafts are left out of the duplicate credit note check.
sent_credit_note_for_original(o, amount) ==
    {c \in notes_against(invoices, o, InvoiceStatuses \ {"draft", "void"}) :
        invoices[c].total_amount = amount}

get_active_credit_note_for_original(o, amount) ==
    {c \in notes_against(invoices, o, InvoiceStatuses \ {"void"}) :
        invoices[c].total_amount = amount}

find_recent_similar_invoice(party, type, amount) ==
    {i \in DOMAIN invoices : /\ invoices[i].party = party
                             /\ invoices[i].invoice_type = type
                             /\ invoices[i].total_amount = amount
                             /\ invoices[i].invoice_status # "void"}

find_recent_similar_active_payment(i, amount, mode) ==
    {p \in active_rows(payments, i) :
        payments[p].amount = amount /\ payments[p].payment_mode = mode}

get_active_by_reference_number(table, reference) ==
    {x \in DOMAIN table : table[x].reference = reference /\ table[x].status = "active"}

-----------------------------------------------------------------------------
(* Writes shared by the handlers. *)

next_number(fy, type) == sequences[<<fy, type>>] + 1

\* Planted fault: the counter is seeded but not advanced past 1.
number_not_advanced(fy, type) == sequences' = [sequences EXCEPT ![<<fy, type>>] = 1]

get_next_invoice_number(fy, type) ==
    sequences' = [sequences EXCEPT ![<<fy, type>>] = next_number(fy, type)]

\* Planted fault: the status is not written with the amounts.
posted_without_status(inv, position) ==
    [inv EXCEPT !.paid_amount = position.paid_amount,
                !.credited_amount = position.credited_amount,
                !.refunded_amount = position.refunded_amount]

\* UPDATE invoices SET the three ledger inputs and the derived status.
posted(inv, position) ==
    [inv EXCEPT !.paid_amount = position.paid_amount,
                !.credited_amount = position.credited_amount,
                !.refunded_amount = position.refunded_amount,
                !.invoice_status = position.status]

update_ledger_state(i, position) ==
    [invoices EXCEPT ![i] = posted(invoices[i], position)]

\* Planted fault: the row is deleted.
hard_delete_by_id(table, x) == [y \in DOMAIN table \ {x} |-> table[y]]

soft_cancel_by_id(table, x) == [table EXCEPT ![x].status = "cancelled"]

\* Planted fault: the refunds are taken from the column, not from the rows.
refunds_not_recomputed(i, pays, refs) ==
    compute_ledger_position(invoices[i].total_amount,
                            get_total_paid_for_invoice(pays, i),
                            get_total_credited(invoices, i),
                            invoices[i].refunded_amount)

\* The position recomputed from source rows by the two cancel handlers.
recomputed_position(i, pays, refs) ==
    compute_ledger_position(invoices[i].total_amount,
                            get_total_paid_for_invoice(pays, i),
                            get_total_credited(invoices, i),
                            get_total_active_for_invoice(refs, i))

-----------------------------------------------------------------------------
(* invoice_service *)

required_party_type(type) == IF type = "purchase" THEN Vendors ELSE Customers

\* Planted fault: the schema lets an ordinary invoice name an original.
original_of_any_type(type, party, o) ==
    \/ o \in DOMAIN invoices /\ invoices[o].party = party
    \/ type \notin Notes /\ o = NoInvoice

\* A note names the original it corrects, of the same party; anything else
\* names none.
original_matches(type, party, o) ==
    IF type \in Notes
    THEN o \in DOMAIN invoices /\ invoices[o].party = party
    ELSE o = NoInvoice

credit_note_accepted(o, total) ==
    /\ validate_invoice_accepts_credit_note(invoices[o].invoice_type,
                                            invoices[o].invoice_status)
    /\ get_active_credit_note_for_original(o, total) = {}
    /\ validate_credit_note_amount(total, invoices[o].total_amount,
                                   get_total_credited(invoices, o))

\* Every check of _create_invoice_body that reads the database.  What it
\* checks of the request alone (GSTIN, HSN codes, declared total) has been
\* passed by the requests considered here; `total' is payable_amount.
create_invoice_accepted(type, party, o, total, confirm_duplicate) ==
    /\ party \in active
    /\ party \in required_party_type(type)
    /\ original_matches(type, party, o)
    /\ type = "credit_note" => credit_note_accepted(o, total)
    /\ type # "credit_note" =>
         confirm_duplicate \/ find_recent_similar_invoice(party, type, total) = {}

create_invoice(i, type, party, o, total, fy, confirm_duplicate) ==
    /\ i \notin DOMAIN invoices
    /\ create_invoice_accepted(type, party, o, total, confirm_duplicate)
    /\ get_next_invoice_number(fy, type)
    /\ invoices' = Insert(invoices, i,
         [invoice_type |-> type, party |-> party, original |-> o,
          total_amount |-> total, paid_amount |-> 0, credited_amount |-> 0,
          refunded_amount |-> 0, invoice_status |-> "draft",
          financial_year |-> fy, number |-> next_number(fy, type)])
    /\ UNCHANGED <<payments, refunds, active>>

submit(invs, i) == [invs EXCEPT ![i].invoice_status = "sent"]

\* A sale, a purchase or a debit note becomes a live receivable.
send_invoice(i) ==
    /\ i \in DOMAIN invoices
    /\ receivable(invoices[i])
    /\ validate_invoice_is_mutable(invoices[i].invoice_status)
    /\ validate_invoice_number_format(invoices[i].invoice_type, invoices[i].number)
    /\ invoices' = submit(invoices, i)
    /\ UNCHANGED <<payments, refunds, sequences, active>>

\* Planted fault: the original is not rechecked under its lock.
send_credit_note_unchecked(c) ==
    /\ c \in DOMAIN invoices
    /\ ~receivable(invoices[c])
    /\ validate_invoice_is_mutable(invoices[c].invoice_status)
    /\ LET o == invoices[c].original
           orig == invoices[o]
           position == compute_ledger_position(orig.total_amount, orig.paid_amount,
                           orig.credited_amount + invoices[c].total_amount,
                           orig.refunded_amount)
       IN  invoices' = submit(update_ledger_state(o, position), c)
    /\ UNCHANGED <<payments, refunds, sequences, active>>

\* A credit note is applied to its original, rechecked under the lock, and
\* both rows change in the one transaction (_apply_credit_note_to_original).
send_credit_note(c) ==
    /\ c \in DOMAIN invoices
    /\ ~receivable(invoices[c])
    /\ validate_invoice_is_mutable(invoices[c].invoice_status)
    /\ validate_invoice_number_format(invoices[c].invoice_type, invoices[c].number)
    /\ LET o == invoices[c].original
           orig == invoices[o]
           position == apply_credit_note(orig.total_amount, orig.paid_amount,
                           orig.credited_amount, orig.refunded_amount,
                           invoices[c].total_amount)
       IN  /\ o \in DOMAIN invoices
           /\ validate_invoice_accepts_credit_note(orig.invoice_type, orig.invoice_status)
           /\ position.ok
           /\ invoices' = submit(update_ledger_state(o, position), c)
    /\ UNCHANGED <<payments, refunds, sequences, active>>

void_invoice(i) ==
    /\ i \in DOMAIN invoices
    /\ validate_invoice_is_voidable(invoices[i].invoice_status,
                                    invoices[i].paid_amount, invoices[i].invoice_type)
    /\ invoices' = [invoices EXCEPT ![i].invoice_status = "void"]
    /\ UNCHANGED <<payments, refunds, sequences, active>>

-----------------------------------------------------------------------------
(* payment_service *)

\* uq_payments_tenant_refnum, uq_refunds_tenant_refnum: any reference that
\* is not NULL, of any mode, is unique among the active rows.
reference_free(table, reference) ==
    reference = NoReference \/ get_active_by_reference_number(table, reference) = {}

\* The checks of _record_payment_body, in its order, then the index.
record_payment_accepted(i, amount, mode, reference, confirm_duplicate) ==
    /\ i \in DOMAIN invoices
    /\ validate_invoice_accepts_payment(invoices[i].invoice_status)
    /\ outstanding_amount(invoices[i]) > 0
    /\ validate_payment_does_not_exceed_outstanding(amount, outstanding_amount(invoices[i]))
    /\ mode \notin REFERENCE_REQUIRED_MODES =>
         confirm_duplicate \/ find_recent_similar_active_payment(i, amount, mode) = {}
    /\ reference_free(payments, reference)

\* Position the ledger moves to when `amount' is received on invoice i.
position_after_payment(i, amount) ==
    apply_payment(invoices[i].total_amount, invoices[i].paid_amount,
                  invoices[i].credited_amount, invoices[i].refunded_amount, amount)

record_payment(p, i, amount, mode, reference, confirm_duplicate) ==
    /\ p \notin DOMAIN payments
    /\ record_payment_accepted(i, amount, mode, reference, confirm_duplicate)
    /\ position_after_payment(i, amount).ok
    /\ get_next_invoice_number(invoices[i].financial_year, "payment")
    /\ payments' = Insert(payments, p,
         [invoice |-> i, amount |-> amount, payment_mode |-> mode,
          reference |-> reference, status |-> "active",
          number |-> next_number(invoices[i].financial_year, "payment")])
    /\ invoices' = update_ledger_state(i, position_after_payment(i, amount))
    /\ UNCHANGED <<refunds, active>>

\* Planted fault: the refunds already paid out do not block the cancellation.
cancel_payment_ignoring_refunds(p) ==
    /\ p \in DOMAIN payments
    /\ payments[p].status = "active"
    /\ payments' = soft_cancel_by_id(payments, p)
    /\ invoices' = update_ledger_state(payments[p].invoice,
                       recomputed_position(payments[p].invoice, payments', refunds))
    /\ UNCHANGED <<refunds, sequences, active>>

cancel_payment(p) ==
    /\ p \in DOMAIN payments
    /\ payments[p].status = "active"
    /\ payments' = soft_cancel_by_id(payments, p)
    /\ recomputed_position(payments[p].invoice, payments', refunds).ok
    /\ invoices' = update_ledger_state(payments[p].invoice,
                       recomputed_position(payments[p].invoice, payments', refunds))
    /\ UNCHANGED <<refunds, sequences, active>>

-----------------------------------------------------------------------------
(* refund_service *)

position_after_refund(i, amount) ==
    apply_refund(invoices[i].total_amount, invoices[i].paid_amount,
                 invoices[i].credited_amount, invoices[i].refunded_amount, amount)

\* Neither the status nor the type of the invoice is looked at: the refund
\* due is the only guard.
record_refund(r, i, amount, reference) ==
    /\ r \notin DOMAIN refunds
    /\ i \in DOMAIN invoices
    /\ position_after_refund(i, amount).ok
    /\ reference_free(refunds, reference)
    /\ get_next_invoice_number(invoices[i].financial_year, "refund")
    /\ refunds' = Insert(refunds, r,
         [invoice |-> i, amount |-> amount, reference |-> reference,
          status |-> "active",
          number |-> next_number(invoices[i].financial_year, "refund")])
    /\ invoices' = update_ledger_state(i, position_after_refund(i, amount))
    /\ UNCHANGED <<payments, active>>

cancel_refund(r) ==
    /\ r \in DOMAIN refunds
    /\ refunds[r].status = "active"
    /\ refunds' = soft_cancel_by_id(refunds, r)
    /\ recomputed_position(refunds[r].invoice, payments, refunds').ok
    /\ invoices' = update_ledger_state(refunds[r].invoice,
                       recomputed_position(refunds[r].invoice, payments, refunds'))
    /\ UNCHANGED <<payments, sequences, active>>

-----------------------------------------------------------------------------
(* party_service *)

set_party_active(party, is_active) ==
    /\ active' = IF is_active THEN active \cup {party} ELSE active \ {party}
    /\ UNCHANGED <<invoices, payments, refunds, sequences>>

-----------------------------------------------------------------------------

\* Every mode but cash must carry a reference (PaymentCreateRequest).
reference_given(mode, reference) == mode = "cash" \/ reference # NoReference

CreateInvoice ==
    \E i \in InvoiceIds, type \in InvoiceTypes, party \in Parties,
       o \in InvoiceIds \cup {NoInvoice}, total \in Totals,
       fy \in FinancialYears, confirm_duplicate \in BOOLEAN :
        create_invoice(i, type, party, o, total, fy, confirm_duplicate)

SendInvoice == \E i \in InvoiceIds : send_invoice(i) \/ send_credit_note(i)

VoidInvoice == \E i \in InvoiceIds : void_invoice(i)

RecordPayment ==
    \E p \in PaymentIds, i \in InvoiceIds, amount \in Amounts, mode \in PaymentModes,
       reference \in References \cup {NoReference}, confirm_duplicate \in BOOLEAN :
        /\ reference_given(mode, reference)
        /\ record_payment(p, i, amount, mode, reference, confirm_duplicate)

CancelPayment == \E p \in PaymentIds : cancel_payment(p)

RecordRefund ==
    \E r \in RefundIds, i \in InvoiceIds, amount \in Amounts,
       reference \in References \cup {NoReference} :
        record_refund(r, i, amount, reference)

CancelRefund == \E r \in RefundIds : cancel_refund(r)

SetPartyActive ==
    \E party \in Switchable, is_active \in BOOLEAN : set_party_active(party, is_active)

Next ==
    \/ CreateInvoice
    \/ SendInvoice
    \/ VoidInvoice
    \/ RecordPayment
    \/ CancelPayment
    \/ RecordRefund
    \/ CancelRefund
    \/ SetPartyActive

Spec == Init /\ [][Next]_vars

=============================================================================
