------------------------- MODULE BillingProperties -------------------------
(***************************************************************************)
(* What must hold of the billing core.                                     *)
(***************************************************************************)
EXTENDS Billing

\* Submitted and not void.
live(inv) == inv.invoice_status \in {"sent", "partial", "paid"}

documents(fy, type) ==
    IF type = "payment"
    THEN {<<p, payments[p].number>> :
             p \in {q \in DOMAIN payments :
                       invoices[payments[q].invoice].financial_year = fy}}
    ELSE IF type = "refund"
    THEN {<<r, refunds[r].number>> :
             r \in {q \in DOMAIN refunds :
                       invoices[refunds[q].invoice].financial_year = fy}}
    ELSE {<<i, invoices[i].number>> :
             i \in {j \in DOMAIN invoices : /\ invoices[j].invoice_type = type
                                            /\ invoices[j].financial_year = fy}}

-----------------------------------------------------------------------------

(***************************************************************************)
(* Every row has its columns, and every row a payment, a refund or a note  *)
(* points at exists (the foreign keys).                                    *)
(***************************************************************************)
TypeOK ==
    /\ DOMAIN invoices \subseteq InvoiceIds /\ IsFiniteSet(DOMAIN invoices)
    /\ DOMAIN payments \subseteq PaymentIds /\ IsFiniteSet(DOMAIN payments)
    /\ DOMAIN refunds \subseteq RefundIds /\ IsFiniteSet(DOMAIN refunds)
    /\ invoices \in [DOMAIN invoices -> InvoiceRow]
    /\ payments \in [DOMAIN payments -> PaymentRow]
    /\ refunds \in [DOMAIN refunds -> RefundRow]
    /\ sequences \in [FinancialYears \X DocumentTypes -> Nat]
    /\ active \subseteq Parties
    /\ \A i \in DOMAIN invoices :
          IF invoices[i].invoice_type \in Notes
          THEN invoices[i].original \in DOMAIN invoices \ {i}
          ELSE invoices[i].original = NoInvoice
    /\ \A p \in DOMAIN payments : payments[p].invoice \in DOMAIN invoices
    /\ \A r \in DOMAIN refunds : refunds[r].invoice \in DOMAIN invoices

(***************************************************************************)
(* The ledger columns are what the source rows add up to: record_payment,  *)
(* record_refund and send_invoice add to a running total, the two cancel   *)
(* handlers recompute it, and neither ever disagrees with the other.       *)
(***************************************************************************)
LedgerMatchesRows ==
    \A i \in DOMAIN invoices :
        /\ invoices[i].paid_amount = get_total_paid_for_invoice(payments, i)
        /\ invoices[i].credited_amount = get_total_credited(invoices, i)
        /\ invoices[i].refunded_amount = get_total_active_for_invoice(refunds, i)

(***************************************************************************)
(* The CHECK constraints of the invoices table never fire, so no request   *)
(* the services accept ends in an unhandled IntegrityError: no invoice is  *)
(* paid or credited beyond its total, no more is refunded than was paid.   *)
(* No constraint states the last conjunct, and paid_amount <= total_amount *)
(* rests on it: refunds reopen an invoice for payment, so without it an    *)
(* invoice could be paid beyond its total.                                 *)
(***************************************************************************)
within_bounds(inv) ==
    /\ inv.paid_amount <= inv.total_amount
    /\ inv.credited_amount <= inv.total_amount
    /\ inv.refunded_amount <= inv.paid_amount
    /\ inv.refunded_amount <= inv.credited_amount

LedgerWithinBounds == \A i \in DOMAIN invoices : within_bounds(invoices[i])

(***************************************************************************)
(* The stored status is the one the ledger implies, whichever handler      *)
(* wrote it last; a draft, a void invoice and a credit note carry no money *)
(* of their own, and a credit note never leaves "sent".                    *)
(***************************************************************************)
status_matches(inv) ==
    IF receivable(inv) /\ live(inv)
    THEN inv.invoice_status = ledger_status(inv.total_amount, inv.paid_amount,
                                  inv.credited_amount, inv.refunded_amount)
    ELSE /\ inv.paid_amount = 0
         /\ inv.credited_amount = 0
         /\ inv.refunded_amount = 0
         /\ receivable(inv) \/ inv.invoice_status \in {"draft", "sent"}

StatusMatchesLedger == \A i \in DOMAIN invoices : status_matches(invoices[i])

(***************************************************************************)
(* Voiding orphans nothing: an active payment, an active refund and a sent *)
(* credit note (which is always of a positive amount) belong to a live     *)
(* receivable.  void_invoice looks at the status and paid_amount only, so  *)
(* this needs "sent" to mean that no credit and no refund is there either. *)
(***************************************************************************)
bears_money(inv) == receivable(inv) /\ live(inv)

transfers_live(table) ==
    \A x \in DOMAIN table : table[x].status = "active" =>
        bears_money(invoices[table[x].invoice])

sent_notes_live ==
    \A c \in DOMAIN invoices :
        (~receivable(invoices[c]) /\ invoices[c].invoice_status = "sent") =>
            /\ invoices[c].total_amount > 0
            /\ invoices[invoices[c].original].invoice_type \in CREDITABLE_ORIGINAL_TYPES
            /\ live(invoices[invoices[c].original])

NoOrphanedMoney ==
    transfers_live(payments) /\ transfers_live(refunds) /\ sent_notes_live

(***************************************************************************)
(* cancel_refund does not catch the ValueError of compute_ledger_position  *)
(* (cancel_payment does), nor record_payment that of apply_payment: every  *)
(* refund that can be cancelled, and every payment past the checks, leads  *)
(* to a possible ledger.                                                   *)
(***************************************************************************)
LedgerNeverCorrupt ==
    /\ \A r \in DOMAIN refunds : refunds[r].status = "active" =>
          recomputed_position(refunds[r].invoice, payments,
                              soft_cancel_by_id(refunds, r)).ok
    /\ \A i \in DOMAIN invoices, amount \in Amounts :
          record_payment_accepted(i, amount, "cash", NoReference, TRUE) =>
              position_after_payment(i, amount).ok

\* The table once all refunds of an invoice have been cancelled.
refunds_reversed(i) ==
    [r \in DOMAIN refunds |->
        IF refunds[r].invoice = i THEN [refunds[r] EXCEPT !.status = "cancelled"]
        ELSE refunds[r]]

(***************************************************************************)
(* cancel_payment answers every ValueError of compute_ledger_position with *)
(* PaymentCancelBlockedByRefundError: "refunds already paid ... exceed the *)
(* cash that would remain. Reverse the refund first."  Both sentences are  *)
(* true: nothing else ever refuses it, and with the refunds of the invoice *)
(* reversed every one of its payments can be cancelled.                    *)
(***************************************************************************)
CancelRefusalTrue ==
    \A p \in DOMAIN payments : payments[p].status = "active" =>
        LET i == payments[p].invoice
            left == soft_cancel_by_id(payments, p)
        IN  /\ \/ recomputed_position(i, left, refunds).ok
               \/ get_total_active_for_invoice(refunds, i)
                      > get_total_paid_for_invoice(left, i)
            /\ recomputed_position(i, left, refunds_reversed(i)).ok

(***************************************************************************)
(* The numbers of each series are 1, 2, 3, ... with no gap and no reuse,   *)
(* across the three tables (get_next_invoice_number's docstring).          *)
(***************************************************************************)
NumbersGapless ==
    \A fy \in FinancialYears, type \in DocumentTypes :
        /\ {d[2] : d \in documents(fy, type)} = 1..sequences[<<fy, type>>]
        /\ Cardinality(documents(fy, type)) = sequences[<<fy, type>>]

(***************************************************************************)
(* The hard block: no two credit notes of one amount against one original, *)
(* drafts included, whatever happened to the original in between.          *)
(***************************************************************************)
NoTwinCreditNotes ==
    \A c, d \in DOMAIN invoices :
        (/\ c # d
         /\ ~receivable(invoices[c]) /\ ~receivable(invoices[d])
         /\ invoices[c].original = invoices[d].original) =>
            invoices[c].total_amount # invoices[d].total_amount

-----------------------------------------------------------------------------
(* Action properties. *)

(***************************************************************************)
(* A credit, once applied, is never taken back: credited_amount never      *)
(* falls, although cancel_payment and cancel_refund overwrite it with a    *)
(* freshly computed sum.                                                   *)
(***************************************************************************)
credits_kept ==
    \A i \in DOMAIN invoices :
        invoices'[i].credited_amount >= invoices[i].credited_amount

CreditsArePermanent == [][credits_kept]_vars

(***************************************************************************)
(* Nothing submitted is edited or deleted (ledger_rules: "the GST Act does *)
(* not permit post-submission modification"): a row keeps its type, party, *)
(* original, total and number, no step leads back to draft or out of void, *)
(* and a cancelled row stays cancelled.                                    *)
(***************************************************************************)
same_document(old, new) ==
    /\ <<old.invoice_type, old.party, old.original, old.total_amount,
         old.financial_year, old.number>>
       = <<new.invoice_type, new.party, new.original, new.total_amount,
           new.financial_year, new.number>>
    /\ old.invoice_status # "draft" => new.invoice_status # "draft"
    /\ old.invoice_status = "void" => new = old

same_transfer(old, new) == new = old \/ new = [old EXCEPT !.status = "cancelled"]

invoices_kept ==
    \A i \in DOMAIN invoices :
        i \in DOMAIN invoices' /\ same_document(invoices[i], invoices'[i])

transfers_kept(old, new) ==
    \A x \in DOMAIN old : x \in DOMAIN new /\ same_transfer(old[x], new[x])

DocumentsPermanent ==
    [][/\ invoices_kept
       /\ transfers_kept(payments, payments')
       /\ transfers_kept(refunds, refunds')]_vars

-----------------------------------------------------------------------------
(* What the source says of itself and the code does not do: each of these  *)
(* is checked by a run that finds it violated (see the README).            *)

(***************************************************************************)
(* ledger_rules.py:38: "Only sales and purchase invoices can be corrected  *)
(* by a credit note."  A submitted one of an active party, with an amount  *)
(* and no credit note yet, can be.                                         *)
(***************************************************************************)
SalesAndPurchasesCreditable ==
    \A i \in DOMAIN invoices :
        (/\ invoices[i].invoice_type \in CREDITABLE_ORIGINAL_TYPES
         /\ invoices[i].invoice_status \in CREDITABLE_STATES
         /\ invoices[i].party \in active
         /\ invoices[i].total_amount > 0
         /\ notes_against(invoices, i, InvoiceStatuses) = {}) =>
            \E amount \in 1..invoices[i].total_amount :
                create_invoice_accepted("credit_note", invoices[i].party, i, amount, TRUE)

(***************************************************************************)
(* invoice_service.py:106, of credit and debit notes alike: the original   *)
(* "must exist, must be submitted".                                        *)
(***************************************************************************)
NoteOriginalsSubmitted ==
    \A n \in DOMAIN invoices : invoices[n].invoice_type \in Notes =>
        invoices[invoices[n].original].invoice_status # "draft"

(***************************************************************************)
(* schemas/payment.py:10-11: credit_card "has no hard uniqueness check":   *)
(* a confirmed card payment is accepted or not whatever its reference is.  *)
(***************************************************************************)
CardReferenceNeverRefused ==
    \A i \in DOMAIN invoices, amount \in Amounts, r1, r2 \in References :
        record_payment_accepted(i, amount, "credit_card", r1, TRUE) =>
            record_payment_accepted(i, amount, "credit_card", r2, TRUE)

-----------------------------------------------------------------------------
(* Refinement. *)

stage(inv) == IF live(inv) THEN "issued" ELSE inv.invoice_status

account(inv) ==
    [total |-> inv.total_amount, collected |-> inv.paid_amount,
     credited |-> inv.credited_amount, returned |-> inv.refunded_amount,
     stage |-> stage(inv)]

accounts == {i \in DOMAIN invoices : receivable(invoices[i])}

Ledger == INSTANCE Receivables WITH
            Accounts <- InvoiceIds, Values <- Totals,
            book <- [i \in accounts |-> account(invoices[i])]

(***************************************************************************)
(* Seen through its receivables, the billing core only ever makes the      *)
(* moves of Receivables: each request changes one account, in one amount,  *)
(* within what that account allows.                                        *)
(***************************************************************************)
ReceivablesSpec == Ledger!Spec

=============================================================================
