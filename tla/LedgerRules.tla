---------------------------- MODULE LedgerRules ----------------------------
(***************************************************************************)
(* app/domain/ledger_rules.py: the pure rules of the invoice ledger.       *)
(*                                                                         *)
(* A validate_* function raises ValueError or returns None: here it is the *)
(* predicate that holds when it returns.  A function that returns a        *)
(* LedgerPosition is a record whose field `ok' is FALSE when the code      *)
(* raises (the other fields are then meaningless).  Amounts are paise.     *)
(***************************************************************************)
EXTENDS Integers

InvoiceTypes == {"sales", "purchase", "credit_note", "debit_note"}
Notes == {"credit_note", "debit_note"}
\* The InvoiceStatus values some code path writes ("overdue" and "cancelled"
\* are declared in the source and never assigned).
InvoiceStatuses == {"draft", "sent", "partial", "paid", "void"}

MUTABLE_STATES == {"draft"}
PAYABLE_STATES == {"sent", "partial"}
VOIDABLE_STATES == {"sent"}
CREDITABLE_STATES == {"sent", "partial", "paid"}
CREDITABLE_ORIGINAL_TYPES == {"sales", "purchase"}

larger(a, b) == IF a > b THEN a ELSE b

-----------------------------------------------------------------------------
(* The ledger formula. *)

balance(total, paid, credited, refunded) == total - credited - paid + refunded

\* No branch of compute_ledger_position raises "Ledger corruption".
components_possible(total, paid, credited, refunded) ==
    /\ paid >= 0 /\ credited >= 0 /\ refunded >= 0
    /\ credited <= total
    /\ refunded <= paid

ledger_status(total, paid, credited, refunded) ==
    IF balance(total, paid, credited, refunded) <= 0 /\ (paid > 0 \/ credited > 0)
    THEN "paid"
    ELSE IF paid - refunded > 0 \/ credited > 0 THEN "partial" ELSE "sent"

compute_ledger_position(total, paid, credited, refunded) ==
    [ok |-> components_possible(total, paid, credited, refunded),
     paid_amount |-> paid,
     credited_amount |-> credited,
     refunded_amount |-> refunded,
     outstanding_amount |-> larger(balance(total, paid, credited, refunded), 0),
     refund_due_amount |-> larger(-balance(total, paid, credited, refunded), 0),
     status |-> ledger_status(total, paid, credited, refunded)]

-----------------------------------------------------------------------------
(* Guards on an invoice's type and status. *)

validate_invoice_is_mutable(status) == status \in MUTABLE_STATES

validate_invoice_accepts_payment(status) == status \in PAYABLE_STATES

validate_invoice_accepts_credit_note(type, status) ==
    /\ type \in CREDITABLE_ORIGINAL_TYPES
    /\ status \in CREDITABLE_STATES

\* Planted fault: the status alone decides, and "partial" slips in.
validate_void_of_partial(status, paid, type) ==
    type # "credit_note" /\ status \in VOIDABLE_STATES \cup {"partial"}

validate_invoice_is_voidable(status, paid, type) ==
    type # "credit_note" /\ status \in VOIDABLE_STATES /\ paid = 0

-----------------------------------------------------------------------------
(* Guards on amounts, and the three operations that move the ledger. *)

validate_payment_does_not_exceed_outstanding(amount, outstanding) ==
    amount > 0 /\ amount <= outstanding

validate_credit_note_amount(amount, total, already_credited) ==
    amount > 0 /\ amount <= total - already_credited

apply_payment(total, paid, credited, refunded, new_payment) ==
    LET current == compute_ledger_position(total, paid, credited, refunded)
        after == compute_ledger_position(total, paid + new_payment, credited, refunded)
    IN  [after EXCEPT !.ok =
            /\ current.ok
            /\ validate_payment_does_not_exceed_outstanding(
                   new_payment, current.outstanding_amount)
            /\ after.ok]

apply_credit_note(total, paid, credited, refunded, credit_amount) ==
    LET after == compute_ledger_position(total, paid, credited + credit_amount, refunded)
    IN  [after EXCEPT !.ok =
            credit_amount > 0 /\ credited + credit_amount <= total /\ after.ok]

\* Planted fault: the cap is the cash received, not the refund due.
apply_refund_up_to_paid(total, paid, credited, refunded, refund_amount) ==
    LET after == compute_ledger_position(total, paid, credited, refunded + refund_amount)
    IN  [after EXCEPT !.ok = refund_amount > 0 /\ after.ok]

apply_refund(total, paid, credited, refunded, refund_amount) ==
    LET current == compute_ledger_position(total, paid, credited, refunded)
        after == compute_ledger_position(total, paid, credited, refunded + refund_amount)
    IN  [after EXCEPT !.ok =
            /\ refund_amount > 0
            /\ current.ok
            /\ refund_amount <= current.refund_due_amount
            /\ after.ok]

=============================================================================
