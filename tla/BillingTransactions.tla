------------------------- MODULE BillingTransactions -------------------------
(***************************************************************************)
(* The handlers of Billing taken apart: several requests at work at once,  *)
(* each in the transaction of its own database session, one SQL statement  *)
(* at a time.                                                              *)
(*                                                                         *)
(* Postgres runs at READ COMMITTED: a statement sees what has been         *)
(* committed before it and what its own transaction wrote.  So the tables  *)
(* of Billing hold committed rows only, and an open transaction is a       *)
(* record of what it has read, locked and computed, written at its commit. *)
(* A statement that must lock a row another transaction holds is not       *)
(* enabled: it waits.  Three things are one step here that are several     *)
(* statements in the code, each because no other transaction can tell:     *)
(* BEGIN, the reads before the first lock and that lock (a transaction     *)
(* that waits there holds nothing; only the two cancel handlers read       *)
(* there what the lock is to protect, and they have a step for it), the    *)
(* reads of a recomputation (the invoice lock protects what they read),    *)
(* and the last writes and COMMIT (they need no further lock).             *)
(*                                                                         *)
(* A counter row that does not exist yet is treated as one that does.  Two *)
(* sessions that find none both INSERT it; the second waits on the primary *)
(* key as it would on the row, and retries from there when the first has   *)
(* committed (Submissions has that race statement by statement).           *)
(***************************************************************************)
EXTENDS Billing

CONSTANT Sessions   \* the database sessions of requests being served

VARIABLE session    \* open transactions: session -> what it has done so far

transactionVars == <<vars, session>>
tables == <<invoices, payments, refunds, sequences>>

(* A lock is named by its row: the table and the key. *)

\* Planted fault: with_for_update() is missing, the row is only read.
unlocked_get_by_id(i) == {}

\* SELECT ... FOR UPDATE of an invoice.
get_by_id_for_update(i) == {<<"invoices", i>>}

\* The foreign key of a note: its INSERT takes a key-share lock on the
\* original, which FOR UPDATE excludes.
foreign_key_lock(o) == {<<"invoices", o>>}

\* Planted fault: the counter is read without FOR UPDATE.
unlocked_counter(fy, type) == {}

\* Planted fault: one counter row per year, whatever the document.
counter_of_year(fy, type) == {<<"invoice_sequences", fy>>}

counter_lock(fy, type) == {<<"invoice_sequences", fy, type>>}

\* UPDATE payments / refunds ... WHERE id = x.
soft_cancel_lock(table, x) == {<<table, x>>}

cancel_ops == {"cancel_payment", "cancel_refund"}

\* The counter of the document a request is about to number.
counter_key(work) ==
    CASE work.request.op = "create_invoice" ->
            <<work.request.financial_year, work.request.type>>
      [] work.request.op = "record_payment" ->
            <<work.rows[work.request.invoice].financial_year, "payment">>
      [] work.request.op = "record_refund" ->
            <<work.rows[work.request.invoice].financial_year, "refund">>

\* What the next statement of an open transaction locks: the lock order of
\* every handler.
next_locks(work) ==
    LET request == work.request
    IN  CASE work.pc = "checked" ->
                LET key == counter_key(work) IN counter_lock(key[1], key[2])
          [] /\ work.pc = "numbered"
             /\ request.op = "create_invoice" /\ request.type = "debit_note" ->
                foreign_key_lock(request.original)
          [] /\ work.pc = "locked" /\ request.op = "send_invoice"
             /\ ~receivable(work.rows[request.invoice]) ->
                get_by_id_for_update(work.rows[request.invoice].original)
          [] work.pc = "target_read" -> get_by_id_for_update(request.invoice)
          [] work.pc = "locked" /\ request.op \in cancel_ops ->
                soft_cancel_lock(request.op, request.target)
          [] OTHER -> {}

-----------------------------------------------------------------------------
(* Transactions. *)

held_by_others(s) == UNION {session[t].locks : t \in DOMAIN session \ {s}}

free(s, rows) == rows \cap held_by_others(s) = {}

No_position == compute_ledger_position(0, 0, 0, 0)

\* Bound: no request is begun whose row could not be given an id.
ids_left(ids, table) == ids \ DOMAIN table # {}

\* BEGIN and the first statement, which locks `locks' and reads the invoices
\* `read' (the identity map of the session holds them from then on).
begin(s, request, pc, locks, read, position) ==
    /\ s \notin DOMAIN session
    /\ free(s, locks)
    /\ session' = Insert(session, s,
         [request |-> request, pc |-> pc, locks |-> locks,
          rows |-> [i \in read |-> invoices[i]], position |-> position, number |-> 0])
    /\ UNCHANGED vars

at(s, op, pc) ==
    /\ s \in DOMAIN session
    /\ session[s].request.op = op
    /\ session[s].pc = pc

\* One more statement of an open transaction: nobody else sees anything of it.
advance(s, progress) ==
    /\ free(s, next_locks(session[s]))
    /\ session' = [session EXCEPT ![s] =
                     [progress EXCEPT !.locks = @ \cup next_locks(session[s])]]
    /\ UNCHANGED vars

\* COMMIT or ROLLBACK: the locks go with the transaction.
ended(s) == session' = [t \in DOMAIN session \ {s} |-> session[t]]

\* The handler raises, a lock wait times out, the connection is lost, the
\* process dies: get_db_session closes the session and Postgres rolls back.
RollBack(s) ==
    /\ s \in DOMAIN session
    /\ ended(s)
    /\ UNCHANGED vars

-----------------------------------------------------------------------------
(* invoice_service.create_invoice *)

\* The party is read without a lock, and so are the invoices the soft duplicate
\* check looks at; the request has passed the schema and names an invoice of the
\* tenant.  What a request says that only a later statement looks at is chosen
\* by that statement.
BeginCreateInvoice(s) ==
    \E type \in InvoiceTypes \ {"credit_note"}, party \in active,
       o \in DOMAIN invoices \cup {NoInvoice}, total \in Totals, fy \in FinancialYears,
       confirm_duplicate \in BOOLEAN :
        /\ ids_left(InvoiceIds, invoices)
        /\ create_invoice_accepted(type, party, o, total, confirm_duplicate)
        /\ begin(s, [op |-> "create_invoice", type |-> type, party |-> party,
                     original |-> o, total |-> total, financial_year |-> fy],
                 "checked", {}, {}, No_position)

\* A credit note locks its original before anything of it is looked at.
BeginCreateCreditNote(s) ==
    \E party \in active, o \in DOMAIN invoices, total \in Totals, fy \in FinancialYears :
        /\ ids_left(InvoiceIds, invoices)
        /\ party \in required_party_type("credit_note")
        /\ begin(s, [op |-> "create_invoice", type |-> "credit_note", party |-> party,
                     original |-> o, total |-> total, financial_year |-> fy],
                 "original_locked", get_by_id_for_update(o), {o}, No_position)

\* Of the original the locked row is used, of its credit notes the tables.
CheckCreditNote(s) ==
    /\ at(s, "create_invoice", "original_locked")
    /\ LET request == session[s].request
           o == request.original
           original == session[s].rows[o]
       IN  /\ original.party = request.party
           /\ validate_invoice_accepts_credit_note(original.invoice_type,
                                                   original.invoice_status)
           /\ get_active_credit_note_for_original(o, request.total) = {}
           /\ validate_credit_note_amount(request.total, original.total_amount,
                                          get_total_credited(invoices, o))
    /\ advance(s, [session[s] EXCEPT !.pc = "checked"])

\* INSERT and COMMIT.  A debit note, which has not locked its original, may
\* wait for it here with its counter already locked.
InsertInvoice(s) ==
    /\ at(s, "create_invoice", "numbered")
    /\ free(s, next_locks(session[s]))
    /\ LET request == session[s].request
       IN  /\ \E i \in InvoiceIds \ DOMAIN invoices :
                invoices' = Insert(invoices, i,
                  [invoice_type |-> request.type, party |-> request.party,
                   original |-> request.original, total_amount |-> request.total,
                   paid_amount |-> 0, credited_amount |-> 0, refunded_amount |-> 0,
                   invoice_status |-> "draft", financial_year |-> request.financial_year,
                   number |-> session[s].number])
           /\ sequences' =
                [sequences EXCEPT ![<<request.financial_year, request.type>>] = session[s].number]
    /\ ended(s)
    /\ UNCHANGED <<payments, refunds, active>>

-----------------------------------------------------------------------------
(* sequence_service.get_next_invoice_number, for the three who call it *)

TakeNumber(s) ==
    \E op \in {"create_invoice", "record_payment", "record_refund"} :
        /\ at(s, op, "checked")
        /\ LET key == counter_key(session[s])
           IN  advance(s, [session[s] EXCEPT !.pc = "numbered",
                                             !.number = next_number(key[1], key[2])])

-----------------------------------------------------------------------------
(* invoice_service.send_invoice, void_invoice *)

BeginSendInvoice(s) ==
    \E i \in DOMAIN invoices :
        /\ validate_invoice_is_mutable(invoices[i].invoice_status)
        /\ validate_invoice_number_format(invoices[i].invoice_type, invoices[i].number)
        /\ begin(s, [op |-> "send_invoice", invoice |-> i], "locked",
                 get_by_id_for_update(i), {i}, No_position)

SubmitInvoice(s) ==
    /\ at(s, "send_invoice", "locked")
    /\ LET i == session[s].request.invoice
       IN  /\ receivable(session[s].rows[i])
           /\ invoices' = submit(invoices, i)
    /\ ended(s)
    /\ UNCHANGED <<payments, refunds, sequences, active>>

\* _apply_credit_note_to_original: the original is locked after its note and
\* rechecked under the lock.
ApplyCreditNote(s) ==
    /\ at(s, "send_invoice", "locked")
    /\ LET note == session[s].rows[session[s].request.invoice]
           original == invoices[note.original]
           position == apply_credit_note(original.total_amount, original.paid_amount,
                           original.credited_amount, original.refunded_amount,
                           note.total_amount)
       IN  /\ ~receivable(note)
           /\ validate_invoice_accepts_credit_note(original.invoice_type,
                                                   original.invoice_status)
           /\ position.ok
           /\ advance(s, [session[s] EXCEPT !.pc = "credited", !.position = position])

SubmitCreditNote(s) ==
    /\ at(s, "send_invoice", "credited")
    /\ LET c == session[s].request.invoice
           o == session[s].rows[c].original
       IN  invoices' = submit(update_ledger_state(o, session[s].position), c)
    /\ ended(s)
    /\ UNCHANGED <<payments, refunds, sequences, active>>

BeginVoidInvoice(s) ==
    \E i \in DOMAIN invoices :
        /\ validate_invoice_is_voidable(invoices[i].invoice_status,
                                        invoices[i].paid_amount, invoices[i].invoice_type)
        /\ begin(s, [op |-> "void_invoice", invoice |-> i], "locked",
                 get_by_id_for_update(i), {i}, No_position)

UpdateVoidState(s) ==
    /\ at(s, "void_invoice", "locked")
    /\ invoices' = [invoices EXCEPT ![session[s].request.invoice].invoice_status = "void"]
    /\ ended(s)
    /\ UNCHANGED <<payments, refunds, sequences, active>>

-----------------------------------------------------------------------------
(* payment_service.record_payment, refund_service.record_refund *)

BeginRecordPayment(s) ==
    \E i \in DOMAIN invoices, amount \in Amounts, mode \in PaymentModes,
       confirm_duplicate \in BOOLEAN :
        /\ ids_left(PaymentIds, payments)
        /\ validate_invoice_accepts_payment(invoices[i].invoice_status)
        /\ outstanding_amount(invoices[i]) > 0
        /\ validate_payment_does_not_exceed_outstanding(amount, outstanding_amount(invoices[i]))
        /\ begin(s, [op |-> "record_payment", invoice |-> i, amount |-> amount,
                     payment_mode |-> mode, confirm_duplicate |-> confirm_duplicate],
                 "locked", get_by_id_for_update(i), {i}, position_after_payment(i, amount))

\* The hard rule is an index; this soft one holds by the invoice lock.
soft_checked(request) ==
    request.payment_mode \notin REFERENCE_REQUIRED_MODES /\ ~request.confirm_duplicate

CheckPayment(s) ==
    /\ at(s, "record_payment", "locked")
    /\ LET request == session[s].request
       IN  soft_checked(request) =>
             find_recent_similar_active_payment(request.invoice, request.amount,
                                                request.payment_mode) = {}
    /\ session[s].position.ok
    /\ advance(s, [session[s] EXCEPT !.pc = "checked"])

InsertPayment(s) ==
    /\ at(s, "record_payment", "numbered")
    /\ LET request == session[s].request
       IN  /\ \E p \in PaymentIds \ DOMAIN payments, reference \in References \cup {NoReference} :
                /\ reference_given(request.payment_mode, reference)
                /\ reference_free(payments, reference)
                /\ payments' = Insert(payments, p,
                     [invoice |-> request.invoice, amount |-> request.amount,
                      payment_mode |-> request.payment_mode, reference |-> reference,
                      status |-> "active", number |-> session[s].number])
           /\ invoices' = update_ledger_state(request.invoice, session[s].position)
           /\ sequences' = [sequences EXCEPT ![counter_key(session[s])] = session[s].number]
    /\ ended(s)
    /\ UNCHANGED <<refunds, active>>

BeginRecordRefund(s) ==
    \E i \in DOMAIN invoices, amount \in Amounts :
        /\ ids_left(RefundIds, refunds)
        /\ position_after_refund(i, amount).ok
        /\ begin(s, [op |-> "record_refund", invoice |-> i, amount |-> amount],
                 "checked", get_by_id_for_update(i), {i}, position_after_refund(i, amount))

InsertRefund(s) ==
    /\ at(s, "record_refund", "numbered")
    /\ LET request == session[s].request
       IN  /\ \E r \in RefundIds \ DOMAIN refunds, reference \in References \cup {NoReference} :
                /\ reference_free(refunds, reference)
                /\ refunds' = Insert(refunds, r,
                     [invoice |-> request.invoice, amount |-> request.amount,
                      reference |-> reference, status |-> "active",
                      number |-> session[s].number])
           /\ invoices' = update_ledger_state(request.invoice, session[s].position)
           /\ sequences' = [sequences EXCEPT ![counter_key(session[s])] = session[s].number]
    /\ ended(s)
    /\ UNCHANGED <<payments, active>>

-----------------------------------------------------------------------------
(* payment_service.cancel_payment, refund_service.cancel_refund *)

\* The fast path: the row to cancel is read, and its status looked at, before
\* any lock.
BeginCancel(s) ==
    \/ \E p \in DOMAIN payments :
        /\ payments[p].status = "active"
        /\ begin(s, [op |-> "cancel_payment", target |-> p, invoice |-> payments[p].invoice],
                 "target_read", {}, {}, No_position)
    \/ \E r \in DOMAIN refunds :
        /\ refunds[r].status = "active"
        /\ begin(s, [op |-> "cancel_refund", target |-> r, invoice |-> refunds[r].invoice],
                 "target_read", {}, {}, No_position)

LockCancelledInvoice(s) ==
    \E op \in cancel_ops :
        /\ at(s, op, "target_read")
        /\ LET i == session[s].request.invoice
           IN  advance(s, [session[s] EXCEPT !.pc = "locked",
                                             !.rows = Insert(@, i, invoices[i])])

\* Planted fault: the number of rows the UPDATE changed is not looked at.
rowcount_ignored(table, x) == TRUE

\* UPDATE ... WHERE id = x AND status = 'active' changed a row.
soft_cancel_affects(table, x) == table[x].status = "active"

SoftCancel(s) ==
    \E op \in cancel_ops :
        /\ at(s, op, "locked")
        /\ LET x == session[s].request.target
           IN  /\ soft_cancel_affects(IF op = "cancel_payment" THEN payments ELSE refunds, x)
               /\ advance(s, [session[s] EXCEPT !.pc = "soft_cancelled"])

\* The tables as the cancelling transaction sees them, its own UPDATE included.
payments_seen(request) ==
    IF request.op = "cancel_payment" THEN soft_cancel_by_id(payments, request.target) ELSE payments
refunds_seen(request) ==
    IF request.op = "cancel_refund" THEN soft_cancel_by_id(refunds, request.target) ELSE refunds

Recompute(s) ==
    \E op \in cancel_ops :
        /\ at(s, op, "soft_cancelled")
        /\ LET request == session[s].request
               position == recomputed_position(request.invoice, payments_seen(request),
                                               refunds_seen(request))
           IN  /\ position.ok
               /\ advance(s, [session[s] EXCEPT !.pc = "recomputed", !.position = position])

CommitCancel(s) ==
    \E op \in cancel_ops :
        /\ at(s, op, "recomputed")
        /\ LET request == session[s].request
           IN  /\ payments' = payments_seen(request)
               /\ refunds' = refunds_seen(request)
               /\ invoices' = update_ledger_state(request.invoice, session[s].position)
        /\ ended(s)
        /\ UNCHANGED <<sequences, active>>

-----------------------------------------------------------------------------

\* One UPDATE of a party row, which no foreign key of an invoice excludes.
CommitSetPartyActive == SetPartyActive /\ UNCHANGED session

InitTransactions == Init /\ session = << >>

NextTransactions ==
    \/ CommitSetPartyActive
    \/ \E s \in Sessions :
        \/ BeginCreateInvoice(s)
        \/ BeginCreateCreditNote(s)
        \/ CheckCreditNote(s)
        \/ TakeNumber(s)
        \/ InsertInvoice(s)
        \/ BeginSendInvoice(s)
        \/ SubmitInvoice(s)
        \/ ApplyCreditNote(s)
        \/ SubmitCreditNote(s)
        \/ BeginVoidInvoice(s)
        \/ UpdateVoidState(s)
        \/ BeginRecordPayment(s)
        \/ CheckPayment(s)
        \/ InsertPayment(s)
        \/ BeginRecordRefund(s)
        \/ InsertRefund(s)
        \/ BeginCancel(s)
        \/ LockCancelledInvoice(s)
        \/ SoftCancel(s)
        \/ Recompute(s)
        \/ CommitCancel(s)
        \/ RollBack(s)

SpecTransactions == InitTransactions /\ [][NextTransactions]_transactionVars

=============================================================================
