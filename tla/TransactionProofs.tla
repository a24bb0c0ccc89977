------------------------- MODULE TransactionProofs -------------------------
(***************************************************************************)
(* Requests that run at once move the committed tables as requests that    *)
(* run alone do, and never wait for each other in a circle, for every set  *)
(* of sessions, invoices, payments and refunds and for all amounts.        *)
(*                                                                         *)
(* The inductive invariant says of every open transaction what it is by    *)
(* itself (`shape': its statement, its locks, what it has computed from    *)
(* the rows it has read) and that this still agrees with the committed     *)
(* tables (`fits').  The second part survives the commits of others        *)
(* because whatever it looks at is locked: a commit leaves alone the       *)
(* invoices, rows and counters outside its own locks (`invoices_left',     *)
(* `rows_left', `counters_left'), and no row has two holders.              *)
(***************************************************************************)
EXTENDS TransactionProperties, BillingProofs

-----------------------------------------------------------------------------
(* An open transaction by itself. *)

numbered(work) == work.pc = "numbered"
past_update(work) == work.pc \in {"soft_cancelled", "recomputed"}

\* A credit note being sent has locked its original but not read it for good.
locked_invoices(work) ==
    DOMAIN work.rows \cup
        (IF work.pc = "credited" THEN {work.rows[work.request.invoice].original} ELSE {})

counters_held(work) ==
    IF numbered(work)
    THEN LET key == counter_key(work) IN counter_lock(key[1], key[2])
    ELSE {}

targets_held(work) ==
    IF past_update(work) THEN soft_cancel_lock(work.request.op, work.request.target) ELSE {}

invoices_held(work) == UNION {get_by_id_for_update(i) : i \in locked_invoices(work)}

locks_held(work) == invoices_held(work) \cup counters_held(work) \cup targets_held(work)

creating(work) ==
    LET request == work.request
    IN  /\ request.op = "create_invoice"
        /\ request.type \in InvoiceTypes
        /\ request.party \in required_party_type(request.type)
        /\ request.total \in Totals
        /\ request.financial_year \in FinancialYears
        /\ request.type \notin Notes => request.original = NoInvoice
        /\ IF request.type = "credit_note"
           THEN /\ work.pc \in {"original_locked", "checked", "numbered"}
                /\ DOMAIN work.rows = {request.original}
           ELSE work.pc \in {"checked", "numbered"} /\ DOMAIN work.rows = {}

sending(work) ==
    LET request == work.request
        row == work.rows[request.invoice]
    IN  /\ request.op = "send_invoice"
        /\ work.pc \in {"locked", "credited"}
        /\ DOMAIN work.rows = {request.invoice}
        /\ validate_invoice_is_mutable(row.invoice_status)
        /\ validate_invoice_number_format(row.invoice_type, row.number)
        /\ work.pc = "credited" => ~receivable(row)

voiding(work) ==
    LET request == work.request
        row == work.rows[request.invoice]
    IN  /\ request.op = "void_invoice"
        /\ work.pc = "locked"
        /\ DOMAIN work.rows = {request.invoice}
        /\ validate_invoice_is_voidable(row.invoice_status, row.paid_amount,
                                        row.invoice_type)

paying(work) ==
    LET request == work.request
        row == work.rows[request.invoice]
    IN  /\ request.op = "record_payment"
        /\ work.pc \in {"locked", "checked", "numbered"}
        /\ request.amount \in Amounts
        /\ request.payment_mode \in PaymentModes
        /\ request.confirm_duplicate \in BOOLEAN
        /\ DOMAIN work.rows = {request.invoice}
        /\ validate_invoice_accepts_payment(row.invoice_status)
        /\ outstanding_amount(row) > 0
        /\ validate_payment_does_not_exceed_outstanding(request.amount,
                                                        outstanding_amount(row))
        /\ work.position = apply_payment(row.total_amount, row.paid_amount,
                               row.credited_amount, row.refunded_amount, request.amount)
        /\ work.pc # "locked" => work.position.ok

refunding(work) ==
    LET request == work.request
        row == work.rows[request.invoice]
    IN  /\ request.op = "record_refund"
        /\ work.pc \in {"checked", "numbered"}
        /\ request.amount \in Amounts
        /\ DOMAIN work.rows = {request.invoice}
        /\ work.position = apply_refund(row.total_amount, row.paid_amount,
                               row.credited_amount, row.refunded_amount, request.amount)
        /\ work.position.ok

cancelling(work) ==
    LET request == work.request
    IN  /\ request.op \in cancel_ops
        /\ work.pc \in {"target_read", "locked", "soft_cancelled", "recomputed"}
        /\ DOMAIN work.rows = IF work.pc = "target_read" THEN {} ELSE {request.invoice}
        /\ work.pc = "recomputed" => work.position.ok

shape(work) ==
    /\ DOMAIN work = {"request", "pc", "locks", "rows", "position", "number"}
    /\ \/ creating(work) \/ sending(work) \/ voiding(work)
       \/ paying(work) \/ refunding(work) \/ cancelling(work)
    /\ work.locks = locks_held(work)
    /\ work.number \in Nat

-----------------------------------------------------------------------------
(* An open transaction and the committed tables. *)

\* What it has read and locked is what is stored.
rows_fit(invs, work) ==
    \A i \in DOMAIN work.rows : i \in DOMAIN invs /\ work.rows[i] = invs[i]

number_fits(seqs, work) ==
    numbered(work) => work.number = seqs[counter_key(work)] + 1

past_checks(work) ==
    /\ work.request.op = "create_invoice"
    /\ work.request.type \in Notes
    /\ work.pc # "original_locked"

\* The original of a note, which a debit note has not locked.
original_fits(invs, work) ==
    past_checks(work) =>
        /\ work.request.original \in DOMAIN invs
        /\ invs[work.request.original].party = work.request.party

note_fits(invs, work) ==
    (past_checks(work) /\ work.request.type = "credit_note") =>
        LET o == work.request.original
        IN  /\ validate_invoice_accepts_credit_note(invs[o].invoice_type,
                                                    invs[o].invoice_status)
            /\ \A c \in notes_against(invs, o, InvoiceStatuses \ {"void"}) :
                  invs[c].total_amount # work.request.total
            /\ validate_credit_note_amount(work.request.total, invs[o].total_amount,
                                           get_total_credited(invs, o))

credit_fits(invs, work) ==
    work.pc = "credited" =>
        LET note == work.rows[work.request.invoice]
            o == note.original
        IN  /\ o \in DOMAIN invs
            /\ validate_invoice_accepts_credit_note(invs[o].invoice_type,
                                                    invs[o].invoice_status)
            /\ work.position = apply_credit_note(invs[o].total_amount,
                                   invs[o].paid_amount, invs[o].credited_amount,
                                   invs[o].refunded_amount, note.total_amount)
            /\ work.position.ok

similar_fits(pays, work) ==
    (/\ work.request.op = "record_payment" /\ soft_checked(work.request)
     /\ work.pc \in {"checked", "numbered"}) =>
        \A p \in active_rows(pays, work.request.invoice) :
            ~ (/\ pays[p].amount = work.request.amount
               /\ pays[p].payment_mode = work.request.payment_mode)

\* The row to cancel is there, and active once the UPDATE has affected it.
target_fits(table, op, work) ==
    work.request.op = op =>
        /\ work.request.target \in DOMAIN table
        /\ table[work.request.target].invoice = work.request.invoice
        /\ past_update(work) => table[work.request.target].status = "active"

\* The rows of a table as its own UPDATE leaves them.
seen(table, op, request) ==
    IF request.op = op THEN soft_cancel_by_id(table, request.target) ELSE table

recomputation_fits(invs, pays, refs, work) ==
    work.pc = "recomputed" =>
        LET i == work.request.invoice
        IN  work.position =
                compute_ledger_position(invs[i].total_amount,
                    get_total_paid_for_invoice(seen(pays, "cancel_payment", work.request), i),
                    get_total_credited(invs, i),
                    get_total_active_for_invoice(seen(refs, "cancel_refund", work.request), i))

fits(invs, pays, refs, seqs, work) ==
    /\ rows_fit(invs, work)
    /\ number_fits(seqs, work)
    /\ original_fits(invs, work)
    /\ note_fits(invs, work)
    /\ credit_fits(invs, work)
    /\ similar_fits(pays, work)
    /\ target_fits(pays, "cancel_payment", work)
    /\ target_fits(refs, "cancel_refund", work)
    /\ recomputation_fits(invs, pays, refs, work)

-----------------------------------------------------------------------------
(* The invariant. *)

\* What a credit note corrects is a sale or a purchase, also while it is a draft.
OriginalsCreditable ==
    \A c \in DOMAIN invoices : ~receivable(invoices[c]) =>
        invoices[invoices[c].original].invoice_type \in CREDITABLE_ORIGINAL_TYPES

SessionsShaped ==
    /\ DOMAIN session \subseteq Sessions
    /\ \A s \in DOMAIN session : shape(session[s])

SessionsFit ==
    \A s \in DOMAIN session : fits(invoices, payments, refunds, sequences, session[s])

LocksExclusive ==
    \A s, t \in DOMAIN session :
        s # t => session[s].locks \cap session[t].locks = {}

TInv ==
    /\ IInv
    /\ OriginalsCreditable
    /\ SessionsShaped
    /\ SessionsFit
    /\ LocksExclusive

-----------------------------------------------------------------------------
(* What a transaction holds. *)

LEMMA HeldInvoices ==
    ASSUME NEW work, shape(work)
    PROVE  \A i : <<"invoices", i>> \in work.locks <=> i \in locked_invoices(work)
<1> TAKE i
<1>1. <<"invoices", i>> \notin counters_held(work)
  BY DEF counters_held, counter_lock
<1>2. <<"invoices", i>> \notin targets_held(work)
  <2>1. past_update(work) => work.request.op \in cancel_ops
    BY DEF shape, past_update, creating, sending, voiding, paying, refunding, cancelling
  <2> QED BY <2>1 DEF targets_held, soft_cancel_lock, cancel_ops
<1>3. <<"invoices", i>> \in invoices_held(work) <=> i \in locked_invoices(work)
  BY DEF invoices_held, get_by_id_for_update
<1>4. work.locks = locks_held(work)
  BY DEF shape
<1> QED BY <1>1, <1>2, <1>3, <1>4 DEF locks_held

LEMMA HeldCounters ==
    ASSUME NEW work, shape(work), NEW fy, NEW type
    PROVE  <<"invoice_sequences", fy, type>> \in work.locks
               <=> numbered(work) /\ counter_key(work)[1] = fy /\ counter_key(work)[2] = type
<1> DEFINE row == <<"invoice_sequences", fy, type>>
<1>1. row \in counters_held(work)
          <=> numbered(work) /\ counter_key(work)[1] = fy /\ counter_key(work)[2] = type
  BY DEF counters_held, counter_lock
<1>2. row \notin targets_held(work)
  BY DEF targets_held, soft_cancel_lock
<1>3. row \notin invoices_held(work)
  BY DEF invoices_held, get_by_id_for_update
<1>4. work.locks = locks_held(work)
  BY DEF shape
<1> QED BY <1>1, <1>2, <1>3, <1>4 DEF locks_held

LEMMA HeldTargets ==
    ASSUME NEW work, shape(work), NEW op \in cancel_ops, NEW x
    PROVE  <<op, x>> \in work.locks
               <=> past_update(work) /\ work.request.op = op /\ work.request.target = x
<1> DEFINE row == <<op, x>>
<1>1. row \in targets_held(work)
          <=> past_update(work) /\ work.request.op = op /\ work.request.target = x
  BY DEF targets_held, soft_cancel_lock
<1>2. row \notin counters_held(work)
  BY DEF counters_held, counter_lock
<1>3. row \notin invoices_held(work)
  BY DEF invoices_held, get_by_id_for_update, cancel_ops
<1>4. work.locks = locks_held(work)
  BY DEF shape
<1> QED BY <1>1, <1>2, <1>3, <1>4 DEF locks_held

-----------------------------------------------------------------------------
(* What a commit leaves alone. *)

invoices_left(old, new, locks) ==
    /\ DOMAIN old \subseteq DOMAIN new
    /\ \A i \in DOMAIN old :
          /\ <<"invoices", i>> \notin locks => new[i] = old[i]
          /\ new[i].party = old[i].party
    /\ \A c \in DOMAIN old :
          old[c].invoice_type = "credit_note" /\ <<"invoices", old[c].original>> \notin locks
              => new[c] = old[c]
    /\ \A c \in DOMAIN new :
          new[c].invoice_type = "credit_note" /\ <<"invoices", new[c].original>> \notin locks
              => c \in DOMAIN old /\ new[c] = old[c]

rows_left(old, new, locks) ==
    /\ DOMAIN old \subseteq DOMAIN new
    /\ \A x \in DOMAIN old : new[x].invoice = old[x].invoice
    /\ \A x \in DOMAIN new :
          <<"invoices", new[x].invoice>> \notin locks => x \in DOMAIN old /\ new[x] = old[x]

counters_left(old, new, locks) ==
    \A fy \in FinancialYears, type \in DocumentTypes :
        <<"invoice_sequences", fy, type>> \notin locks => new[<<fy, type>>] = old[<<fy, type>>]

LEMMA NotesLeft ==
    ASSUME NEW old, NEW new, NEW locks, invoices_left(old, new, locks),
           NEW o, <<"invoices", o>> \notin locks
    PROVE  /\ \A statuses : notes_against(new, o, statuses) = notes_against(old, o, statuses)
           /\ \A statuses : \A c \in notes_against(old, o, statuses) : new[c] = old[c]
           /\ get_total_credited(new, o) = get_total_credited(old, o)
<1>1. ASSUME NEW statuses
      PROVE  /\ notes_against(new, o, statuses) = notes_against(old, o, statuses)
             /\ \A c \in notes_against(old, o, statuses) : c \in DOMAIN new /\ new[c] = old[c]
  BY DEF invoices_left, notes_against
<1> DEFINE credited == notes_against(old, o, {"sent", "partial", "paid"})
<1>2. \A c \in credited : totals(new)[c] = totals(old)[c]
  <2>1. \A c \in credited : c \in DOMAIN old /\ c \in DOMAIN new /\ new[c] = old[c]
    BY <1>1 DEF notes_against
  <2> QED BY <2>1 DEF totals
<1>3. Sum(credited, totals(new)) = Sum(credited, totals(old))
  <2> HIDE DEF credited
  <2> QED BY <1>2, SumSame
<1> QED BY <1>1, <1>3 DEF get_total_credited

LEMMA ActiveRowsLeft ==
    ASSUME NEW old, NEW new, NEW locks, rows_left(old, new, locks),
           NEW i, <<"invoices", i>> \notin locks
    PROVE  /\ active_rows(new, i) = active_rows(old, i)
           /\ \A x \in active_rows(old, i) : new[x] = old[x]
           /\ Sum(active_rows(new, i), amounts(new)) = Sum(active_rows(old, i), amounts(old))
<1>1. /\ active_rows(new, i) = active_rows(old, i)
      /\ \A x \in active_rows(old, i) : x \in DOMAIN old /\ x \in DOMAIN new /\ new[x] = old[x]
  BY DEF rows_left, active_rows
<1> DEFINE rows == active_rows(old, i)
<1>2. \A x \in rows : amounts(new)[x] = amounts(old)[x]
  BY <1>1 DEF amounts
<1>3. Sum(rows, amounts(new)) = Sum(rows, amounts(old))
  <2> HIDE DEF rows
  <2> QED BY <1>2, SumSame
<1> QED BY <1>1, <1>3

LEMMA SeenLeft ==
    ASSUME NEW old, NEW new, NEW locks, rows_left(old, new, locks), NEW op, NEW request,
           request.op = op =>
               /\ request.target \in DOMAIN old
               /\ <<"invoices", old[request.target].invoice>> \notin locks
    PROVE  rows_left(seen(old, op, request), seen(new, op, request), locks)
<1>1. CASE request.op # op
  BY <1>1 DEF seen
<1>2. CASE request.op = op
  <2> DEFINE x == request.target
             old2 == soft_cancel_by_id(old, x)
             new2 == soft_cancel_by_id(new, x)
  <2>1. x \in DOMAIN old /\ x \in DOMAIN new /\ new[x] = old[x]
    BY <1>2 DEF rows_left
  <2>2. /\ DOMAIN old2 = DOMAIN old /\ DOMAIN new2 = DOMAIN new
        /\ old2[x] = new2[x]
        /\ \A y \in DOMAIN old \ {x} : old2[y] = old[y]
        /\ \A y \in DOMAIN new \ {x} : new2[y] = new[y]
    BY <2>1 DEF soft_cancel_by_id
  <2> HIDE DEF old2, new2, x
  <2>3. rows_left(old2, new2, locks)
    BY <2>1, <2>2 DEF rows_left
  <2> QED BY <1>2, <2>3 DEF seen, old2, new2, x
<1> QED BY <1>1, <1>2

\* The request of a transaction says of which kind it is, and so do some statements.
LEMMA Kinds ==
    ASSUME NEW work, shape(work)
    PROVE  /\ work.request.op = "create_invoice" => creating(work)
           /\ work.request.op = "send_invoice" => sending(work)
           /\ work.request.op = "void_invoice" => voiding(work)
           /\ work.request.op = "record_payment" => paying(work)
           /\ work.request.op = "record_refund" => refunding(work)
           /\ work.request.op \in cancel_ops => cancelling(work)
           /\ work.pc = "credited" => sending(work)
           /\ past_update(work) => cancelling(work)
           /\ numbered(work) => creating(work) \/ paying(work) \/ refunding(work)
<1>1. creating(work) => /\ work.request.op = "create_invoice"
                        /\ work.pc \in {"original_locked", "checked", "numbered"}
  BY DEF creating
<1>2. sending(work) => work.request.op = "send_invoice" /\ work.pc \in {"locked", "credited"}
  BY DEF sending
<1>3. voiding(work) => work.request.op = "void_invoice" /\ work.pc = "locked"
  BY DEF voiding
<1>4. paying(work) => /\ work.request.op = "record_payment"
                      /\ work.pc \in {"locked", "checked", "numbered"}
  BY DEF paying
<1>5. refunding(work) => /\ work.request.op = "record_refund"
                         /\ work.pc \in {"checked", "numbered"}
  BY DEF refunding
<1>6. cancelling(work) =>
          /\ work.request.op \in cancel_ops
          /\ work.pc \in {"target_read", "locked", "soft_cancelled", "recomputed"}
  BY DEF cancelling
<1> QED BY <1>1, <1>2, <1>3, <1>4, <1>5, <1>6 DEF shape, cancel_ops, past_update, numbered

(***************************************************************************)
(* What an open transaction relies on it has locked: a commit under other  *)
(* locks leaves it right.                                                  *)
(***************************************************************************)
LEMMA FitsKept ==
    ASSUME NEW invs, NEW invs2, NEW pays, NEW pays2, NEW refs, NEW refs2,
           NEW seqs, NEW seqs2, NEW locks, NEW work,
           shape(work), fits(invs, pays, refs, seqs, work), work.locks \cap locks = {},
           numbered(work) => counter_key(work) \in FinancialYears \X DocumentTypes,
           invoices_left(invs, invs2, locks),
           rows_left(pays, pays2, locks), rows_left(refs, refs2, locks),
           counters_left(seqs, seqs2, locks)
    PROVE  fits(invs2, pays2, refs2, seqs2, work)
<1>1. \A i \in locked_invoices(work) : <<"invoices", i>> \notin locks
  BY HeldInvoices
<1>2. DOMAIN work.rows \subseteq locked_invoices(work)
  BY DEF locked_invoices
<1>3. \A i \in DOMAIN work.rows :
         /\ i \in DOMAIN invs /\ i \in DOMAIN invs2
         /\ work.rows[i] = invs[i] /\ invs2[i] = invs[i]
         /\ <<"invoices", i>> \notin locks
  BY <1>1, <1>2 DEF fits, rows_fit, invoices_left
<1>4. rows_fit(invs2, work)
  BY <1>3 DEF rows_fit
<1>5. number_fits(seqs2, work)
  <2> SUFFICES ASSUME numbered(work) PROVE work.number = seqs2[counter_key(work)] + 1
    BY DEF number_fits
  <2>1. PICK fy \in FinancialYears, type \in DocumentTypes : counter_key(work) = <<fy, type>>
    OBVIOUS
  <2>2. <<"invoice_sequences", fy, type>> \notin locks
    BY <2>1, HeldCounters
  <2>3. seqs2[<<fy, type>>] = seqs[<<fy, type>>]
    BY <2>2 DEF counters_left
  <2> QED BY <2>1, <2>3 DEF fits, number_fits
<1>6. original_fits(invs2, work)
  BY DEF fits, original_fits, invoices_left
<1>7. note_fits(invs2, work)
  <2> DEFINE o == work.request.original
  <2> SUFFICES ASSUME past_checks(work), work.request.type = "credit_note"
               PROVE  note_fits(invs2, work)
    BY DEF note_fits
  <2>1. o \in DOMAIN work.rows
    BY Kinds DEF past_checks, creating
  <2>2. invs2[o] = invs[o] /\ <<"invoices", o>> \notin locks
    BY <1>3, <2>1
  <2>3. note_fits(invs, work)
    BY DEF fits
  <2>4. LET st == InvoiceStatuses \ {"void"}
        IN  /\ notes_against(invs2, o, st) = notes_against(invs, o, st)
            /\ \A c \in notes_against(invs, o, st) : invs2[c] = invs[c]
    BY <2>2, NotesLeft
  <2>5. get_total_credited(invs2, o) = get_total_credited(invs, o)
    BY <2>2, NotesLeft
  <2> QED BY <2>2, <2>3, <2>4, <2>5 DEF note_fits
<1>8. credit_fits(invs2, work)
  <2> SUFFICES ASSUME work.pc = "credited" PROVE credit_fits(invs2, work)
    BY DEF credit_fits
  <2> DEFINE o == work.rows[work.request.invoice].original
  <2>1. o \in locked_invoices(work)
    BY DEF locked_invoices
  <2>2. credit_fits(invs, work) /\ o \in DOMAIN invs
    BY DEF fits, credit_fits
  <2>3. o \in DOMAIN invs2 /\ invs2[o] = invs[o]
    BY <1>1, <2>1, <2>2 DEF invoices_left
  <2> QED BY <2>2, <2>3 DEF credit_fits
<1>9. similar_fits(pays2, work)
  <2> DEFINE i == work.request.invoice
  <2> SUFFICES ASSUME work.request.op = "record_payment" PROVE similar_fits(pays2, work)
    BY DEF similar_fits
  <2>1. i \in DOMAIN work.rows
    BY Kinds DEF paying
  <2>2. /\ active_rows(pays2, i) = active_rows(pays, i)
        /\ \A x \in active_rows(pays, i) : pays2[x] = pays[x]
    <3>1. <<"invoices", i>> \notin locks
      BY <1>3, <2>1
    <3> HIDE DEF i
    <3> QED BY <3>1, ActiveRowsLeft
  <2>3. similar_fits(pays, work)
    BY DEF fits
  <2> QED BY <2>2, <2>3 DEF similar_fits
<1>10. ASSUME NEW old, NEW new, rows_left(old, new, locks), NEW op \in cancel_ops,
              target_fits(old, op, work)
       PROVE  target_fits(new, op, work)
  <2> SUFFICES ASSUME work.request.op = op PROVE target_fits(new, op, work)
    BY DEF target_fits
  <2>1. past_update(work) => work.request.invoice \in DOMAIN work.rows
    BY Kinds DEF cancelling, past_update
  <2> QED BY <1>3, <1>10, <2>1 DEF target_fits, rows_left
<1>11. /\ target_fits(pays2, "cancel_payment", work)
       /\ target_fits(refs2, "cancel_refund", work)
  BY <1>10 DEF fits, cancel_ops
<1>12. recomputation_fits(invs2, pays2, refs2, work)
  <2> DEFINE i == work.request.invoice
             request == work.request
  <2> SUFFICES ASSUME work.pc = "recomputed"
               PROVE  recomputation_fits(invs2, pays2, refs2, work)
    BY DEF recomputation_fits
  <2>1. i \in DOMAIN work.rows
    BY Kinds DEF cancelling, past_update
  <2>2. invs2[i] = invs[i] /\ <<"invoices", i>> \notin locks
    BY <1>3, <2>1
  <2>3. get_total_credited(invs2, i) = get_total_credited(invs, i)
    BY <2>2, NotesLeft
  <2>4. get_total_paid_for_invoice(seen(pays2, "cancel_payment", request), i)
          = get_total_paid_for_invoice(seen(pays, "cancel_payment", request), i)
    <3>1. rows_left(seen(pays, "cancel_payment", request),
                    seen(pays2, "cancel_payment", request), locks)
      BY <2>2, SeenLeft DEF fits, target_fits
    <3> QED BY <2>2, <3>1, ActiveRowsLeft DEF get_total_paid_for_invoice
  <2>5. get_total_active_for_invoice(seen(refs2, "cancel_refund", request), i)
          = get_total_active_for_invoice(seen(refs, "cancel_refund", request), i)
    <3>1. rows_left(seen(refs, "cancel_refund", request),
                    seen(refs2, "cancel_refund", request), locks)
      BY <2>2, SeenLeft DEF fits, target_fits
    <3> QED BY <2>2, <3>1, ActiveRowsLeft DEF get_total_active_for_invoice
  <2> QED BY <2>2, <2>3, <2>4, <2>5 DEF fits, recomputation_fits
<1> QED BY <1>4, <1>5, <1>6, <1>7, <1>8, <1>9, <1>11, <1>12 DEF fits

-----------------------------------------------------------------------------
(* What the steps of Billing leave alone. *)

LEMMA MovesLeave ==
    ASSUME NEW i, NEW paid, NEW credited, NEW refunded, moves(i, paid, credited, refunded),
           NEW locks, <<"invoices", i>> \in locks
    PROVE  invoices_left(invoices, invoices', locks)
BY DEF moves, bears_money, receivable, same_header, invoices_left

LEMMA RestatesLeave ==
    ASSUME NEW i, NEW status, restates(i, status), receivable(invoices[i]),
           NEW locks, <<"invoices", i>> \in locks
    PROVE  invoices_left(invoices, invoices', locks)
BY DEF restates, receivable, same_header, invoices_left

LEMMA CreditLeaves ==
    ASSUME IInv, NEW c \in InvoiceIds, send_credit_note(c), NEW locks,
           <<"invoices", c>> \in locks, <<"invoices", invoices[c].original>> \in locks
    PROVE  invoices_left(invoices, invoices', locks)
<1> DEFINE o == invoices[c].original
<1>1. /\ c \in DOMAIN invoices /\ o \in DOMAIN invoices \ {c}
      /\ bears_money(invoices[o])
      /\ DOMAIN invoices' = DOMAIN invoices
      /\ \A j \in DOMAIN invoices \ {c, o} : invoices'[j] = invoices[j]
      /\ same_header(invoices[c], invoices'[c])
      /\ same_header(invoices[o], invoices'[o])
  BY SendCreditNoteMoves
<1>2. <<"invoices", o>> \in locks /\ invoices[c].original = o
  OBVIOUS
<1> HIDE DEF o
<1> QED BY <1>1, <1>2 DEF bears_money, receivable, same_header, invoices_left

LEMMA InsertLeaves ==
    ASSUME NEW i, i \notin DOMAIN invoices, NEW row, invoices' = Insert(invoices, i, row),
           NEW locks,
           row.invoice_type = "credit_note" => <<"invoices", row.original>> \in locks
    PROVE  invoices_left(invoices, invoices', locks)
<1>1. /\ DOMAIN invoices' = DOMAIN invoices \cup {i}
      /\ invoices'[i] = row
      /\ \A j \in DOMAIN invoices : invoices'[j] = invoices[j]
  BY DEF Insert
<1> QED BY <1>1 DEF invoices_left

LEMMA RowInsertedLeaves ==
    ASSUME NEW table, NEW x, x \notin DOMAIN table, NEW row, NEW locks,
           <<"invoices", row.invoice>> \in locks
    PROVE  rows_left(table, Insert(table, x, row), locks)
BY DEF Insert, rows_left

LEMMA RowCancelledLeaves ==
    ASSUME NEW table, NEW x \in DOMAIN table, "invoice" \in DOMAIN table[x], NEW locks,
           <<"invoices", table[x].invoice>> \in locks
    PROVE  rows_left(table, soft_cancel_by_id(table, x), locks)
<1> DEFINE new == soft_cancel_by_id(table, x)
<1>1. /\ DOMAIN new = DOMAIN table
      /\ new[x].invoice = table[x].invoice
      /\ \A y \in DOMAIN table \ {x} : new[y] = table[y]
  BY DEF soft_cancel_by_id
<1> HIDE DEF new
<1> QED BY <1>1 DEF rows_left, new

LEMMA NumberLeaves ==
    ASSUME TypeOK, NEW fy \in FinancialYears, NEW type \in DocumentTypes,
           get_next_invoice_number(fy, type), NEW locks,
           <<"invoice_sequences", fy, type>> \in locks
    PROVE  counters_left(sequences, sequences', locks)
BY DEF TypeOK, get_next_invoice_number, counters_left

LEMMA UntouchedLeft ==
    ASSUME NEW table, NEW locks
    PROVE  /\ invoices_left(table, table, locks)
           /\ rows_left(table, table, locks)
           /\ counters_left(table, table, locks)
BY DEF invoices_left, rows_left, counters_left

-----------------------------------------------------------------------------
(* Every commit is a step of Billing, and touches nothing it has not locked. *)

commits_under(locks) ==
    /\ NextForAnyParty
    /\ invoices_left(invoices, invoices', locks)
    /\ rows_left(payments, payments', locks)
    /\ rows_left(refunds, refunds', locks)
    /\ counters_left(sequences, sequences', locks)

LEMMA OpenTransaction ==
    ASSUME TInv, NEW s \in DOMAIN session
    PROVE  /\ shape(session[s])
           /\ fits(invoices, payments, refunds, sequences, session[s])
           /\ \A i \in DOMAIN session[s].rows :
                 /\ i \in DOMAIN invoices /\ i \in InvoiceIds
                 /\ session[s].rows[i] = invoices[i]
                 /\ invoices[i] \in InvoiceRow
                 /\ <<"invoices", i>> \in session[s].locks
<1>1. /\ shape(session[s])
      /\ fits(invoices, payments, refunds, sequences, session[s])
  BY DEF TInv, SessionsShaped, SessionsFit
<1>2. TypeOK
  BY DEF TInv, IInv
<1>3. \A i \in DOMAIN session[s].rows : <<"invoices", i>> \in session[s].locks
  BY <1>1, HeldInvoices DEF locked_invoices
<1> QED BY <1>1, <1>2, <1>3 DEF TypeOK, fits, rows_fit

LEMMA InsertInvoiceCommits ==
    ASSUME TInv, NEW s \in Sessions, InsertInvoice(s), NEW work, work = session[s]
    PROVE  commits_under(work.locks)
<1> DEFINE request == work.request
           o == request.original
           fy == request.financial_year
<1>1. /\ s \in DOMAIN session /\ creating(work) /\ numbered(work)
      /\ shape(work) /\ fits(invoices, payments, refunds, sequences, work)
      /\ \A i \in DOMAIN work.rows : <<"invoices", i>> \in work.locks
      /\ request.op = "create_invoice"
  BY OpenTransaction, Kinds DEF InsertInvoice, at, numbered
<1>2. TypeOK
  BY DEF TInv, IInv
<1>3. /\ request.type \in InvoiceTypes /\ fy \in FinancialYears /\ request.total \in Totals
      /\ request.type \in DocumentTypes
      /\ request.party \in required_party_type(request.type) /\ request.party \in Parties
  BY <1>1 DEF creating, required_party_type, Parties, InvoiceTypes, DocumentTypes
<1>4. counter_key(work) = <<fy, request.type>>
  BY <1>1 DEF counter_key
<1>5. work.number = next_number(fy, request.type)
  BY <1>1, <1>4 DEF fits, number_fits, next_number
<1>6. original_matches(request.type, request.party, o)
  BY <1>1 DEF fits, original_fits, past_checks, numbered, creating, original_matches
<1>7. request.type = "credit_note" => credit_note_accepted(o, request.total)
  BY <1>1 DEF fits, note_fits, past_checks, numbered, Notes, credit_note_accepted,
              get_active_credit_note_for_original
<1>8. o \in InvoiceIds \cup {NoInvoice}
  BY <1>2, <1>6 DEF original_matches, TypeOK
<1>9. get_next_invoice_number(fy, request.type)
  BY <1>5 DEF InsertInvoice, get_next_invoice_number
<1>10. PICK i \in InvoiceIds \ DOMAIN invoices :
          invoices' = Insert(invoices, i,
            [invoice_type |-> request.type, party |-> request.party, original |-> o,
             total_amount |-> request.total, paid_amount |-> 0, credited_amount |-> 0,
             refunded_amount |-> 0, invoice_status |-> "draft", financial_year |-> fy,
             number |-> next_number(fy, request.type)])
  BY <1>5 DEF InsertInvoice
<1>11. UNCHANGED <<payments, refunds, active>>
  BY DEF InsertInvoice
<1>12. NextForAnyParty
  <2>1. create_for_any_party(i, request.type, request.party, o, request.total, fy)
    BY <1>3, <1>6, <1>7, <1>9, <1>10, <1>11 DEF create_for_any_party
  <2> QED BY <1>3, <1>8, <1>10, <2>1 DEF NextForAnyParty, CreateForAnyParty
<1>13. invoices_left(invoices, invoices', work.locks)
  <2>1. request.type = "credit_note" => <<"invoices", o>> \in work.locks
    BY <1>1 DEF creating
  <2> QED BY <1>10, <2>1, InsertLeaves
<1>14. counters_left(sequences, sequences', work.locks)
  <2>1. <<"invoice_sequences", fy, request.type>> \in work.locks
    BY <1>1, <1>4, HeldCounters
  <2> QED BY <1>2, <1>3, <1>9, <2>1, NumberLeaves
<1> QED BY <1>11, <1>12, <1>13, <1>14, UntouchedLeft DEF commits_under

LEMMA SubmitInvoiceCommits ==
    ASSUME TInv, NEW s \in Sessions, SubmitInvoice(s), NEW work, work = session[s]
    PROVE  commits_under(work.locks)
<1> DEFINE i == work.request.invoice
<1>1. /\ s \in DOMAIN session /\ sending(work) /\ i \in DOMAIN work.rows
  BY OpenTransaction, Kinds DEF SubmitInvoice, at, sending
<1>2. /\ i \in DOMAIN invoices /\ i \in InvoiceIds /\ work.rows[i] = invoices[i]
      /\ <<"invoices", i>> \in work.locks
  BY <1>1, OpenTransaction
<1>3. send_invoice(i)
  BY <1>1, <1>2 DEF SubmitInvoice, sending, send_invoice
<1>4. IInv
  BY DEF TInv
<1>5. invoices_left(invoices, invoices', work.locks)
  BY <1>2, <1>3, <1>4, SendInvoiceRestates, RestatesLeave
<1>6. NextForAnyParty
  BY <1>2, <1>3 DEF NextForAnyParty, SendInvoice
<1>7. UNCHANGED <<payments, refunds, sequences>>
  BY DEF SubmitInvoice
<1> QED BY <1>5, <1>6, <1>7, UntouchedLeft DEF commits_under

LEMMA SubmitCreditNoteCommits ==
    ASSUME TInv, NEW s \in Sessions, SubmitCreditNote(s), NEW work, work = session[s]
    PROVE  commits_under(work.locks)
<1> DEFINE c == work.request.invoice
           o == work.rows[c].original
<1>1. /\ s \in DOMAIN session /\ shape(work) /\ sending(work) /\ c \in DOMAIN work.rows
      /\ work.pc = "credited" /\ credit_fits(invoices, work)
  BY OpenTransaction, Kinds DEF SubmitCreditNote, at, sending, fits
<1>2. /\ c \in DOMAIN invoices /\ c \in InvoiceIds /\ work.rows[c] = invoices[c]
      /\ <<"invoices", c>> \in work.locks
  BY <1>1, OpenTransaction
<1>3. <<"invoices", o>> \in work.locks
  BY <1>1, HeldInvoices DEF locked_invoices
<1>4. send_credit_note(c)
  <2>1. /\ ~receivable(invoices[c])
        /\ validate_invoice_is_mutable(invoices[c].invoice_status)
        /\ validate_invoice_number_format(invoices[c].invoice_type, invoices[c].number)
    BY <1>1, <1>2 DEF sending
  <2>2. /\ o = invoices[c].original /\ o \in DOMAIN invoices
        /\ validate_invoice_accepts_credit_note(invoices[o].invoice_type,
                                                invoices[o].invoice_status)
        /\ work.position = apply_credit_note(invoices[o].total_amount,
               invoices[o].paid_amount, invoices[o].credited_amount,
               invoices[o].refunded_amount, invoices[c].total_amount)
        /\ work.position.ok
    BY <1>1, <1>2 DEF credit_fits
  <2>3. /\ invoices' = submit(update_ledger_state(o, work.position), c)
        /\ UNCHANGED <<payments, refunds, sequences, active>>
    BY DEF SubmitCreditNote
  <2> HIDE DEF o, c
  <2> QED BY <1>2, <2>1, <2>2, <2>3 DEF send_credit_note
<1>5. IInv
  BY DEF TInv
<1>6. invoices_left(invoices, invoices', work.locks)
  BY <1>2, <1>3, <1>4, <1>5, CreditLeaves
<1>7. NextForAnyParty
  BY <1>2, <1>4 DEF NextForAnyParty, SendInvoice
<1>8. UNCHANGED <<payments, refunds, sequences>>
  BY DEF SubmitCreditNote
<1> QED BY <1>6, <1>7, <1>8, UntouchedLeft DEF commits_under

LEMMA UpdateVoidStateCommits ==
    ASSUME TInv, NEW s \in Sessions, UpdateVoidState(s), NEW work, work = session[s]
    PROVE  commits_under(work.locks)
<1> DEFINE i == work.request.invoice
<1>1. /\ s \in DOMAIN session /\ voiding(work) /\ i \in DOMAIN work.rows
  BY OpenTransaction, Kinds DEF UpdateVoidState, at, voiding
<1>2. /\ i \in DOMAIN invoices /\ i \in InvoiceIds /\ work.rows[i] = invoices[i]
      /\ <<"invoices", i>> \in work.locks
  BY <1>1, OpenTransaction
<1>3. void_invoice(i)
  BY <1>1, <1>2 DEF UpdateVoidState, voiding, void_invoice
<1>4. IInv
  BY DEF TInv
<1>5. invoices_left(invoices, invoices', work.locks)
  BY <1>2, <1>3, <1>4, VoidInvoiceRestates, RestatesLeave
<1>6. NextForAnyParty
  BY <1>2, <1>3 DEF NextForAnyParty, VoidInvoice
<1>7. UNCHANGED <<payments, refunds, sequences>>
  BY DEF UpdateVoidState
<1> QED BY <1>5, <1>6, <1>7, UntouchedLeft DEF commits_under

LEMMA InsertPaymentCommits ==
    ASSUME TInv, NEW s \in Sessions, InsertPayment(s), NEW work, work = session[s]
    PROVE  commits_under(work.locks)
<1> DEFINE request == work.request
           i == request.invoice
           fy == invoices[i].financial_year
<1>1. /\ s \in DOMAIN session /\ paying(work) /\ numbered(work)
      /\ shape(work) /\ fits(invoices, payments, refunds, sequences, work)
      /\ request.op = "record_payment" /\ i \in DOMAIN work.rows
  BY OpenTransaction, Kinds DEF InsertPayment, at, numbered, paying
<1>2. /\ i \in DOMAIN invoices /\ i \in InvoiceIds /\ work.rows[i] = invoices[i]
      /\ fy \in FinancialYears /\ <<"invoices", i>> \in work.locks
  BY <1>1, OpenTransaction DEF InvoiceRow
<1>3. IInv /\ TypeOK
  BY DEF TInv, IInv
<1>4. counter_key(work) = <<fy, "payment">>
  BY <1>1, <1>2 DEF counter_key
<1>5. work.number = next_number(fy, "payment")
  BY <1>1, <1>4 DEF fits, number_fits, next_number
<1>6. /\ request.amount \in Amounts /\ request.payment_mode \in PaymentModes
      /\ validate_invoice_accepts_payment(invoices[i].invoice_status)
      /\ outstanding_amount(invoices[i]) > 0
      /\ validate_payment_does_not_exceed_outstanding(request.amount,
                                                      outstanding_amount(invoices[i]))
      /\ work.position = position_after_payment(i, request.amount)
      /\ work.position.ok
  BY <1>1, <1>2 DEF paying, position_after_payment, numbered
<1>7. PICK p \in PaymentIds \ DOMAIN payments, reference \in References \cup {NoReference} :
         /\ reference_given(request.payment_mode, reference)
         /\ reference_free(payments, reference)
         /\ payments' = Insert(payments, p,
              [invoice |-> i, amount |-> request.amount,
               payment_mode |-> request.payment_mode, reference |-> reference,
               status |-> "active", number |-> next_number(fy, "payment")])
  BY <1>5 DEF InsertPayment
<1>8. /\ invoices' = update_ledger_state(i, work.position)
      /\ get_next_invoice_number(fy, "payment")
      /\ UNCHANGED <<refunds, active>>
  BY <1>4, <1>5 DEF InsertPayment, get_next_invoice_number
<1> HIDE DEF request, i, fy
<1>9. record_payment(p, i, request.amount, request.payment_mode, reference, TRUE)
  BY <1>2, <1>6, <1>7, <1>8 DEF record_payment, record_payment_accepted, fy
<1>10. NextForAnyParty
  BY <1>2, <1>6, <1>7, <1>9 DEF NextForAnyParty, RecordPayment
<1>11. invoices_left(invoices, invoices', work.locks)
  BY <1>2, <1>3, <1>6, <1>9, RecordPaymentMoves, MovesLeave
<1>12. rows_left(payments, payments', work.locks)
  BY <1>2, <1>7, RowInsertedLeaves
<1>13. counters_left(sequences, sequences', work.locks)
  <2>1. <<"invoice_sequences", fy, "payment">> \in work.locks
    BY <1>1, <1>4, HeldCounters
  <2> QED BY <1>2, <1>3, <1>8, <2>1, NumberLeaves DEF DocumentTypes
<1> QED BY <1>8, <1>10, <1>11, <1>12, <1>13, UntouchedLeft DEF commits_under

LEMMA InsertRefundCommits ==
    ASSUME TInv, NEW s \in Sessions, InsertRefund(s), NEW work, work = session[s]
    PROVE  commits_under(work.locks)
<1> DEFINE request == work.request
           i == request.invoice
           fy == invoices[i].financial_year
<1>1. /\ s \in DOMAIN session /\ refunding(work) /\ numbered(work)
      /\ shape(work) /\ fits(invoices, payments, refunds, sequences, work)
      /\ request.op = "record_refund" /\ i \in DOMAIN work.rows
  BY OpenTransaction, Kinds DEF InsertRefund, at, numbered, refunding
<1>2. /\ i \in DOMAIN invoices /\ i \in InvoiceIds /\ work.rows[i] = invoices[i]
      /\ fy \in FinancialYears /\ <<"invoices", i>> \in work.locks
  BY <1>1, OpenTransaction DEF InvoiceRow
<1>3. IInv /\ TypeOK
  BY DEF TInv, IInv
<1>4. counter_key(work) = <<fy, "refund">>
  BY <1>1, <1>2 DEF counter_key
<1>5. work.number = next_number(fy, "refund")
  BY <1>1, <1>4 DEF fits, number_fits, next_number
<1>6. /\ request.amount \in Amounts
      /\ work.position = position_after_refund(i, request.amount)
      /\ work.position.ok
  BY <1>1, <1>2 DEF refunding, position_after_refund
<1>7. PICK r \in RefundIds \ DOMAIN refunds, reference \in References \cup {NoReference} :
         /\ reference_free(refunds, reference)
         /\ refunds' = Insert(refunds, r,
              [invoice |-> i, amount |-> request.amount, reference |-> reference,
               status |-> "active", number |-> next_number(fy, "refund")])
  BY <1>5 DEF InsertRefund
<1>8. /\ invoices' = update_ledger_state(i, work.position)
      /\ get_next_invoice_number(fy, "refund")
      /\ UNCHANGED <<payments, active>>
  BY <1>4, <1>5 DEF InsertRefund, get_next_invoice_number
<1> HIDE DEF request, i, fy
<1>9. record_refund(r, i, request.amount, reference)
  BY <1>2, <1>6, <1>7, <1>8 DEF record_refund, fy
<1>10. NextForAnyParty
  BY <1>2, <1>6, <1>7, <1>9 DEF NextForAnyParty, RecordRefund
<1>11. invoices_left(invoices, invoices', work.locks)
  BY <1>2, <1>3, <1>6, <1>9, RecordRefundMoves, MovesLeave
<1>12. rows_left(refunds, refunds', work.locks)
  BY <1>2, <1>7, RowInsertedLeaves
<1>13. counters_left(sequences, sequences', work.locks)
  <2>1. <<"invoice_sequences", fy, "refund">> \in work.locks
    BY <1>1, <1>4, HeldCounters
  <2> QED BY <1>2, <1>3, <1>8, <2>1, NumberLeaves DEF DocumentTypes
<1> QED BY <1>8, <1>10, <1>11, <1>12, <1>13, UntouchedLeft DEF commits_under

LEMMA CommitCancelCommits ==
    ASSUME TInv, NEW s \in Sessions, CommitCancel(s), NEW work, work = session[s]
    PROVE  commits_under(work.locks)
<1> DEFINE request == work.request
           i == request.invoice
           x == request.target
<1>1. /\ s \in DOMAIN session /\ cancelling(work) /\ past_update(work)
      /\ work.pc = "recomputed"
      /\ shape(work) /\ fits(invoices, payments, refunds, sequences, work)
      /\ request.op \in cancel_ops /\ i \in DOMAIN work.rows
      /\ payments' = payments_seen(request)
      /\ refunds' = refunds_seen(request)
      /\ invoices' = update_ledger_state(i, work.position)
      /\ UNCHANGED <<sequences, active>>
  BY OpenTransaction, Kinds DEF CommitCancel, at, past_update, cancelling
<1>2. /\ i \in DOMAIN invoices /\ i \in InvoiceIds /\ work.rows[i] = invoices[i]
      /\ <<"invoices", i>> \in work.locks
  BY <1>1, OpenTransaction
<1>3. IInv /\ TypeOK
  BY DEF TInv, IInv
<1>4. /\ work.position = recomputed_position(i, payments', refunds')
      /\ work.position.ok
  BY <1>1 DEF fits, recomputation_fits, seen, payments_seen, refunds_seen,
              recomputed_position, cancelling
<1>5. CASE request.op = "cancel_payment"
  <2>1. /\ x \in DOMAIN payments /\ payments[x].status = "active"
        /\ payments[x].invoice = i
        /\ payments' = soft_cancel_by_id(payments, x) /\ refunds' = refunds
    BY <1>1, <1>5 DEF fits, target_fits, payments_seen, refunds_seen
  <2> HIDE DEF request, i, x
  <2>2. cancel_payment(x)
    BY <1>1, <1>4, <2>1 DEF cancel_payment
  <2>3. x \in PaymentIds /\ "invoice" \in DOMAIN payments[x]
    BY <1>3, <2>1 DEF TypeOK, PaymentRow
  <2>4. NextForAnyParty
    BY <2>2, <2>3 DEF NextForAnyParty, CancelPayment
  <2>5. invoices_left(invoices, invoices', work.locks)
    BY <1>2, <1>3, <2>1, <2>2, <2>3, CancelPaymentMoves, MovesLeave
  <2>6. rows_left(payments, payments', work.locks)
    BY <1>2, <2>1, <2>3, RowCancelledLeaves
  <2> QED BY <1>1, <2>1, <2>4, <2>5, <2>6, UntouchedLeft DEF commits_under
<1>6. CASE request.op = "cancel_refund"
  <2>1. /\ x \in DOMAIN refunds /\ refunds[x].status = "active"
        /\ refunds[x].invoice = i
        /\ refunds' = soft_cancel_by_id(refunds, x) /\ payments' = payments
    BY <1>1, <1>6 DEF fits, target_fits, payments_seen, refunds_seen
  <2> HIDE DEF request, i, x
  <2>2. cancel_refund(x)
    BY <1>1, <1>4, <2>1 DEF cancel_refund
  <2>3. x \in RefundIds /\ "invoice" \in DOMAIN refunds[x]
    BY <1>3, <2>1 DEF TypeOK, RefundRow
  <2>4. NextForAnyParty
    BY <2>2, <2>3 DEF NextForAnyParty, CancelRefund
  <2>5. invoices_left(invoices, invoices', work.locks)
    BY <1>2, <1>3, <2>1, <2>2, <2>3, CancelRefundMoves, MovesLeave
  <2>6. rows_left(refunds, refunds', work.locks)
    BY <1>2, <2>1, <2>3, RowCancelledLeaves
  <2> QED BY <1>1, <2>1, <2>4, <2>5, <2>6, UntouchedLeft DEF commits_under
<1> QED BY <1>1, <1>5, <1>6 DEF cancel_ops

-----------------------------------------------------------------------------
(* How the invariant passes from one set of open transactions to the next. *)

LEMMA CreditableStep ==
    IInv /\ OriginalsCreditable /\ [NextForAnyParty]_vars => OriginalsCreditable'
<1> SUFFICES ASSUME IInv, OriginalsCreditable, [NextForAnyParty]_vars
             PROVE  OriginalsCreditable'
  OBVIOUS
<1>1. TypeOK
  BY DEF IInv
<1>2. CASE UNCHANGED vars
  BY <1>2 DEF OriginalsCreditable, vars
<1>3. CASE NextForAnyParty
  <2>1. \A i \in DOMAIN invoices :
           /\ i \in DOMAIN invoices'
           /\ invoices'[i].invoice_type = invoices[i].invoice_type
           /\ invoices'[i].original = invoices[i].original
    BY <1>3, InvoicesKept DEF invoices_kept, same_document
  <2>2. \A c \in DOMAIN invoices : ~receivable(invoices[c]) =>
            invoices[c].original \in DOMAIN invoices
    BY <1>1 DEF TypeOK, receivable, Notes
  <2>3. ASSUME NEW c \in DOMAIN invoices' \ DOMAIN invoices, ~receivable(invoices'[c])
        PROVE  /\ invoices'[c].original \in DOMAIN invoices
               /\ invoices[invoices'[c].original].invoice_type \in CREDITABLE_ORIGINAL_TYPES
    <3>1. CASE CreateForAnyParty
      <4>1. PICK i, o, type, party, total, row :
               /\ i \in InvoiceIds /\ o \in InvoiceIds \cup {NoInvoice}
               /\ invoices' = Insert(invoices, i, row)
               /\ row.invoice_type = type /\ row.original = o
               /\ original_matches(type, party, o)
               /\ type = "credit_note" => credit_note_accepted(o, total)
        BY <3>1 DEF CreateForAnyParty, create_for_any_party
      <4>2. c = i /\ invoices'[c] = row
        BY <2>3, <4>1 DEF Insert
      <4> QED BY <2>3, <4>1, <4>2 DEF receivable, original_matches, Notes,
                 credit_note_accepted, validate_invoice_accepts_credit_note
    <3>2. CASE ~CreateForAnyParty
      <4>1. DOMAIN invoices' = DOMAIN invoices
        BY <1>3, <3>2 DEF NextForAnyParty, SendInvoice, send_invoice, send_credit_note,
               submit, update_ledger_state, VoidInvoice, void_invoice, RecordPayment,
               record_payment, CancelPayment, cancel_payment, RecordRefund,
               record_refund, CancelRefund, cancel_refund, SetPartyActive,
               set_party_active
      <4> QED BY <2>3, <4>1
    <3> QED BY <3>1, <3>2
  <2> QED BY <2>1, <2>2, <2>3 DEF OriginalsCreditable, receivable
<1> QED BY <1>2, <1>3

\* What of the invariant is about the tables alone.
LEMMA TablesInv ==
    ASSUME TInv, [NextForAnyParty]_vars
    PROVE  IInv' /\ OriginalsCreditable'
BY StepInv, CreditableStep DEF TInv

LEMMA BeginInv ==
    ASSUME TInv, NEW s \in Sessions, s \notin DOMAIN session, UNCHANGED vars,
           NEW work, session' = Insert(session, s, work), free(s, work.locks),
           shape(work), fits(invoices, payments, refunds, sequences, work)
    PROVE  TInv'
<1>1. IInv' /\ OriginalsCreditable'
  BY TablesInv
<1>2. /\ DOMAIN session' = DOMAIN session \cup {s}
      /\ session'[s] = work
      /\ \A t \in DOMAIN session : session'[t] = session[t]
  BY DEF Insert
<1>3. SessionsShaped'
  BY <1>2 DEF TInv, SessionsShaped
<1>4. SessionsFit'
  BY <1>2 DEF TInv, SessionsFit, vars
<1>5. \A t \in DOMAIN session : session[t].locks \cap work.locks = {}
  BY DEF free, held_by_others
<1>6. LocksExclusive'
  BY <1>2, <1>5 DEF TInv, LocksExclusive
<1> QED BY <1>1, <1>3, <1>4, <1>6 DEF TInv

LEMMA AdvanceInv ==
    ASSUME TInv, NEW s \in DOMAIN session, NEW progress, advance(s, progress),
           NEW work, work = [progress EXCEPT !.locks = @ \cup next_locks(session[s])],
           work.locks = session[s].locks \cup next_locks(session[s]),
           shape(work), fits(invoices, payments, refunds, sequences, work)
    PROVE  TInv'
<1>1. UNCHANGED vars /\ free(s, next_locks(session[s]))
  BY DEF advance
<1>2. IInv' /\ OriginalsCreditable'
  BY <1>1, TablesInv
<1>3. /\ DOMAIN session' = DOMAIN session
      /\ session'[s] = work
      /\ \A t \in DOMAIN session \ {s} : session'[t] = session[t]
  BY DEF advance
<1>4. SessionsShaped'
  BY <1>3 DEF TInv, SessionsShaped
<1>5. SessionsFit'
  BY <1>1, <1>3 DEF TInv, SessionsFit, vars
<1>6. \A t \in DOMAIN session \ {s} : session[t].locks \cap work.locks = {}
  BY <1>1 DEF free, held_by_others, TInv, LocksExclusive
<1>7. LocksExclusive'
  <2> SUFFICES ASSUME NEW a \in DOMAIN session, NEW b \in DOMAIN session, a # b
               PROVE  session'[a].locks \cap session'[b].locks = {}
    BY <1>3 DEF LocksExclusive
  <2>1. CASE a = s
    BY <1>3, <1>6, <2>1
  <2>2. CASE b = s
    BY <1>3, <1>6, <2>2
  <2>3. CASE a # s /\ b # s
    BY <1>3, <2>3 DEF TInv, LocksExclusive
  <2> QED BY <2>1, <2>2, <2>3
<1> QED BY <1>2, <1>4, <1>5, <1>7 DEF TInv

LEMMA RollBackInv ==
    ASSUME TInv, NEW s \in Sessions, RollBack(s)
    PROVE  TInv'
<1>1. UNCHANGED vars
  BY DEF RollBack
<1>2. IInv' /\ OriginalsCreditable'
  BY <1>1, TablesInv
<1>3. /\ DOMAIN session' = DOMAIN session \ {s}
      /\ \A t \in DOMAIN session' : session'[t] = session[t]
  BY DEF RollBack, ended
<1> QED BY <1>1, <1>2, <1>3
        DEF TInv, SessionsShaped, SessionsFit, LocksExclusive, vars

LEMMA CounterKeys ==
    ASSUME TInv, NEW s \in DOMAIN session, numbered(session[s]) \/ session[s].pc = "checked"
    PROVE  counter_key(session[s]) \in FinancialYears \X DocumentTypes
<1> PICK work : work = session[s]
  OBVIOUS
<1>1. shape(work) /\ \A i \in DOMAIN work.rows : work.rows[i] \in InvoiceRow
  BY OpenTransaction
<1>2. creating(work) \/ paying(work) \/ refunding(work)
  BY <1>1 DEF shape, sending, voiding, cancelling, numbered
<1>3. CASE creating(work)
  BY <1>3 DEF creating, counter_key, DocumentTypes, InvoiceTypes
<1>4. CASE paying(work) \/ refunding(work)
  BY <1>1, <1>4 DEF paying, refunding, counter_key, DocumentTypes, InvoiceRow
<1> QED BY <1>2, <1>3, <1>4

\* A commit of one transaction leaves every other as it was, and right.
LEMMA CommitInv ==
    ASSUME TInv, NEW s \in DOMAIN session, ended(s), commits_under(session[s].locks)
    PROVE  TInv'
<1>1. IInv' /\ OriginalsCreditable'
  BY TablesInv DEF commits_under
<1>2. /\ DOMAIN session' = DOMAIN session \ {s}
      /\ \A t \in DOMAIN session' : session'[t] = session[t]
  BY DEF ended
<1>3. SessionsShaped'
  BY <1>2 DEF TInv, SessionsShaped
<1>4. ASSUME NEW t \in DOMAIN session, t # s
      PROVE  fits(invoices', payments', refunds', sequences', session[t])
  <2> PICK work, locks : work = session[t] /\ locks = session[s].locks
    OBVIOUS
  <2>1. work.locks \cap locks = {}
    BY <1>4 DEF TInv, LocksExclusive
  <2>2. shape(work) /\ fits(invoices, payments, refunds, sequences, work)
    BY OpenTransaction
  <2>3. numbered(work) => counter_key(work) \in FinancialYears \X DocumentTypes
    BY CounterKeys
  <2>4. /\ invoices_left(invoices, invoices', locks)
        /\ rows_left(payments, payments', locks)
        /\ rows_left(refunds, refunds', locks)
        /\ counters_left(sequences, sequences', locks)
    BY DEF commits_under
  <2> QED BY <2>1, <2>2, <2>3, <2>4, FitsKept
<1>5. SessionsFit'
  BY <1>2, <1>4 DEF SessionsFit
<1>6. LocksExclusive'
  BY <1>2 DEF TInv, LocksExclusive
<1> QED BY <1>1, <1>3, <1>5, <1>6 DEF TInv

-----------------------------------------------------------------------------
(* The first statement of each handler. *)

LEMMA LocksOfRead ==
    ASSUME NEW work, ~numbered(work), ~past_update(work), work.pc # "credited"
    PROVE  /\ DOMAIN work.rows = {} => locks_held(work) = {}
           /\ \A i : DOMAIN work.rows = {i} => locks_held(work) = get_by_id_for_update(i)
<1>1. locks_held(work) = invoices_held(work)
  BY DEF locks_held, counters_held, targets_held
<1>2. locked_invoices(work) = DOMAIN work.rows
  BY DEF locked_invoices
<1>3. DOMAIN work.rows = {} => invoices_held(work) = {}
  BY <1>2 DEF invoices_held
<1>4. \A i : DOMAIN work.rows = {i} => invoices_held(work) = get_by_id_for_update(i)
  BY <1>2 DEF invoices_held
<1> QED BY <1>1, <1>3, <1>4

\* A transaction as `begin' makes it.
opened(request, pc, locks, read, position) ==
    [request |-> request, pc |-> pc, locks |-> locks,
     rows |-> [i \in read |-> invoices[i]], position |-> position, number |-> 0]

LEMMA Opened ==
    ASSUME NEW request, NEW pc, NEW locks, NEW read, read \subseteq DOMAIN invoices,
           NEW position, NEW work, work = opened(request, pc, locks, read, position)
    PROVE  /\ DOMAIN work = {"request", "pc", "locks", "rows", "position", "number"}
           /\ work.request = request /\ work.pc = pc /\ work.locks = locks
           /\ work.position = position /\ work.number = 0
           /\ DOMAIN work.rows = read
           /\ \A i \in read : work.rows[i] = invoices[i]
           /\ rows_fit(invoices, work)
BY DEF opened, rows_fit

LEMMA BeginOpens ==
    ASSUME TInv, NEW s \in Sessions, NEW request, NEW pc, NEW locks, NEW read, NEW position,
           begin(s, request, pc, locks, read, position), NEW work,
           work = opened(request, pc, locks, read, position), work.locks = locks,
           shape(work), fits(invoices, payments, refunds, sequences, work)
    PROVE  TInv'
BY BeginInv DEF begin, opened

LEMMA BeginCreateInvoiceInv ==
    ASSUME TInv, NEW s \in Sessions, BeginCreateInvoice(s)
    PROVE  TInv'
<1>1. PICK type \in InvoiceTypes \ {"credit_note"}, party \in active,
           o \in DOMAIN invoices \cup {NoInvoice}, total \in Totals, fy \in FinancialYears,
           confirm_duplicate \in BOOLEAN :
         /\ create_invoice_accepted(type, party, o, total, confirm_duplicate)
         /\ begin(s, [op |-> "create_invoice", type |-> type, party |-> party,
                      original |-> o, total |-> total, financial_year |-> fy],
                  "checked", {}, {}, No_position)
  BY DEF BeginCreateInvoice
<1> DEFINE request == [op |-> "create_invoice", type |-> type, party |-> party,
                       original |-> o, total |-> total, financial_year |-> fy]
<1>2. PICK work : work = opened(request, "checked", {}, {}, No_position)
  OBVIOUS
<1>3. /\ DOMAIN work = {"request", "pc", "locks", "rows", "position", "number"}
      /\ work.request = request /\ work.pc = "checked" /\ work.locks = {}
      /\ work.number = 0 /\ DOMAIN work.rows = {} /\ rows_fit(invoices, work)
  BY <1>2, Opened
<1>4. locks_held(work) = {}
  BY <1>3, LocksOfRead DEF numbered, past_update
<1>5. creating(work)
  BY <1>1, <1>3 DEF creating, create_invoice_accepted, original_matches
<1>6. original_fits(invoices, work)
  BY <1>1, <1>3 DEF original_fits, past_checks, create_invoice_accepted, original_matches
<1>7. shape(work) /\ fits(invoices, payments, refunds, sequences, work)
  BY <1>3, <1>4, <1>5, <1>6
     DEF shape, fits, number_fits, numbered, note_fits, credit_fits, similar_fits,
         target_fits, recomputation_fits
<1> QED BY <1>1, <1>2, <1>3, <1>7, BeginOpens

LEMMA BeginCreateCreditNoteInv ==
    ASSUME TInv, NEW s \in Sessions, BeginCreateCreditNote(s)
    PROVE  TInv'
<1>1. PICK party \in active, o \in DOMAIN invoices, total \in Totals, fy \in FinancialYears :
         /\ party \in required_party_type("credit_note")
         /\ begin(s, [op |-> "create_invoice", type |-> "credit_note", party |-> party,
                      original |-> o, total |-> total, financial_year |-> fy],
                  "original_locked", get_by_id_for_update(o), {o}, No_position)
  BY DEF BeginCreateCreditNote
<1> DEFINE request == [op |-> "create_invoice", type |-> "credit_note", party |-> party,
                       original |-> o, total |-> total, financial_year |-> fy]
<1>2. PICK work :
        work = opened(request, "original_locked", get_by_id_for_update(o), {o}, No_position)
  OBVIOUS
<1>3. /\ DOMAIN work = {"request", "pc", "locks", "rows", "position", "number"}
      /\ work.request = request /\ work.pc = "original_locked"
      /\ work.locks = get_by_id_for_update(o)
      /\ work.number = 0 /\ DOMAIN work.rows = {o} /\ rows_fit(invoices, work)
  BY <1>2, Opened
<1>4. locks_held(work) = get_by_id_for_update(o)
  BY <1>3, LocksOfRead DEF numbered, past_update
<1>5. creating(work)
  BY <1>1, <1>3 DEF creating, InvoiceTypes, Notes
<1>6. shape(work) /\ fits(invoices, payments, refunds, sequences, work)
  BY <1>3, <1>4, <1>5
     DEF shape, fits, number_fits, numbered, original_fits, past_checks, note_fits,
         credit_fits, similar_fits, target_fits, recomputation_fits
<1> QED BY <1>1, <1>2, <1>3, <1>6, BeginOpens

LEMMA BeginSendInvoiceInv ==
    ASSUME TInv, NEW s \in Sessions, BeginSendInvoice(s)
    PROVE  TInv'
<1>1. PICK i \in DOMAIN invoices :
         /\ validate_invoice_is_mutable(invoices[i].invoice_status)
         /\ validate_invoice_number_format(invoices[i].invoice_type, invoices[i].number)
         /\ begin(s, [op |-> "send_invoice", invoice |-> i], "locked",
                  get_by_id_for_update(i), {i}, No_position)
  BY DEF BeginSendInvoice
<1> DEFINE request == [op |-> "send_invoice", invoice |-> i]
<1>2. PICK work : work = opened(request, "locked", get_by_id_for_update(i), {i}, No_position)
  OBVIOUS
<1>3. /\ DOMAIN work = {"request", "pc", "locks", "rows", "position", "number"}
      /\ work.request = request /\ work.pc = "locked"
      /\ work.locks = get_by_id_for_update(i)
      /\ work.number = 0 /\ DOMAIN work.rows = {i} /\ rows_fit(invoices, work)
      /\ work.rows[i] = invoices[i]
  BY <1>2, Opened
<1>4. locks_held(work) = get_by_id_for_update(i)
  BY <1>3, LocksOfRead DEF numbered, past_update
<1>5. sending(work)
  BY <1>1, <1>3 DEF sending
<1>6. shape(work) /\ fits(invoices, payments, refunds, sequences, work)
  BY <1>3, <1>4, <1>5
     DEF shape, fits, number_fits, numbered, original_fits, past_checks, note_fits,
         credit_fits, similar_fits, target_fits, recomputation_fits
<1> QED BY <1>1, <1>2, <1>3, <1>6, BeginOpens

LEMMA BeginVoidInvoiceInv ==
    ASSUME TInv, NEW s \in Sessions, BeginVoidInvoice(s)
    PROVE  TInv'
<1>1. PICK i \in DOMAIN invoices :
         /\ validate_invoice_is_voidable(invoices[i].invoice_status,
                                         invoices[i].paid_amount, invoices[i].invoice_type)
         /\ begin(s, [op |-> "void_invoice", invoice |-> i], "locked",
                  get_by_id_for_update(i), {i}, No_position)
  BY DEF BeginVoidInvoice
<1> DEFINE request == [op |-> "void_invoice", invoice |-> i]
<1>2. PICK work : work = opened(request, "locked", get_by_id_for_update(i), {i}, No_position)
  OBVIOUS
<1>3. /\ DOMAIN work = {"request", "pc", "locks", "rows", "position", "number"}
      /\ work.request = request /\ work.pc = "locked"
      /\ work.locks = get_by_id_for_update(i)
      /\ work.number = 0 /\ DOMAIN work.rows = {i} /\ rows_fit(invoices, work)
      /\ work.rows[i] = invoices[i]
  BY <1>2, Opened
<1>4. locks_held(work) = get_by_id_for_update(i)
  BY <1>3, LocksOfRead DEF numbered, past_update
<1>5. voiding(work)
  BY <1>1, <1>3 DEF voiding
<1>6. shape(work) /\ fits(invoices, payments, refunds, sequences, work)
  BY <1>3, <1>4, <1>5
     DEF shape, fits, number_fits, numbered, original_fits, past_checks, note_fits,
         credit_fits, similar_fits, target_fits, recomputation_fits
<1> QED BY <1>1, <1>2, <1>3, <1>6, BeginOpens

LEMMA BeginRecordPaymentInv ==
    ASSUME TInv, NEW s \in Sessions, BeginRecordPayment(s)
    PROVE  TInv'
<1>1. PICK i \in DOMAIN invoices, amount \in Amounts, mode \in PaymentModes,
           confirm_duplicate \in BOOLEAN :
         /\ validate_invoice_accepts_payment(invoices[i].invoice_status)
         /\ outstanding_amount(invoices[i]) > 0
         /\ validate_payment_does_not_exceed_outstanding(amount,
                                                         outstanding_amount(invoices[i]))
         /\ begin(s, [op |-> "record_payment", invoice |-> i, amount |-> amount,
                      payment_mode |-> mode, confirm_duplicate |-> confirm_duplicate],
                  "locked", get_by_id_for_update(i), {i}, position_after_payment(i, amount))
  BY DEF BeginRecordPayment
<1> DEFINE request == [op |-> "record_payment", invoice |-> i, amount |-> amount,
                       payment_mode |-> mode, confirm_duplicate |-> confirm_duplicate]
<1>2. PICK work, position :
         /\ position = position_after_payment(i, amount)
         /\ work = opened(request, "locked", get_by_id_for_update(i), {i}, position)
  OBVIOUS
<1>3. /\ DOMAIN work = {"request", "pc", "locks", "rows", "position", "number"}
      /\ work.request = request /\ work.pc = "locked"
      /\ work.locks = get_by_id_for_update(i) /\ work.position = position
      /\ work.number = 0 /\ DOMAIN work.rows = {i} /\ rows_fit(invoices, work)
      /\ work.rows[i] = invoices[i]
  BY <1>2, Opened
<1>4. locks_held(work) = get_by_id_for_update(i)
  BY <1>3, LocksOfRead DEF numbered, past_update
<1>5. paying(work)
  <2>1. /\ request.op = "record_payment" /\ request.invoice = i
        /\ request.amount = amount /\ request.payment_mode = mode
        /\ request.confirm_duplicate = confirm_duplicate
    OBVIOUS
  <2>2. position = apply_payment(invoices[i].total_amount, invoices[i].paid_amount,
            invoices[i].credited_amount, invoices[i].refunded_amount, amount)
    BY <1>2 DEF position_after_payment
  <2> HIDE DEF request
  <2> QED BY <1>1, <1>3, <2>1, <2>2 DEF paying
<1>6. shape(work) /\ fits(invoices, payments, refunds, sequences, work)
  BY <1>3, <1>4, <1>5
     DEF shape, fits, number_fits, numbered, original_fits, past_checks, note_fits,
         credit_fits, similar_fits, target_fits, recomputation_fits
<1> QED BY <1>1, <1>2, <1>3, <1>6, BeginOpens

LEMMA BeginRecordRefundInv ==
    ASSUME TInv, NEW s \in Sessions, BeginRecordRefund(s)
    PROVE  TInv'
<1>1. PICK i \in DOMAIN invoices, amount \in Amounts :
         /\ position_after_refund(i, amount).ok
         /\ begin(s, [op |-> "record_refund", invoice |-> i, amount |-> amount],
                  "checked", get_by_id_for_update(i), {i}, position_after_refund(i, amount))
  BY DEF BeginRecordRefund
<1> DEFINE request == [op |-> "record_refund", invoice |-> i, amount |-> amount]
<1>2. PICK work, position :
         /\ position = position_after_refund(i, amount)
         /\ work = opened(request, "checked", get_by_id_for_update(i), {i}, position)
  OBVIOUS
<1>3. /\ DOMAIN work = {"request", "pc", "locks", "rows", "position", "number"}
      /\ work.request = request /\ work.pc = "checked"
      /\ work.locks = get_by_id_for_update(i) /\ work.position = position
      /\ work.number = 0 /\ DOMAIN work.rows = {i} /\ rows_fit(invoices, work)
      /\ work.rows[i] = invoices[i]
  BY <1>2, Opened
<1>4. locks_held(work) = get_by_id_for_update(i)
  BY <1>3, LocksOfRead DEF numbered, past_update
<1>5. refunding(work)
  <2>1. /\ request.op = "record_refund" /\ request.invoice = i
        /\ request.amount = amount
    OBVIOUS
  <2>2. /\ position = apply_refund(invoices[i].total_amount, invoices[i].paid_amount,
               invoices[i].credited_amount, invoices[i].refunded_amount, amount)
        /\ position.ok
    BY <1>1, <1>2 DEF position_after_refund
  <2> HIDE DEF request
  <2> QED BY <1>1, <1>3, <2>1, <2>2 DEF refunding
<1>6. shape(work) /\ fits(invoices, payments, refunds, sequences, work)
  BY <1>3, <1>4, <1>5
     DEF shape, fits, number_fits, numbered, original_fits, past_checks, note_fits,
         credit_fits, similar_fits, target_fits, recomputation_fits
<1> QED BY <1>1, <1>2, <1>3, <1>6, BeginOpens

LEMMA BeginCancelInv ==
    ASSUME TInv, NEW s \in Sessions, BeginCancel(s)
    PROVE  TInv'
<1>0. PICK op \in cancel_ops : \E x, i :
         /\ op = "cancel_payment" => x \in DOMAIN payments /\ i = payments[x].invoice
         /\ op = "cancel_refund" => x \in DOMAIN refunds /\ i = refunds[x].invoice
         /\ begin(s, [op |-> op, target |-> x, invoice |-> i], "target_read",
                  {}, {}, No_position)
  <2>1. CASE \E p \in DOMAIN payments :
               begin(s, [op |-> "cancel_payment", target |-> p,
                         invoice |-> payments[p].invoice], "target_read",
                     {}, {}, No_position)
    BY <2>1 DEF cancel_ops
  <2>2. CASE \E r \in DOMAIN refunds :
               begin(s, [op |-> "cancel_refund", target |-> r,
                         invoice |-> refunds[r].invoice], "target_read",
                     {}, {}, No_position)
    BY <2>2 DEF cancel_ops
  <2> QED BY <2>1, <2>2 DEF BeginCancel
<1>1. PICK x, i :
         /\ op = "cancel_payment" => x \in DOMAIN payments /\ i = payments[x].invoice
         /\ op = "cancel_refund" => x \in DOMAIN refunds /\ i = refunds[x].invoice
         /\ begin(s, [op |-> op, target |-> x, invoice |-> i], "target_read",
                  {}, {}, No_position)
  BY <1>0
<1> DEFINE request == [op |-> op, target |-> x, invoice |-> i]
<1>2. PICK work : work = opened(request, "target_read", {}, {}, No_position)
  OBVIOUS
<1>3. /\ DOMAIN work = {"request", "pc", "locks", "rows", "position", "number"}
      /\ work.request = request /\ work.pc = "target_read" /\ work.locks = {}
      /\ work.number = 0 /\ DOMAIN work.rows = {} /\ rows_fit(invoices, work)
  BY <1>2, Opened
<1>4. locks_held(work) = {}
  BY <1>3, LocksOfRead DEF numbered, past_update
<1>5. cancelling(work)
  BY <1>1, <1>3 DEF cancelling
<1>6. /\ target_fits(payments, "cancel_payment", work)
      /\ target_fits(refunds, "cancel_refund", work)
  BY <1>1, <1>3 DEF target_fits, past_update
<1>7. shape(work) /\ fits(invoices, payments, refunds, sequences, work)
  BY <1>1, <1>3, <1>4, <1>5, <1>6
     DEF shape, fits, number_fits, numbered, original_fits, past_checks, note_fits,
         credit_fits, similar_fits, recomputation_fits, cancel_ops
<1> QED BY <1>1, <1>2, <1>3, <1>7, BeginOpens

-----------------------------------------------------------------------------
(* The later statements. *)

\* A transaction one statement further.
advanced(old, progress) == [progress EXCEPT !.locks = @ \cup next_locks(old)]

LEMMA AdvanceOn ==
    ASSUME TInv, NEW s \in DOMAIN session, NEW progress, advance(s, progress),
           NEW work, work = advanced(session[s], progress),
           work.locks = session[s].locks \cup next_locks(session[s]),
           shape(work), fits(invoices, payments, refunds, sequences, work)
    PROVE  TInv'
BY AdvanceInv DEF advanced

LEMMA NextStatement ==
    ASSUME NEW old, shape(old), NEW pc, NEW work, work = advanced(old, [old EXCEPT !.pc = pc])
    PROVE  /\ DOMAIN work = {"request", "pc", "locks", "rows", "position", "number"}
           /\ work.request = old.request /\ work.pc = pc /\ work.rows = old.rows
           /\ work.position = old.position /\ work.number = old.number
           /\ work.locks = old.locks \cup next_locks(old)
BY DEF shape, advanced

LEMMA CheckCreditNoteInv ==
    ASSUME TInv, NEW s \in Sessions, CheckCreditNote(s)
    PROVE  TInv'
<1>1. PICK old : old = session[s]
  OBVIOUS
<1> DEFINE o == old.request.original
           total == old.request.total
<1>2. /\ s \in DOMAIN session /\ old.pc = "original_locked"
      /\ old.request.op = "create_invoice"
      /\ invoices[o].party = old.request.party
      /\ validate_invoice_accepts_credit_note(invoices[o].invoice_type,
                                              invoices[o].invoice_status)
      /\ get_active_credit_note_for_original(o, total) = {}
      /\ validate_credit_note_amount(total, invoices[o].total_amount,
                                     get_total_credited(invoices, o))
      /\ shape(old) /\ creating(old) /\ old.request.type = "credit_note"
      /\ DOMAIN old.rows = {o} /\ o \in DOMAIN invoices /\ rows_fit(invoices, old)
      /\ advance(s, [old EXCEPT !.pc = "checked"])
  <2>1. /\ s \in DOMAIN session /\ old.pc = "original_locked"
        /\ old.request.op = "create_invoice"
        /\ shape(old) /\ fits(invoices, payments, refunds, sequences, old)
        /\ advance(s, [old EXCEPT !.pc = "checked"])
    BY <1>1, OpenTransaction DEF CheckCreditNote, at
  <2>2. creating(old)
    BY <2>1, Kinds
  <2>3. old.request.type = "credit_note" /\ DOMAIN old.rows = {o}
    BY <2>1, <2>2 DEF creating
  <2>4. o \in DOMAIN invoices /\ old.rows[o] = invoices[o] /\ rows_fit(invoices, old)
    BY <2>1, <2>3 DEF fits, rows_fit
  <2> QED BY <1>1, <2>1, <2>2, <2>3, <2>4 DEF CheckCreditNote
<1>3. PICK work : work = advanced(old, [old EXCEPT !.pc = "checked"])
  OBVIOUS
<1>4. next_locks(old) = {}
  BY <1>2 DEF next_locks, cancel_ops
<1>5. /\ DOMAIN work = {"request", "pc", "locks", "rows", "position", "number"}
      /\ work.request = old.request /\ work.pc = "checked" /\ work.rows = old.rows
      /\ work.number = old.number /\ work.locks = old.locks
      /\ work.locks = old.locks \cup next_locks(old)
  BY <1>2, <1>3, <1>4, NextStatement
<1>6. work.locks = locks_held(work)
  <2>1. locks_held(old) = get_by_id_for_update(o)
    BY <1>2, LocksOfRead DEF numbered, past_update
  <2>2. locks_held(work) = get_by_id_for_update(o)
    BY <1>2, <1>5, LocksOfRead DEF numbered, past_update
  <2>3. old.locks = locks_held(old)
    BY <1>2 DEF shape
  <2> QED BY <1>5, <2>1, <2>2, <2>3
<1>7. creating(work)
  BY <1>2, <1>5 DEF creating
<1>8. original_fits(invoices, work) /\ note_fits(invoices, work)
  BY <1>2, <1>5 DEF original_fits, note_fits, get_active_credit_note_for_original
<1>9. shape(work) /\ fits(invoices, payments, refunds, sequences, work)
  BY <1>2, <1>5, <1>6, <1>7, <1>8
     DEF shape, fits, rows_fit, number_fits, numbered, credit_fits, similar_fits,
         target_fits, recomputation_fits
<1> QED BY <1>1, <1>2, <1>3, <1>5, <1>9, AdvanceOn

LEMMA TakeNumberInv ==
    ASSUME TInv, NEW s \in Sessions, TakeNumber(s)
    PROVE  TInv'
<1>1. PICK old : old = session[s]
  OBVIOUS
<1>2. /\ s \in DOMAIN session /\ old.pc = "checked" /\ shape(old)
      /\ fits(invoices, payments, refunds, sequences, old)
  BY <1>1, OpenTransaction DEF TakeNumber, at
<1>3. PICK fy \in FinancialYears, type \in DocumentTypes : counter_key(old) = <<fy, type>>
  BY <1>1, <1>2, CounterKeys
<1>4. PICK number : number = next_number(fy, type)
  OBVIOUS
<1>5. /\ number = sequences[<<fy, type>>] + 1
      /\ number \in Nat
  BY <1>4 DEF next_number, TInv, IInv, TypeOK
<1>6. advance(s, [old EXCEPT !.pc = "numbered", !.number = number])
  BY <1>1, <1>3, <1>4 DEF TakeNumber
<1>7. PICK work : work = advanced(old, [old EXCEPT !.pc = "numbered", !.number = number])
  OBVIOUS
<1>8. next_locks(old) = counter_lock(fy, type)
  BY <1>2, <1>3 DEF next_locks
<1>9. /\ DOMAIN work = {"request", "pc", "locks", "rows", "position", "number"}
      /\ work.request = old.request /\ work.pc = "numbered" /\ work.rows = old.rows
      /\ work.position = old.position /\ work.number = number
      /\ work.locks = old.locks \cup next_locks(old)
  BY <1>2, <1>7 DEF shape, advanced
<1>10. counter_key(work) = <<fy, type>>
  BY <1>3, <1>9 DEF counter_key
<1>11. work.locks = locks_held(work)
  <2>1. locked_invoices(work) = locked_invoices(old)
    BY <1>2, <1>9 DEF locked_invoices
  <2>2. invoices_held(work) = invoices_held(old)
    BY <2>1 DEF invoices_held
  <2>3. counters_held(work) = counter_lock(fy, type)
    BY <1>9, <1>10 DEF counters_held, numbered
  <2>4. counters_held(old) = {} /\ targets_held(old) = {} /\ targets_held(work) = {}
    BY <1>2, <1>9 DEF counters_held, targets_held, numbered, past_update
  <2>5. old.locks = locks_held(old)
    BY <1>2 DEF shape
  <2> QED BY <1>8, <1>9, <2>2, <2>3, <2>4, <2>5 DEF locks_held
<1>12. creating(work) \/ paying(work) \/ refunding(work)
  <2>1. creating(old) \/ paying(old) \/ refunding(old)
    BY <1>2 DEF shape, sending, voiding, cancelling
  <2>2. CASE creating(old)
    BY <1>2, <1>9, <2>2 DEF creating
  <2>3. CASE paying(old)
    BY <1>2, <1>9, <2>3 DEF paying
  <2>4. CASE refunding(old)
    BY <1>2, <1>9, <2>4 DEF refunding
  <2> QED BY <2>1, <2>2, <2>3, <2>4
<1>13. shape(work)
  BY <1>5, <1>9, <1>11, <1>12 DEF shape
<1>14. /\ rows_fit(invoices, work) /\ number_fits(sequences, work)
       /\ original_fits(invoices, work) /\ note_fits(invoices, work)
       /\ similar_fits(payments, work)
  <2>1. rows_fit(invoices, work) /\ number_fits(sequences, work)
    BY <1>2, <1>5, <1>9, <1>10 DEF fits, rows_fit, number_fits
  <2>2. past_checks(work) <=> past_checks(old)
    BY <1>2, <1>9 DEF past_checks
  <2>3. original_fits(invoices, work) /\ note_fits(invoices, work)
    BY <1>2, <1>9, <2>2 DEF fits, original_fits, note_fits
  <2>4. similar_fits(payments, work)
    BY <1>2, <1>9 DEF fits, similar_fits
  <2> QED BY <2>1, <2>3, <2>4
<1>15. /\ credit_fits(invoices, work)
       /\ target_fits(payments, "cancel_payment", work)
       /\ target_fits(refunds, "cancel_refund", work)
       /\ recomputation_fits(invoices, payments, refunds, work)
  BY <1>2, <1>9 DEF fits, credit_fits, target_fits, past_update, recomputation_fits
<1> QED BY <1>1, <1>2, <1>6, <1>7, <1>9, <1>13, <1>14, <1>15, AdvanceOn DEF fits

LEMMA CheckPaymentInv ==
    ASSUME TInv, NEW s \in Sessions, CheckPayment(s)
    PROVE  TInv'
<1>1. PICK old : old = session[s]
  OBVIOUS
<1>2. /\ s \in DOMAIN session /\ old.pc = "locked" /\ old.request.op = "record_payment"
      /\ shape(old) /\ fits(invoices, payments, refunds, sequences, old)
      /\ soft_checked(old.request) =>
           find_recent_similar_active_payment(old.request.invoice, old.request.amount,
                                              old.request.payment_mode) = {}
      /\ old.position.ok
      /\ advance(s, [old EXCEPT !.pc = "checked"])
  BY <1>1, OpenTransaction DEF CheckPayment, at
<1>3. PICK work : work = advanced(old, [old EXCEPT !.pc = "checked"])
  OBVIOUS
<1>4. next_locks(old) = {}
  BY <1>2 DEF next_locks, cancel_ops
<1>5. /\ DOMAIN work = {"request", "pc", "locks", "rows", "position", "number"}
      /\ work.request = old.request /\ work.pc = "checked" /\ work.rows = old.rows
      /\ work.position = old.position /\ work.number = old.number
      /\ work.locks = old.locks /\ work.locks = old.locks \cup next_locks(old)
  BY <1>2, <1>3, <1>4, NextStatement
<1>6. paying(old)
  BY <1>2, Kinds
<1>7. work.locks = locks_held(work)
  <2>1. PICK i : DOMAIN old.rows = {i}
    BY <1>6 DEF paying
  <2>2. locks_held(old) = get_by_id_for_update(i)
    BY <1>2, <2>1, LocksOfRead DEF numbered, past_update
  <2>3. locks_held(work) = get_by_id_for_update(i)
    BY <1>5, <2>1, LocksOfRead DEF numbered, past_update
  <2>4. old.locks = locks_held(old)
    BY <1>2 DEF shape
  <2> QED BY <1>5, <2>2, <2>3, <2>4
<1>8. paying(work)
  BY <1>2, <1>5, <1>6 DEF paying
<1>9. similar_fits(payments, work)
  BY <1>2, <1>5 DEF similar_fits, find_recent_similar_active_payment
<1>10. shape(work) /\ fits(invoices, payments, refunds, sequences, work)
  BY <1>2, <1>5, <1>7, <1>8, <1>9
     DEF shape, fits, rows_fit, number_fits, numbered, original_fits, past_checks,
         note_fits, credit_fits, target_fits, recomputation_fits
<1> QED BY <1>1, <1>2, <1>3, <1>5, <1>10, AdvanceOn

LEMMA ApplyCreditNoteInv ==
    ASSUME TInv, NEW s \in Sessions, ApplyCreditNote(s)
    PROVE  TInv'
<1>1. PICK old : old = session[s]
  OBVIOUS
<1>2. PICK c, note, o, original, position :
         /\ c = old.request.invoice /\ note = old.rows[c] /\ o = note.original
         /\ original = invoices[o]
         /\ position = apply_credit_note(original.total_amount, original.paid_amount,
                           original.credited_amount, original.refunded_amount,
                           note.total_amount)
  OBVIOUS
<1>3. /\ s \in DOMAIN session /\ old.pc = "locked" /\ old.request.op = "send_invoice"
      /\ ~receivable(note)
      /\ validate_invoice_accepts_credit_note(original.invoice_type,
                                              original.invoice_status)
      /\ position.ok
      /\ advance(s, [old EXCEPT !.pc = "credited", !.position = position])
  BY <1>1, <1>2 DEF ApplyCreditNote, at
<1>4. /\ shape(old) /\ sending(old) /\ rows_fit(invoices, old)
      /\ DOMAIN old.rows = {c} /\ c \in DOMAIN invoices /\ note = invoices[c]
  BY <1>1, <1>2, <1>3, OpenTransaction, Kinds DEF fits, sending
<1>5. o \in DOMAIN invoices
  BY <1>2, <1>3, <1>4 DEF TInv, IInv, TypeOK, receivable, Notes
<1>6. PICK work :
         work = advanced(old, [old EXCEPT !.pc = "credited", !.position = position])
  OBVIOUS
<1>7. next_locks(old) = get_by_id_for_update(o)
  <2>1. /\ ~receivable(old.rows[old.request.invoice])
        /\ old.rows[old.request.invoice].original = o
    BY <1>2, <1>3
  <2> QED BY <1>3, <2>1 DEF next_locks, cancel_ops
<1>8. /\ DOMAIN work = {"request", "pc", "locks", "rows", "position", "number"}
      /\ work.request = old.request /\ work.pc = "credited" /\ work.rows = old.rows
      /\ work.position = position /\ work.number = old.number
      /\ work.locks = old.locks \cup next_locks(old)
  BY <1>4, <1>6 DEF shape, advanced
<1>9. work.locks = locks_held(work)
  <2>1. old.locks = get_by_id_for_update(c)
    BY <1>3, <1>4, LocksOfRead DEF shape, numbered, past_update
  <2>2. locked_invoices(work) = {c} \cup {o}
    BY <1>2, <1>4, <1>8 DEF locked_invoices
  <2>3. invoices_held(work) = get_by_id_for_update(c) \cup get_by_id_for_update(o)
    BY <2>2 DEF invoices_held
  <2>4. counters_held(work) = {} /\ targets_held(work) = {}
    BY <1>8 DEF counters_held, targets_held, numbered, past_update
  <2> QED BY <1>7, <1>8, <2>1, <2>3, <2>4 DEF locks_held
<1>10. sending(work)
  BY <1>2, <1>3, <1>4, <1>8 DEF sending
<1>11. credit_fits(invoices, work)
  BY <1>2, <1>3, <1>5, <1>8 DEF credit_fits
<1>12. shape(work) /\ fits(invoices, payments, refunds, sequences, work)
  BY <1>3, <1>4, <1>8, <1>9, <1>10, <1>11
     DEF shape, fits, rows_fit, number_fits, numbered, original_fits, past_checks,
         note_fits, similar_fits, target_fits, recomputation_fits
<1> QED BY <1>1, <1>3, <1>6, <1>8, <1>12, AdvanceOn

LEMMA LockCancelledInvoiceInv ==
    ASSUME TInv, NEW s \in Sessions, LockCancelledInvoice(s)
    PROVE  TInv'
<1>1. PICK old : old = session[s]
  OBVIOUS
<1>2. PICK i, rows : i = old.request.invoice /\ rows = Insert(old.rows, i, invoices[i])
  OBVIOUS
<1>3. /\ s \in DOMAIN session /\ old.pc = "target_read" /\ old.request.op \in cancel_ops
      /\ advance(s, [old EXCEPT !.pc = "locked", !.rows = rows])
  <2>1. /\ s \in DOMAIN session /\ old.pc = "target_read" /\ old.request.op \in cancel_ops
        /\ advance(s, [session[s] EXCEPT !.pc = "locked",
                          !.rows = Insert(@, session[s].request.invoice,
                                          invoices[session[s].request.invoice])])
    BY <1>1 DEF LockCancelledInvoice, at
  <2>2. shape(old)
    BY <1>1, <2>1, OpenTransaction
  <2>3. [session[s] EXCEPT !.pc = "locked",
             !.rows = Insert(@, session[s].request.invoice,
                             invoices[session[s].request.invoice])]
          = [old EXCEPT !.pc = "locked", !.rows = rows]
    BY <1>1, <1>2, <2>2 DEF shape
  <2> QED BY <2>1, <2>3
<1>4. /\ shape(old) /\ cancelling(old) /\ DOMAIN old.rows = {}
      /\ fits(invoices, payments, refunds, sequences, old)
  BY <1>1, <1>3, OpenTransaction, Kinds DEF cancelling
<1>5. i \in DOMAIN invoices
  BY <1>2, <1>3, <1>4 DEF fits, target_fits, cancel_ops, TInv, IInv, TypeOK
<1>6. PICK work : work = advanced(old, [old EXCEPT !.pc = "locked", !.rows = rows])
  OBVIOUS
<1>7. next_locks(old) = get_by_id_for_update(i)
  BY <1>2, <1>3 DEF next_locks, cancel_ops
<1>8. /\ DOMAIN work = {"request", "pc", "locks", "rows", "position", "number"}
      /\ work.request = old.request /\ work.pc = "locked" /\ work.rows = rows
      /\ work.position = old.position /\ work.number = old.number
      /\ work.locks = old.locks \cup next_locks(old)
  BY <1>4, <1>6 DEF shape, advanced
<1>9. DOMAIN rows = {i} /\ rows[i] = invoices[i]
  BY <1>2, <1>4 DEF Insert
<1>10. work.locks = locks_held(work)
  <2>1. locks_held(old) = {}
    BY <1>3, <1>4, LocksOfRead DEF numbered, past_update
  <2>2. locks_held(work) = get_by_id_for_update(i)
    BY <1>8, <1>9, LocksOfRead DEF numbered, past_update
  <2>3. old.locks = locks_held(old)
    BY <1>4 DEF shape
  <2> QED BY <1>7, <1>8, <2>1, <2>2, <2>3
<1>11. cancelling(work)
  BY <1>2, <1>3, <1>8, <1>9 DEF cancelling
<1>12. /\ target_fits(payments, "cancel_payment", work)
       /\ target_fits(refunds, "cancel_refund", work)
  BY <1>4, <1>8 DEF fits, target_fits, past_update
<1>13. shape(work) /\ fits(invoices, payments, refunds, sequences, work)
  BY <1>3, <1>4, <1>5, <1>8, <1>9, <1>10, <1>11, <1>12
     DEF shape, fits, rows_fit, number_fits, numbered, original_fits, past_checks,
         note_fits, credit_fits, similar_fits, recomputation_fits, cancel_ops
<1> QED BY <1>1, <1>3, <1>6, <1>8, <1>13, AdvanceOn

LEMMA SoftCancelInv ==
    ASSUME TInv, NEW s \in Sessions, SoftCancel(s)
    PROVE  TInv'
<1>1. PICK old : old = session[s]
  OBVIOUS
<1> DEFINE op == old.request.op
           x == old.request.target
           i == old.request.invoice
<1>2. /\ s \in DOMAIN session /\ old.pc = "locked" /\ op \in cancel_ops
      /\ op = "cancel_payment" => payments[x].status = "active"
      /\ op = "cancel_refund" => refunds[x].status = "active"
      /\ advance(s, [old EXCEPT !.pc = "soft_cancelled"])
  BY <1>1 DEF SoftCancel, at, soft_cancel_affects, cancel_ops
<1>3. /\ shape(old) /\ cancelling(old) /\ DOMAIN old.rows = {i}
      /\ fits(invoices, payments, refunds, sequences, old)
  BY <1>1, <1>2, OpenTransaction, Kinds DEF cancelling
<1>4. PICK work : work = advanced(old, [old EXCEPT !.pc = "soft_cancelled"])
  OBVIOUS
<1>5. next_locks(old) = soft_cancel_lock(op, x)
  BY <1>2 DEF next_locks, cancel_ops
<1>6. /\ DOMAIN work = {"request", "pc", "locks", "rows", "position", "number"}
      /\ work.request = old.request /\ work.pc = "soft_cancelled" /\ work.rows = old.rows
      /\ work.number = old.number /\ work.locks = old.locks \cup next_locks(old)
  BY <1>3, <1>4, NextStatement
<1>7. work.locks = locks_held(work)
  <2>1. old.locks = get_by_id_for_update(i)
    BY <1>2, <1>3, LocksOfRead DEF shape, numbered, past_update
  <2>2. locked_invoices(work) = {i}
    BY <1>3, <1>6 DEF locked_invoices
  <2>3. invoices_held(work) = get_by_id_for_update(i)
    BY <2>2 DEF invoices_held
  <2>4. counters_held(work) = {} /\ targets_held(work) = soft_cancel_lock(op, x)
    BY <1>6 DEF counters_held, targets_held, numbered, past_update
  <2> QED BY <1>5, <1>6, <2>1, <2>3, <2>4 DEF locks_held
<1>8. cancelling(work)
  BY <1>2, <1>3, <1>6 DEF cancelling
<1>9. /\ target_fits(payments, "cancel_payment", work)
      /\ target_fits(refunds, "cancel_refund", work)
  BY <1>2, <1>3, <1>6 DEF fits, target_fits
<1>10. shape(work) /\ fits(invoices, payments, refunds, sequences, work)
  BY <1>2, <1>3, <1>6, <1>7, <1>8, <1>9
     DEF shape, fits, rows_fit, number_fits, numbered, original_fits, past_checks,
         note_fits, credit_fits, similar_fits, recomputation_fits, cancel_ops
<1> QED BY <1>1, <1>2, <1>4, <1>6, <1>10, AdvanceOn

LEMMA RecomputeInv ==
    ASSUME TInv, NEW s \in Sessions, Recompute(s)
    PROVE  TInv'
<1>1. PICK old : old = session[s]
  OBVIOUS
<1>2. PICK i, position :
         /\ i = old.request.invoice
         /\ position = recomputed_position(i, payments_seen(old.request),
                                           refunds_seen(old.request))
  OBVIOUS
<1>3. /\ s \in DOMAIN session /\ old.pc = "soft_cancelled" /\ old.request.op \in cancel_ops
      /\ position.ok
      /\ advance(s, [old EXCEPT !.pc = "recomputed", !.position = position])
  BY <1>1, <1>2 DEF Recompute, at
<1>4. /\ shape(old) /\ cancelling(old)
      /\ fits(invoices, payments, refunds, sequences, old)
  BY <1>1, <1>3, OpenTransaction, Kinds
<1>5. PICK work :
         work = advanced(old, [old EXCEPT !.pc = "recomputed", !.position = position])
  OBVIOUS
<1>6. next_locks(old) = {}
  BY <1>3 DEF next_locks, cancel_ops
<1>7. /\ DOMAIN work = {"request", "pc", "locks", "rows", "position", "number"}
      /\ work.request = old.request /\ work.pc = "recomputed" /\ work.rows = old.rows
      /\ work.position = position /\ work.number = old.number
      /\ work.locks = old.locks \cup next_locks(old)
  BY <1>4, <1>5 DEF shape, advanced
<1>8. work.locks = locks_held(work)
  <2>1. locked_invoices(work) = locked_invoices(old)
    BY <1>3, <1>7 DEF locked_invoices
  <2>2. invoices_held(work) = invoices_held(old)
    BY <2>1 DEF invoices_held
  <2>3. counters_held(work) = counters_held(old) /\ targets_held(work) = targets_held(old)
    BY <1>3, <1>7 DEF counters_held, targets_held, numbered, past_update
  <2>4. old.locks = locks_held(old)
    BY <1>4 DEF shape
  <2> QED BY <1>6, <1>7, <2>2, <2>3, <2>4 DEF locks_held
<1>9. cancelling(work)
  BY <1>3, <1>4, <1>7 DEF cancelling
<1>10. /\ target_fits(payments, "cancel_payment", work)
       /\ target_fits(refunds, "cancel_refund", work)
  BY <1>3, <1>4, <1>7 DEF fits, target_fits, past_update
<1>11. recomputation_fits(invoices, payments, refunds, work)
  BY <1>2, <1>7 DEF recomputation_fits, recomputed_position, seen, payments_seen,
                    refunds_seen
<1>12. shape(work) /\ fits(invoices, payments, refunds, sequences, work)
  BY <1>3, <1>4, <1>7, <1>8, <1>9, <1>10, <1>11
     DEF shape, fits, rows_fit, number_fits, numbered, original_fits, past_checks,
         note_fits, credit_fits, similar_fits, cancel_ops
<1> QED BY <1>1, <1>3, <1>5, <1>7, <1>12, AdvanceOn

-----------------------------------------------------------------------------
(* The invariant holds, and every step is one of Billing. *)

commits(s) ==
    \/ InsertInvoice(s) \/ SubmitInvoice(s) \/ SubmitCreditNote(s) \/ UpdateVoidState(s)
    \/ InsertPayment(s) \/ InsertRefund(s) \/ CommitCancel(s)

LEMMA Commits ==
    ASSUME TInv, NEW s \in Sessions, commits(s)
    PROVE  TInv' /\ NextForAnyParty
<1>1. s \in DOMAIN session /\ ended(s)
  BY DEF commits, InsertInvoice, SubmitInvoice, SubmitCreditNote, UpdateVoidState,
         InsertPayment, InsertRefund, CommitCancel, at
<1>2. PICK work : work = session[s]
  OBVIOUS
<1>3. commits_under(work.locks)
  BY <1>2, InsertInvoiceCommits, SubmitInvoiceCommits, SubmitCreditNoteCommits,
     UpdateVoidStateCommits, InsertPaymentCommits, InsertRefundCommits,
     CommitCancelCommits DEF commits
<1>4. commits_under(session[s].locks)
  BY <1>2, <1>3 DEF commits_under
<1> QED BY <1>1, <1>4, CommitInv DEF commits_under

\* The statements that change no table.
LEMMA StatementsInv ==
    ASSUME TInv, NEW s \in Sessions,
           \/ BeginCreateInvoice(s) \/ BeginCreateCreditNote(s) \/ CheckCreditNote(s)
           \/ TakeNumber(s) \/ BeginSendInvoice(s) \/ ApplyCreditNote(s)
           \/ BeginVoidInvoice(s) \/ BeginRecordPayment(s) \/ CheckPayment(s)
           \/ BeginRecordRefund(s) \/ BeginCancel(s) \/ LockCancelledInvoice(s)
           \/ SoftCancel(s) \/ Recompute(s) \/ RollBack(s)
    PROVE  TInv' /\ UNCHANGED vars
<1>1. UNCHANGED vars
  BY DEF BeginCreateInvoice, BeginCreateCreditNote, CheckCreditNote, TakeNumber,
         BeginSendInvoice, ApplyCreditNote, BeginVoidInvoice, BeginRecordPayment,
         CheckPayment, BeginRecordRefund, BeginCancel, LockCancelledInvoice, SoftCancel,
         Recompute, RollBack, begin, advance
<1>2. TInv'
  BY BeginCreateInvoiceInv, BeginCreateCreditNoteInv, CheckCreditNoteInv, TakeNumberInv,
     BeginSendInvoiceInv, ApplyCreditNoteInv, BeginVoidInvoiceInv, BeginRecordPaymentInv,
     CheckPaymentInv, BeginRecordRefundInv, BeginCancelInv, LockCancelledInvoiceInv,
     SoftCancelInv, RecomputeInv, RollBackInv
<1> QED BY <1>1, <1>2

\* A step of the transactions is for the tables a step of Billing or none.
LEMMA TransactionStep ==
    TInv /\ [NextTransactions]_transactionVars => TInv' /\ [NextForAnyParty]_vars
<1> SUFFICES ASSUME TInv, [NextTransactions]_transactionVars
             PROVE  TInv' /\ [NextForAnyParty]_vars
  OBVIOUS
<1>1. CASE UNCHANGED transactionVars
  <2>1. UNCHANGED vars /\ UNCHANGED session
    BY <1>1 DEF transactionVars
  <2>2. IInv' /\ OriginalsCreditable'
    BY <2>1, TablesInv
  <2> QED BY <2>1, <2>2 DEF TInv, SessionsShaped, SessionsFit, LocksExclusive, vars
<1>2. CASE CommitSetPartyActive
  <2>1. NextForAnyParty /\ UNCHANGED <<invoices, payments, refunds, sequences, session>>
    BY <1>2 DEF CommitSetPartyActive, NextForAnyParty, SetPartyActive, set_party_active
  <2>2. IInv' /\ OriginalsCreditable'
    BY <2>1, TablesInv
  <2> QED BY <2>1, <2>2 DEF TInv, SessionsShaped, SessionsFit, LocksExclusive
<1>3. CASE \E s \in Sessions : commits(s)
  BY <1>3, Commits
<1>4. ASSUME NextTransactions, ~CommitSetPartyActive, ~\E s \in Sessions : commits(s)
      PROVE  TInv' /\ UNCHANGED vars
  <2>1. PICK s \in Sessions :
           \/ BeginCreateInvoice(s) \/ BeginCreateCreditNote(s) \/ CheckCreditNote(s)
           \/ TakeNumber(s) \/ BeginSendInvoice(s) \/ ApplyCreditNote(s)
           \/ BeginVoidInvoice(s) \/ BeginRecordPayment(s) \/ CheckPayment(s)
           \/ BeginRecordRefund(s) \/ BeginCancel(s) \/ LockCancelledInvoice(s)
           \/ SoftCancel(s) \/ Recompute(s) \/ RollBack(s)
    BY <1>4 DEF NextTransactions, commits
  <2> QED BY <2>1, StatementsInv
<1> QED BY <1>1, <1>2, <1>3, <1>4

LEMMA TransactionInvariance == SpecTransactions => []TInv
<1>1. InitTransactions => TInv
  <2> SUFFICES ASSUME InitTransactions PROVE TInv
    OBVIOUS
  <2>1. IInv
    BY InitInv DEF InitTransactions
  <2> QED BY <2>1 DEF InitTransactions, Init, TInv, OriginalsCreditable, SessionsShaped,
                      SessionsFit, LocksExclusive
<1> QED BY <1>1, TransactionStep, PTL DEF SpecTransactions

(***************************************************************************)
(* The open transactions are well formed: what a session has read of an    *)
(* invoice it has locked is still stored, and no row is locked twice.      *)
(***************************************************************************)
THEOREM TransactionsTypeCorrect == SpecTransactions => []TransactionsTypeOK
<1>1. TInv => TransactionsTypeOK
  BY DEF TInv, SessionsShaped, SessionsFit, LocksExclusive, shape, fits, rows_fit,
         TransactionsTypeOK
<1> QED BY <1>1, TransactionInvariance, PTL

(***************************************************************************)
(* Of two cancellations of one row at most one gets past its UPDATE, and   *)
(* that one has cancelled something.                                       *)
(***************************************************************************)
THEOREM CancellationsCancel == SpecTransactions => []CancellationsWork
<1>1. TInv => CancellationsWork
  <2> SUFFICES ASSUME TInv, NEW s \in DOMAIN session,
                      session[s].pc \in {"soft_cancelled", "recomputed"}
               PROVE  LET table == IF session[s].request.op = "cancel_payment"
                                   THEN payments ELSE refunds
                      IN  table[session[s].request.target].status = "active"
    BY DEF CancellationsWork
  <2>1. PICK work : work = session[s]
    OBVIOUS
  <2>2. past_update(work) /\ work.request.op \in cancel_ops
    BY <2>1, OpenTransaction, Kinds DEF past_update, cancelling
  <2>3. /\ target_fits(payments, "cancel_payment", work)
        /\ target_fits(refunds, "cancel_refund", work)
    BY <2>1, OpenTransaction DEF fits
  <2> QED BY <2>1, <2>2, <2>3 DEF target_fits, cancel_ops
<1> QED BY <1>1, TransactionInvariance, PTL

(***************************************************************************)
(* The soft duplicate check of cash and card payments is still true when   *)
(* the payment is inserted.                                                *)
(***************************************************************************)
THEOREM DuplicateCheckStands == SpecTransactions => []PaymentDuplicateCheckHolds
<1>1. TInv => PaymentDuplicateCheckHolds
  BY DEF TInv, SessionsFit, fits, similar_fits, PaymentDuplicateCheckHolds,
         find_recent_similar_active_payment
<1> QED BY <1>1, TransactionInvariance, PTL

(***************************************************************************)
(* The ledger is right after every commit, whatever requests overlap.      *)
(***************************************************************************)
THEOREM LedgerRightAtOnce ==
    SpecTransactions => [](/\ TypeOK /\ LedgerMatchesRows /\ LedgerWithinBounds
                           /\ StatusMatchesLedger /\ NoOrphanedMoney)
<1>1. TInv => /\ TypeOK /\ LedgerMatchesRows /\ LedgerWithinBounds
              /\ StatusMatchesLedger /\ NoOrphanedMoney
  BY DEF TInv, IInv
<1> QED BY <1>1, TransactionInvariance, PTL

(***************************************************************************)
(* Requests that run at once leave no gap in a series and give no number   *)
(* twice: the counter stays locked until the document is committed.        *)
(***************************************************************************)
THEOREM NumbersWithoutGapAtOnce == SpecTransactions => []NumbersGapless
<1>1. InitTransactions => SeriesGapless
  BY InitGapless DEF InitTransactions
<1>2. TInv => IInv
  BY DEF TInv
<1>3. SpecTransactions => []SeriesGapless
  BY <1>1, <1>2, TransactionInvariance, TransactionStep, GaplessStep, PTL
     DEF SpecTransactions
<1>4. SeriesGapless => NumbersGapless
  BY GaplessIsCounted
<1> QED BY <1>3, <1>4, PTL

(***************************************************************************)
(* Two credit notes of one amount against one original are not both        *)
(* inserted, also when their requests arrive together: the lock on the     *)
(* original makes the check of the second one see the first.               *)
(***************************************************************************)
THEOREM TwinsImpossibleAtOnce == SpecTransactions => []NoTwinCreditNotes
<1>1. InitTransactions => NoTwinCreditNotes
  BY DEF InitTransactions, Init, NoTwinCreditNotes
<1>2. TInv => IInv
  BY DEF TInv
<1> QED BY <1>1, <1>2, TransactionInvariance, TransactionStep, TwinsStep, PTL
        DEF SpecTransactions

(***************************************************************************)
(* No commit edits, deletes or revives a document or takes back a credit,  *)
(* although cancellations overwrite columns they computed before.          *)
(***************************************************************************)
THEOREM DocumentsKeptAtOnce == SpecTransactions => CreditsArePermanent /\ DocumentsPermanent
<1>1. TInv => IInv
  BY DEF TInv
<1> QED BY <1>1, TransactionInvariance, TransactionStep, InvoicesKept, TransfersKept, PTL
        DEF SpecTransactions, CreditsArePermanent, DocumentsPermanent

-----------------------------------------------------------------------------
(* No circle of waiting transactions. *)

numbering_debit_note(work) ==
    numbered(work) /\ work.request.op = "create_invoice" /\ work.request.type = "debit_note"

sending_credit_note(work) ==
    /\ work.pc = "locked" /\ work.request.op = "send_invoice"
    /\ ~receivable(work.rows[work.request.invoice])

\* The lock order: a transaction waits only for one of a higher rank.
wait_rank(work) ==
    IF work.pc = "target_read" \/ (work.pc = "checked" /\ DOMAIN work.rows = {}) THEN 0
    ELSE IF numbering_debit_note(work) THEN 1
    ELSE IF sending_credit_note(work) THEN 2
    ELSE IF work.pc = "checked" \/ (work.pc = "locked" /\ work.request.op \in cancel_ops)
         THEN 3
    ELSE 4

LEMMA RankRange == \A work : wait_rank(work) \in 0..4
BY DEF wait_rank

LEMMA RankOfHolder ==
    ASSUME NEW work, shape(work), locked_invoices(work) # {}
    PROVE  wait_rank(work) >= 2
<1>1. work.pc = "target_read" => DOMAIN work.rows = {}
  BY DEF shape, creating, sending, voiding, paying, refunding, cancelling
<1>2. numbering_debit_note(work) => DOMAIN work.rows = {}
  BY Kinds DEF numbering_debit_note, creating
<1>3. DOMAIN work.rows = {} => work.pc = "credited"
  BY DEF locked_invoices
<1>4. DOMAIN work.rows # {}
  <2>1. work.pc = "credited" => DOMAIN work.rows # {}
    BY Kinds DEF sending
  <2> QED BY <1>3, <2>1
<1> QED BY <1>1, <1>2, <1>4 DEF wait_rank

LEMMA WaitsUpwards ==
    ASSUME TInv, NEW s \in DOMAIN session, NEW t \in waits_for(s)
    PROVE  t \in DOMAIN session /\ wait_rank(session[s]) < wait_rank(session[t])
<1>1. PICK a, b : a = session[s] /\ b = session[t]
  OBVIOUS
<1>2. t \in DOMAIN session /\ b.locks \cap next_locks(a) # {}
  BY <1>1 DEF waits_for
<1>3. /\ shape(a) /\ shape(b) /\ rows_fit(invoices, a) /\ rows_fit(invoices, b)
  BY <1>1, <1>2, OpenTransaction DEF fits
<1>4. CASE a.pc = "checked"
  <2>1. PICK fy, type : counter_key(a) = <<fy, type>>
    BY <1>1, <1>4, CounterKeys
  <2>2. next_locks(a) = counter_lock(fy, type)
    BY <1>4, <2>1 DEF next_locks
  <2>3. numbered(b) /\ counter_key(b)[2] = type
    BY <1>2, <1>3, <2>2, HeldCounters DEF counter_lock
  <2>4. wait_rank(b) = IF numbering_debit_note(b) THEN 1 ELSE 4
    BY <2>3 DEF wait_rank, numbered, sending_credit_note
  <2>5. CASE DOMAIN a.rows = {}
    BY <1>1, <1>2, <1>4, <2>4, <2>5 DEF wait_rank
  <2>6. CASE DOMAIN a.rows # {}
    <3>1. wait_rank(a) \in {2, 3}
      BY <1>4, <2>6 DEF wait_rank, numbering_debit_note, numbered
    <3>2. type # "debit_note"
      <4>1. creating(a) \/ paying(a) \/ refunding(a)
        BY <1>3, <1>4 DEF shape, sending, voiding, cancelling
      <4>2. creating(a) => type = "credit_note"
        BY <2>1, <2>6 DEF creating, counter_key
      <4>3. paying(a) \/ refunding(a) => type \in {"payment", "refund"}
        BY <2>1 DEF paying, refunding, counter_key
      <4> QED BY <4>1, <4>2, <4>3
    <3>3. ~numbering_debit_note(b)
      BY <2>3, <3>2 DEF numbering_debit_note, counter_key
    <3> QED BY <1>1, <1>2, <2>4, <3>1, <3>3
  <2> QED BY <1>2, <2>5, <2>6
<1>5. ASSUME NEW o, next_locks(a) = {<<"invoices", o>>}
      PROVE  o \in locked_invoices(b) /\ wait_rank(b) >= 2
  BY <1>2, <1>3, <1>5, HeldInvoices, RankOfHolder
<1>6. CASE numbering_debit_note(a)
  <2>1. next_locks(a) = {<<"invoices", a.request.original>>}
    BY <1>6 DEF next_locks, numbering_debit_note, numbered, foreign_key_lock
  <2>2. wait_rank(a) = 1
    BY <1>6 DEF wait_rank, numbering_debit_note, numbered
  <2>3. wait_rank(b) >= 2
    BY <1>5, <2>1
  <2> QED BY <1>1, <1>2, <2>2, <2>3, RankRange
<1>7. CASE sending_credit_note(a)
  <2> DEFINE c == a.request.invoice
             o == a.rows[c].original
  <2>1. next_locks(a) = {<<"invoices", o>>}
    BY <1>7 DEF next_locks, sending_credit_note, get_by_id_for_update, cancel_ops
  <2>2. wait_rank(a) = 2
    BY <1>7 DEF wait_rank, sending_credit_note, numbering_debit_note, numbered
  <2>3. receivable(invoices[o])
    <3>1. c \in DOMAIN invoices /\ a.rows[c] = invoices[c] /\ ~receivable(invoices[c])
      BY <1>3, <1>7, Kinds DEF sending_credit_note, sending, rows_fit
    <3> QED BY <3>1 DEF TInv, OriginalsCreditable, CREDITABLE_ORIGINAL_TYPES, receivable
  <2>4. o \in locked_invoices(b) /\ wait_rank(b) >= 2
    BY <1>5, <2>1
  <2>5. ~sending_credit_note(b)
    <3> SUFFICES ASSUME sending_credit_note(b) PROVE FALSE
      OBVIOUS
    <3>1. locked_invoices(b) = {b.request.invoice}
      BY <1>3, Kinds DEF locked_invoices, sending_credit_note, sending
    <3>2. b.rows[o] = invoices[o] /\ o = b.request.invoice
      BY <1>3, <2>4, <3>1, Kinds DEF sending_credit_note, sending, rows_fit
    <3> QED BY <2>3, <3>2 DEF sending_credit_note
  <2>6. wait_rank(b) > 2
    BY <2>4, <2>5 DEF wait_rank
  <2> QED BY <1>1, <1>2, <2>2, <2>6 DEF wait_rank
<1>8. CASE a.pc = "target_read"
  <2>1. next_locks(a) = {<<"invoices", a.request.invoice>>}
    BY <1>8 DEF next_locks, get_by_id_for_update
  <2>2. wait_rank(a) = 0
    BY <1>8 DEF wait_rank
  <2>3. wait_rank(b) >= 2
    BY <1>5, <2>1
  <2> QED BY <1>1, <1>2, <2>2, <2>3, RankRange
<1>9. CASE a.pc = "locked" /\ a.request.op \in cancel_ops
  <2>1. next_locks(a) = {<<a.request.op, a.request.target>>}
    BY <1>9 DEF next_locks, soft_cancel_lock, cancel_ops
  <2>2. past_update(b)
    BY <1>2, <1>3, <1>9, <2>1, HeldTargets
  <2>3. wait_rank(a) = 3 /\ wait_rank(b) = 4
    BY <1>9, <2>2 DEF wait_rank, past_update, numbering_debit_note, numbered,
                      sending_credit_note, cancel_ops
  <2> QED BY <1>1, <1>2, <2>3
<1>10. CASE ~ \/ a.pc = "checked" \/ numbering_debit_note(a) \/ sending_credit_note(a)
              \/ a.pc = "target_read" \/ (a.pc = "locked" /\ a.request.op \in cancel_ops)
  <2>1. next_locks(a) = {}
    BY <1>10 DEF next_locks, numbering_debit_note, numbered, sending_credit_note
  <2> QED BY <1>2, <2>1
<1> QED BY <1>4, <1>6, <1>7, <1>8, <1>9, <1>10

(***************************************************************************)
(* The lock order has no cycle: in every set of open transactions one      *)
(* waits for none of the set.                                              *)
(***************************************************************************)
THEOREM NoDeadlock == SpecTransactions => []NoWaitCycle
<1>1. TInv => NoWaitCycle
  <2> SUFFICES ASSUME TInv,
                      NEW group \in SUBSET DOMAIN session, group # {},
                      \A s \in group : waits_for(s) \cap group # {}
               PROVE  FALSE
    BY DEF NoWaitCycle
  <2>1. \A s \in group : wait_rank(session[s]) \in 0..4
    BY RankRange
  <2>2. \A s \in group : \E t \in group : wait_rank(session[s]) < wait_rank(session[t])
    BY WaitsUpwards
  <2>3. \A s \in group : wait_rank(session[s]) # 4
    BY <2>1, <2>2
  <2>4. \A s \in group : wait_rank(session[s]) # 3
    BY <2>1, <2>2, <2>3
  <2>5. \A s \in group : wait_rank(session[s]) # 2
    BY <2>1, <2>2, <2>3, <2>4
  <2>6. \A s \in group : wait_rank(session[s]) # 1
    BY <2>1, <2>2, <2>3, <2>4, <2>5
  <2> QED BY <2>1, <2>2, <2>3, <2>4, <2>5, <2>6
<1> QED BY <1>1, TransactionInvariance, PTL

-----------------------------------------------------------------------------
(* Refinement: the definitions of Billing and those of its instance agree. *)

LEMMA SameLedgerRules ==
    /\ \A a, b : Atomic!larger(a, b) = larger(a, b)
    /\ \A total, paid, credited, refunded :
        Atomic!compute_ledger_position(total, paid, credited, refunded)
            = compute_ledger_position(total, paid, credited, refunded)
<1>1. \A a, b : Atomic!larger(a, b) = larger(a, b)
  BY DEF Atomic!larger, larger
<1>2. \A total, paid, credited, refunded :
         Atomic!balance(total, paid, credited, refunded)
            = balance(total, paid, credited, refunded)
  BY DEF Atomic!balance, balance
<1>3. \A total, paid, credited, refunded :
         /\ Atomic!components_possible(total, paid, credited, refunded)
               = components_possible(total, paid, credited, refunded)
         /\ Atomic!ledger_status(total, paid, credited, refunded)
               = ledger_status(total, paid, credited, refunded)
  BY <1>2 DEF Atomic!components_possible, components_possible, Atomic!ledger_status,
              ledger_status
<1> QED BY <1>1, <1>2, <1>3 DEF Atomic!compute_ledger_position, compute_ledger_position

LEMMA SamePositions ==
    \A total, paid, credited, refunded, amount :
        /\ Atomic!apply_payment(total, paid, credited, refunded, amount)
              = apply_payment(total, paid, credited, refunded, amount)
        /\ Atomic!apply_credit_note(total, paid, credited, refunded, amount)
              = apply_credit_note(total, paid, credited, refunded, amount)
        /\ Atomic!apply_refund(total, paid, credited, refunded, amount)
              = apply_refund(total, paid, credited, refunded, amount)
<1> TAKE total, paid, credited, refunded, amount
<1>1. \A outstanding : Atomic!validate_payment_does_not_exceed_outstanding(amount, outstanding)
                         = validate_payment_does_not_exceed_outstanding(amount, outstanding)
  BY DEF Atomic!validate_payment_does_not_exceed_outstanding,
         validate_payment_does_not_exceed_outstanding
<1>2. Atomic!apply_payment(total, paid, credited, refunded, amount)
         = apply_payment(total, paid, credited, refunded, amount)
  BY <1>1, SameLedgerRules DEF Atomic!apply_payment, apply_payment
<1>3. Atomic!apply_credit_note(total, paid, credited, refunded, amount)
         = apply_credit_note(total, paid, credited, refunded, amount)
  BY SameLedgerRules DEF Atomic!apply_credit_note, apply_credit_note
<1>4. Atomic!apply_refund(total, paid, credited, refunded, amount)
         = apply_refund(total, paid, credited, refunded, amount)
  BY SameLedgerRules DEF Atomic!apply_refund, apply_refund
<1> QED BY <1>2, <1>3, <1>4

LEMMA SameSums ==
    /\ \A ids, amount : Atomic!Sum(ids, amount) = Sum(ids, amount)
    /\ \A table, x, row : Atomic!Insert(table, x, row) = Insert(table, x, row)
<1>1. \A ids, amount : Atomic!Paise(ids, amount) = Paise(ids, amount)
  BY DEF Atomic!Paise, Paise
<1>2. \A set : Atomic!Cardinality(set) = Cardinality(set)
  BY DEF Atomic!Cardinality, Cardinality
<1> QED BY <1>1, <1>2 DEF Atomic!Sum, Sum, Atomic!Insert, Insert

LEMMA SameFormat ==
    \A type, n : Atomic!validate_invoice_number_format(type, n)
                    = validate_invoice_number_format(type, n)
<1>1. \A set : Atomic!Cardinality(set) = Cardinality(set)
  BY DEF Atomic!Cardinality, Cardinality
<1>2. \A n : Atomic!digits(n) = digits(n)
  BY <1>1 DEF Atomic!digits, digits
<1>3. \A type, n : Atomic!formatted_length(type, n) = formatted_length(type, n)
  BY <1>2 DEF Atomic!formatted_length, formatted_length, Atomic!prefix_length, prefix_length,
              Atomic!SEQUENCE_PADDING, SEQUENCE_PADDING
<1> QED BY <1>3 DEF Atomic!validate_invoice_number_format, validate_invoice_number_format,
                    Atomic!MAX_NUMBER_LENGTH, MAX_NUMBER_LENGTH

LEMMA SameQueries ==
    /\ \A inv : /\ Atomic!receivable(inv) = receivable(inv)
                /\ Atomic!outstanding_amount(inv) = outstanding_amount(inv)
    /\ \A table, i : Atomic!active_rows(table, i) = active_rows(table, i)
    /\ \A pays, i : Atomic!get_total_paid_for_invoice(pays, i)
                       = get_total_paid_for_invoice(pays, i)
    /\ \A refs, i : Atomic!get_total_active_for_invoice(refs, i)
                       = get_total_active_for_invoice(refs, i)
    /\ \A invs, o, statuses : Atomic!notes_against(invs, o, statuses)
                                 = notes_against(invs, o, statuses)
    /\ \A invs, o : Atomic!get_total_credited(invs, o) = get_total_credited(invs, o)
<1>1. \A inv : /\ Atomic!receivable(inv) = receivable(inv)
               /\ Atomic!outstanding_amount(inv) = outstanding_amount(inv)
  <2>1. \A total, paid, credited, refunded :
           Atomic!balance(total, paid, credited, refunded)
              = balance(total, paid, credited, refunded)
    BY DEF Atomic!balance, balance
  <2> QED BY <2>1, SameLedgerRules DEF Atomic!receivable, receivable,
             Atomic!outstanding_amount, outstanding_amount
<1>2. /\ \A table : Atomic!amounts(table) = amounts(table)
      /\ \A invs : Atomic!totals(invs) = totals(invs)
  BY DEF Atomic!amounts, amounts, Atomic!totals, totals
<1>3. \A table, i : Atomic!active_rows(table, i) = active_rows(table, i)
  BY DEF Atomic!active_rows, active_rows
<1>4. \A invs, o, statuses : Atomic!notes_against(invs, o, statuses)
                                = notes_against(invs, o, statuses)
  BY DEF Atomic!notes_against, notes_against
<1> QED BY <1>1, <1>2, <1>3, <1>4, SameSums
        DEF Atomic!get_total_paid_for_invoice, get_total_paid_for_invoice,
            Atomic!get_total_active_for_invoice, get_total_active_for_invoice,
            Atomic!get_total_credited, get_total_credited

LEMMA SameWrites ==
    /\ \A fy, type : Atomic!next_number(fy, type) = next_number(fy, type)
    /\ \A fy, type : Atomic!get_next_invoice_number(fy, type)
                        <=> get_next_invoice_number(fy, type)
    /\ \A i, position : Atomic!update_ledger_state(i, position)
                           = update_ledger_state(i, position)
    /\ \A table, x : Atomic!soft_cancel_by_id(table, x) = soft_cancel_by_id(table, x)
    /\ \A i, pays, refs : Atomic!recomputed_position(i, pays, refs)
                             = recomputed_position(i, pays, refs)
    /\ \A invs, i : Atomic!submit(invs, i) = submit(invs, i)
<1>1. \A fy, type : Atomic!next_number(fy, type) = next_number(fy, type)
  BY DEF Atomic!next_number, next_number
<1>2. \A inv, position : Atomic!posted(inv, position) = posted(inv, position)
  BY DEF Atomic!posted, posted
<1>3. \A i, pays, refs : Atomic!recomputed_position(i, pays, refs)
                            = recomputed_position(i, pays, refs)
  BY SameLedgerRules, SameQueries DEF Atomic!recomputed_position, recomputed_position
<1> QED BY <1>1, <1>2, <1>3
        DEF Atomic!get_next_invoice_number, get_next_invoice_number,
            Atomic!update_ledger_state, update_ledger_state,
            Atomic!soft_cancel_by_id, soft_cancel_by_id, Atomic!submit, submit

LEMMA SameChecks ==
    /\ \A status : Atomic!validate_invoice_is_mutable(status)
                      = validate_invoice_is_mutable(status)
    /\ \A status : Atomic!validate_invoice_accepts_payment(status)
                      = validate_invoice_accepts_payment(status)
    /\ \A type, status : Atomic!validate_invoice_accepts_credit_note(type, status)
                            = validate_invoice_accepts_credit_note(type, status)
    /\ \A status, paid, type : Atomic!validate_invoice_is_voidable(status, paid, type)
                                  = validate_invoice_is_voidable(status, paid, type)
    /\ \A amount, outstanding :
          Atomic!validate_payment_does_not_exceed_outstanding(amount, outstanding)
             = validate_payment_does_not_exceed_outstanding(amount, outstanding)
    /\ \A amount, total, credited :
          Atomic!validate_credit_note_amount(amount, total, credited)
             = validate_credit_note_amount(amount, total, credited)
BY DEF Atomic!validate_invoice_is_mutable, validate_invoice_is_mutable,
       Atomic!validate_invoice_accepts_payment, validate_invoice_accepts_payment,
       Atomic!validate_invoice_accepts_credit_note, validate_invoice_accepts_credit_note,
       Atomic!validate_invoice_is_voidable, validate_invoice_is_voidable,
       Atomic!validate_payment_does_not_exceed_outstanding,
       validate_payment_does_not_exceed_outstanding,
       Atomic!validate_credit_note_amount, validate_credit_note_amount,
       Atomic!MUTABLE_STATES, MUTABLE_STATES, Atomic!PAYABLE_STATES, PAYABLE_STATES,
       Atomic!CREDITABLE_STATES, CREDITABLE_STATES, Atomic!VOIDABLE_STATES, VOIDABLE_STATES,
       Atomic!CREDITABLE_ORIGINAL_TYPES, CREDITABLE_ORIGINAL_TYPES

\* A new invoice of a party deactivated meanwhile, too, is one of Atomic,
\* where every party is usable.
LEMMA AtomicCreate ==
    ASSUME NEW i, NEW type, NEW party \in Parties, NEW o, NEW total, NEW fy,
           create_for_any_party(i, type, party, o, total, fy)
    PROVE  Atomic!create_invoice(i, type, party, o, total, fy, TRUE)
<1>1. Atomic!required_party_type(type) = required_party_type(type)
  BY DEF Atomic!required_party_type, required_party_type
<1>2. Atomic!original_matches(type, party, o) <=> original_matches(type, party, o)
  BY DEF Atomic!original_matches, original_matches, Atomic!Notes, Notes
<1>3. Atomic!credit_note_accepted(o, total) <=> credit_note_accepted(o, total)
  <2>1. Atomic!get_active_credit_note_for_original(o, total)
            = get_active_credit_note_for_original(o, total)
    BY SameQueries
       DEF Atomic!get_active_credit_note_for_original, get_active_credit_note_for_original,
           Atomic!InvoiceStatuses, InvoiceStatuses
  <2> QED BY <2>1, SameQueries, SameChecks
          DEF Atomic!credit_note_accepted, credit_note_accepted
<1>4. Atomic!create_invoice_accepted(type, party, o, total, TRUE)
  BY <1>1, <1>2, <1>3 DEF create_for_any_party, Atomic!create_invoice_accepted
<1> QED BY <1>4, SameSums, SameWrites DEF create_for_any_party, Atomic!create_invoice

LEMMA AtomicSend ==
    /\ \A i : send_invoice(i) => Atomic!send_invoice(i)
    /\ \A c : send_credit_note(c) => Atomic!send_credit_note(c)
    /\ \A i : void_invoice(i) => Atomic!void_invoice(i)
<1>1. \A i : send_invoice(i) => Atomic!send_invoice(i)
  BY SameChecks, SameFormat, SameQueries, SameWrites DEF send_invoice, Atomic!send_invoice
<1>2. \A c : send_credit_note(c) => Atomic!send_credit_note(c)
  BY SameChecks, SameFormat, SameQueries, SameWrites, SamePositions
     DEF send_credit_note, Atomic!send_credit_note
<1>3. \A i : void_invoice(i) => Atomic!void_invoice(i)
  BY SameChecks DEF void_invoice, Atomic!void_invoice
<1> QED BY <1>1, <1>2, <1>3

LEMMA SameReferences ==
    \A table, reference : Atomic!reference_free(table, reference)
                             <=> reference_free(table, reference)
BY DEF Atomic!reference_free, reference_free, Atomic!get_active_by_reference_number,
       get_active_by_reference_number

LEMMA AtomicPayment ==
    ASSUME NEW p, NEW i, NEW amount, NEW mode, NEW reference, NEW confirm_duplicate,
           record_payment(p, i, amount, mode, reference, confirm_duplicate)
    PROVE  Atomic!record_payment(p, i, amount, mode, reference, confirm_duplicate)
<1>1. Atomic!position_after_payment(i, amount) = position_after_payment(i, amount)
  BY SamePositions DEF Atomic!position_after_payment, position_after_payment
<1>2. Atomic!find_recent_similar_active_payment(i, amount, mode)
         = find_recent_similar_active_payment(i, amount, mode)
  BY SameQueries DEF Atomic!find_recent_similar_active_payment,
                     find_recent_similar_active_payment
<1>3. Atomic!record_payment_accepted(i, amount, mode, reference, confirm_duplicate)
  BY <1>2, SameChecks, SameQueries, SameReferences
     DEF record_payment, Atomic!record_payment_accepted, record_payment_accepted,
         Atomic!REFERENCE_REQUIRED_MODES, REFERENCE_REQUIRED_MODES
<1> QED BY <1>1, <1>3, SameSums, SameWrites DEF record_payment, Atomic!record_payment

LEMMA AtomicRefund ==
    ASSUME NEW r, NEW i, NEW amount, NEW reference, record_refund(r, i, amount, reference)
    PROVE  Atomic!record_refund(r, i, amount, reference)
<1>1. Atomic!position_after_refund(i, amount) = position_after_refund(i, amount)
  BY SamePositions DEF Atomic!position_after_refund, position_after_refund
<1> QED BY <1>1, SameSums, SameWrites, SameReferences DEF record_refund, Atomic!record_refund

LEMMA AtomicCancel ==
    /\ \A p : cancel_payment(p) => Atomic!cancel_payment(p)
    /\ \A r : cancel_refund(r) => Atomic!cancel_refund(r)
BY SameWrites DEF cancel_payment, Atomic!cancel_payment, cancel_refund, Atomic!cancel_refund

LEMMA AtomicStep ==
    ASSUME [NextForAnyParty]_vars, tables' # tables
    PROVE  Atomic!Next
<1>1. CASE CreateForAnyParty
  BY <1>1, AtomicCreate DEF CreateForAnyParty, Atomic!Next, Atomic!CreateInvoice,
        Atomic!Parties, Parties, Atomic!InvoiceTypes, InvoiceTypes
<1>2. CASE SendInvoice
  BY <1>2, AtomicSend DEF SendInvoice, Atomic!Next, Atomic!SendInvoice
<1>3. CASE VoidInvoice
  BY <1>3, AtomicSend DEF VoidInvoice, Atomic!Next, Atomic!VoidInvoice
<1>4. CASE RecordPayment
  BY <1>4, AtomicPayment DEF RecordPayment, Atomic!Next, Atomic!RecordPayment,
        Atomic!reference_given, reference_given
<1>5. CASE CancelPayment
  BY <1>5, AtomicCancel DEF CancelPayment, Atomic!Next, Atomic!CancelPayment
<1>6. CASE RecordRefund
  BY <1>6, AtomicRefund DEF RecordRefund, Atomic!Next, Atomic!RecordRefund
<1>7. CASE CancelRefund
  BY <1>7, AtomicCancel DEF CancelRefund, Atomic!Next, Atomic!CancelRefund
<1>8. CASE SetPartyActive \/ UNCHANGED vars
  BY <1>8 DEF SetPartyActive, set_party_active, vars, tables
<1> QED BY <1>1, <1>2, <1>3, <1>4, <1>5, <1>6, <1>7, <1>8 DEF NextForAnyParty

(***************************************************************************)
(* Requests that run at once change the committed tables as requests that  *)
(* run one after the other: each commit is one step of Billing, whichever  *)
(* statements of other handlers came between its own.                      *)
(***************************************************************************)
THEOREM CommitsAreAtomic == SpecTransactions => AtomicSpec
<1>1. InitTransactions => Atomic!Init
  BY DEF InitTransactions, Init, Atomic!Init, Atomic!Parties, Parties,
         Atomic!DocumentTypes, DocumentTypes
<1>2. TInv /\ [NextTransactions]_transactionVars => [tables' # tables => Atomic!Next]_tables
  BY TransactionStep, AtomicStep
<1> QED BY <1>1, <1>2, TransactionInvariance, PTL DEF SpecTransactions, AtomicSpec

(***************************************************************************)
(* So the billing core implements Receivables under overlapping requests   *)
(* too.                                                                    *)
(***************************************************************************)
THEOREM ReceivablesAtOnce == SpecTransactions => ReceivablesSpec
<1>1. InitTransactions => Ledger!Init
  BY DEF InitTransactions, Init, Ledger!Init, accounts
<1>2. TInv /\ [NextTransactions]_transactionVars => [Ledger!Next]_(the_book)
  BY TransactionStep, RefinesStep DEF TInv, the_book, book_after, accounts, accounts_after
<1> QED BY <1>1, <1>2, TransactionInvariance, PTL
        DEF SpecTransactions, ReceivablesSpec, Ledger!Spec, the_book

=============================================================================
