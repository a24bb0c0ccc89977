--------------------------- MODULE BillingProofs ---------------------------
(***************************************************************************)
(* The ledger of Billing is right for every set of invoices, payments and  *)
(* refunds and for all amounts.                                            *)
(*                                                                         *)
(* The inductive invariant is the conjunction of the invariants TLC checks *)
(* on small instances.  None is inductive alone: a cancellation needs      *)
(* LedgerMatchesRows to know that the recomputed sums move by one amount,  *)
(* a payment needs refunded <= credited to stay within the total, a refund *)
(* and a void need StatusMatchesLedger to know what the status says of the *)
(* columns, and NoOrphanedMoney keeps the rows on live receivables.        *)
(***************************************************************************)
EXTENDS BillingProperties, LedgerSumsProofs

IInv ==
    /\ TypeOK
    /\ LedgerMatchesRows
    /\ LedgerWithinBounds
    /\ StatusMatchesLedger
    /\ NoOrphanedMoney

(***************************************************************************)
(* The proofs never use that the party of a new invoice is active, which   *)
(* the code reads without a lock.  So they are about steps that do without *)
(* it, and hold of requests that run at once too (TransactionProofs).      *)
(***************************************************************************)
create_for_any_party(i, type, party, o, total, fy) ==
    /\ i \notin DOMAIN invoices
    /\ party \in required_party_type(type)
    /\ original_matches(type, party, o)
    /\ type = "credit_note" => credit_note_accepted(o, total)
    /\ get_next_invoice_number(fy, type)
    /\ invoices' = Insert(invoices, i,
         [invoice_type |-> type, party |-> party, original |-> o,
          total_amount |-> total, paid_amount |-> 0, credited_amount |-> 0,
          refunded_amount |-> 0, invoice_status |-> "draft",
          financial_year |-> fy, number |-> next_number(fy, type)])
    /\ UNCHANGED <<payments, refunds, active>>

CreateForAnyParty ==
    \E i \in InvoiceIds, type \in InvoiceTypes, party \in Parties,
       o \in InvoiceIds \cup {NoInvoice}, total \in Totals, fy \in FinancialYears :
        create_for_any_party(i, type, party, o, total, fy)

NextForAnyParty ==
    \/ CreateForAnyParty
    \/ SendInvoice
    \/ VoidInvoice
    \/ RecordPayment
    \/ CancelPayment
    \/ RecordRefund
    \/ CancelRefund
    \/ SetPartyActive

LEMMA AnyParty == Next => NextForAnyParty
<1>1. CreateInvoice => CreateForAnyParty
  BY DEF CreateInvoice, create_invoice, create_invoice_accepted, CreateForAnyParty,
         create_for_any_party
<1> QED BY <1>1 DEF Next, NextForAnyParty

-----------------------------------------------------------------------------
(* The rules of the ledger, over the integers. *)

\* A payment within the outstanding amount keeps the ledger possible and
\* never takes the cash beyond the total.
LEMMA PaymentFits ==
    ASSUME NEW total \in Nat, NEW paid \in Nat, NEW credited \in Nat,
           NEW refunded \in Nat, NEW amount \in Nat,
           paid <= total, credited <= total, refunded <= paid, refunded <= credited,
           amount > 0,
           amount <= larger(balance(total, paid, credited, refunded), 0)
    PROVE  /\ apply_payment(total, paid, credited, refunded, amount).ok
           /\ paid + amount <= total
BY DEF apply_payment, compute_ledger_position, components_possible,
       validate_payment_does_not_exceed_outstanding, balance, larger

\* A refund the rules accept is covered by the credits and by the cash.
LEMMA RefundFits ==
    ASSUME NEW total \in Nat, NEW paid \in Nat, NEW credited \in Nat,
           NEW refunded \in Nat, NEW amount \in Nat,
           paid <= total, credited <= total, refunded <= paid, refunded <= credited,
           apply_refund(total, paid, credited, refunded, amount).ok = TRUE
    PROVE  /\ amount > 0
           /\ refunded + amount <= paid
           /\ refunded + amount <= credited
           /\ paid > 0 /\ credited > 0
BY DEF apply_refund, compute_ledger_position, components_possible, balance, larger

\* The status is one of the three live ones, and "sent" means no money at all.
LEMMA StatusOfLedger ==
    ASSUME NEW total \in Nat, NEW paid \in Nat, NEW credited \in Nat, NEW refunded \in Nat
    PROVE  /\ ledger_status(total, paid, credited, refunded) \in {"sent", "partial", "paid"}
           /\ (/\ ledger_status(total, paid, credited, refunded) = "sent"
               /\ refunded <= credited) =>
                   paid = 0 /\ credited = 0 /\ refunded = 0
           /\ ledger_status(total, 0, 0, 0) = "sent"
BY DEF ledger_status, balance

-----------------------------------------------------------------------------
(* The tables. *)

\* What update_ledger_state does to the invoices table.
LEMMA LedgerStateUpdated ==
    ASSUME invoices \in [DOMAIN invoices -> InvoiceRow], NEW i \in DOMAIN invoices,
           NEW position,
           position.paid_amount \in Nat, position.credited_amount \in Nat,
           position.refunded_amount \in Nat, position.status \in InvoiceStatuses
    PROVE  LET new == update_ledger_state(i, position)
           IN  /\ DOMAIN new = DOMAIN invoices
               /\ new \in [DOMAIN invoices -> InvoiceRow]
               /\ \A j \in DOMAIN invoices \ {i} : new[j] = invoices[j]
               /\ new[i].paid_amount = position.paid_amount
               /\ new[i].credited_amount = position.credited_amount
               /\ new[i].refunded_amount = position.refunded_amount
               /\ new[i].invoice_status = position.status
               /\ new[i].invoice_type = invoices[i].invoice_type
               /\ new[i].original = invoices[i].original
               /\ new[i].party = invoices[i].party
               /\ new[i].total_amount = invoices[i].total_amount
               /\ new[i].financial_year = invoices[i].financial_year
               /\ new[i].number = invoices[i].number
<1> DEFINE row == posted(invoices[i], position)
<1>1. invoices[i] \in InvoiceRow
  OBVIOUS
<1>2. /\ row \in InvoiceRow
      /\ row.paid_amount = position.paid_amount
      /\ row.credited_amount = position.credited_amount
      /\ row.refunded_amount = position.refunded_amount
      /\ row.invoice_status = position.status
      /\ row.invoice_type = invoices[i].invoice_type
      /\ row.original = invoices[i].original
      /\ row.party = invoices[i].party
      /\ row.total_amount = invoices[i].total_amount
      /\ row.financial_year = invoices[i].financial_year
      /\ row.number = invoices[i].number
  BY <1>1 DEF posted, InvoiceRow
<1> HIDE DEF row
<1>3. update_ledger_state(i, position) = [invoices EXCEPT ![i] = row]
  BY DEF update_ledger_state, row
<1> QED BY <1>2, <1>3

\* What has been credited depends on the credit notes alone.
LEMMA CreditedSame ==
    ASSUME NEW old, NEW new, DOMAIN old \subseteq DOMAIN new,
           \A c \in DOMAIN new \ DOMAIN old : new[c].invoice_status = "draft",
           \A c \in DOMAIN old :
               /\ new[c].invoice_type = old[c].invoice_type
               /\ new[c].original = old[c].original
               /\ new[c].total_amount = old[c].total_amount
               /\ new[c].invoice_type = "credit_note" =>
                      new[c].invoice_status = old[c].invoice_status
    PROVE  \A o : get_total_credited(new, o) = get_total_credited(old, o)
<1> TAKE o
<1> DEFINE sent == {"sent", "partial", "paid"}
<1>1. notes_against(new, o, sent) = notes_against(old, o, sent)
  BY DEF notes_against
<1>2. \A c \in notes_against(old, o, sent) : totals(new)[c] = totals(old)[c]
  BY DEF notes_against, totals
<1>3. Sum(notes_against(old, o, sent), totals(new))
        = Sum(notes_against(old, o, sent), totals(old))
  BY <1>2, SumSame
<1> QED BY <1>1, <1>3 DEF get_total_credited

\* The sum of the active rows of an invoice after a row is inserted.
LEMMA RowAdded ==
    ASSUME NEW table, IsFiniteSet(DOMAIN table),
           \A y \in DOMAIN table : table[y].amount \in Nat,
           NEW x, x \notin DOMAIN table, NEW row, row.status = "active", row.amount \in Nat
    PROVE  \A j : LET new == Insert(table, x, row)
                  IN  Sum(active_rows(new, j), amounts(new))
                        = Sum(active_rows(table, j), amounts(table))
                            + (IF j = row.invoice THEN row.amount ELSE 0)
<1> TAKE j
<1> DEFINE new == Insert(table, x, row)
           S == active_rows(table, j)
           f == [y \in S \cup {x} |-> amounts(new)[y]]
<1>1. /\ IsFiniteSet(S) /\ x \notin S
  BY FS_Subset DEF active_rows
<1>2. \A y \in S : amounts(new)[y] = amounts(table)[y]
  BY DEF active_rows, amounts, Insert
<1>3. Sum(S, amounts(new)) = Sum(S, amounts(table))
  BY <1>2, SumSame
<1>4. Sum(S, amounts(table)) \in Nat
  <2> DEFINE g == [y \in S |-> amounts(table)[y]]
  <2>1. g \in [S -> Nat]
    BY DEF active_rows, amounts
  <2>2. Sum(S, g) = Sum(S, amounts(table))
    BY SumSame
  <2> HIDE DEF g
  <2> QED BY <1>1, <2>1, <2>2, SumType
<1>5. CASE j = row.invoice
  <2>1. active_rows(new, j) = S \cup {x}
    BY <1>5 DEF active_rows, Insert
  <2>2. f \in [S \cup {x} -> Nat] /\ f[x] = row.amount
    BY DEF active_rows, amounts, Insert
  <2>3. Sum(S \cup {x}, f) = Sum(S, f) + f[x]
    <3> HIDE DEF f, S
    <3> QED BY <1>1, <2>2, SumAdd
  <2>4. Sum(S \cup {x}, f) = Sum(S \cup {x}, amounts(new)) /\ Sum(S, f) = Sum(S, amounts(new))
    BY SumSame
  <2> HIDE DEF f, S, new
  <2> QED BY <1>3, <1>5, <2>1, <2>2, <2>3, <2>4 DEF new, S
<1>6. CASE j # row.invoice
  <2>1. active_rows(new, j) = S
    BY <1>6 DEF active_rows, Insert
  <2> HIDE DEF S, new
  <2> QED BY <1>3, <1>4, <1>6, <2>1 DEF new, S
<1> QED BY <1>5, <1>6

\* The sum of the active rows of an invoice after a row is cancelled.
LEMMA RowCancelled ==
    ASSUME NEW table, NEW new, IsFiniteSet(DOMAIN table), DOMAIN new = DOMAIN table,
           NEW x \in DOMAIN table, table[x].status = "active", new[x].status # "active",
           \A y \in DOMAIN table :
               /\ table[y].amount \in Nat
               /\ new[y].amount = table[y].amount
               /\ new[y].invoice = table[y].invoice
               /\ y # x => new[y].status = table[y].status
    PROVE  \A j : Sum(active_rows(new, j), amounts(new))
                     = Sum(active_rows(table, j), amounts(table))
                         - (IF j = table[x].invoice THEN table[x].amount ELSE 0)
<1> TAKE j
<1> DEFINE S == active_rows(table, j)
           f == [y \in S |-> amounts(table)[y]]
<1>1. IsFiniteSet(S) /\ f \in [S -> Nat]
  BY FS_Subset DEF active_rows, amounts
<1>2. Sum(S, f) = Sum(S, amounts(table)) /\ Sum(S, f) \in Nat
  <2>1. Sum(S, f) = Sum(S, amounts(table))
    BY SumSame
  <2> HIDE DEF f, S
  <2> QED BY <1>1, <2>1, SumType
<1>3. CASE j = table[x].invoice
  <2>1. active_rows(new, j) = S \ {x} /\ x \in S /\ f[x] = table[x].amount
    BY <1>3 DEF active_rows, amounts
  <2>2. Sum(S \ {x}, amounts(new)) = Sum(S \ {x}, f)
    <3>1. \A y \in S \ {x} : amounts(new)[y] = f[y]
      BY DEF active_rows, amounts
    <3> HIDE DEF f, S
    <3> QED BY <3>1, SumSame
  <2>3. Sum(S \ {x}, f) = Sum(S, f) - f[x]
    <3> HIDE DEF f, S
    <3> QED BY <1>1, <2>1, SumRemove
  <2> HIDE DEF f, S
  <2> QED BY <1>2, <1>3, <2>1, <2>2, <2>3 DEF S
<1>4. CASE j # table[x].invoice
  <2>1. active_rows(new, j) = S
    BY <1>4 DEF active_rows
  <2>2. Sum(S, amounts(new)) = Sum(S, amounts(table))
    <3>1. \A y \in S : amounts(new)[y] = amounts(table)[y]
      BY DEF active_rows, amounts
    <3> HIDE DEF S
    <3> QED BY <3>1, SumSame
  <2> HIDE DEF f, S
  <2> QED BY <1>2, <1>4, <2>1, <2>2 DEF S
<1> QED BY <1>3, <1>4

(***************************************************************************)
(* A move of the ledger of one live receivable to any possible position    *)
(* keeps the row invariants, and nothing but that row changes.             *)
(***************************************************************************)
LEMMA LedgerMove ==
    ASSUME TypeOK, LedgerWithinBounds, StatusMatchesLedger,
           NEW i \in DOMAIN invoices, bears_money(invoices[i]),
           NEW paid \in Nat, NEW credited \in Nat, NEW refunded \in Nat,
           paid <= invoices[i].total_amount, credited <= invoices[i].total_amount,
           refunded <= paid, refunded <= credited,
           NEW position,
           position.paid_amount = paid, position.credited_amount = credited,
           position.refunded_amount = refunded,
           position.status = ledger_status(invoices[i].total_amount, paid, credited, refunded)
    PROVE  LET new == update_ledger_state(i, position)
           IN  /\ DOMAIN new = DOMAIN invoices
               /\ new \in [DOMAIN invoices -> InvoiceRow]
               /\ \A j \in DOMAIN invoices \ {i} : new[j] = invoices[j]
               /\ new[i].paid_amount = paid
               /\ new[i].credited_amount = credited
               /\ new[i].refunded_amount = refunded
               /\ \A j \in DOMAIN invoices :
                     /\ within_bounds(new[j])
                     /\ status_matches(new[j])
                     /\ new[j].invoice_type = invoices[j].invoice_type
                     /\ new[j].original = invoices[j].original
                     /\ new[j].total_amount = invoices[j].total_amount
                     /\ live(new[j]) <=> live(invoices[j])
                     /\ new[j].invoice_type = "credit_note" =>
                            new[j].invoice_status = invoices[j].invoice_status
<1> DEFINE new == update_ledger_state(i, position)
           total == invoices[i].total_amount
<1>1. invoices \in [DOMAIN invoices -> InvoiceRow] /\ invoices[i] \in InvoiceRow
  BY DEF TypeOK
<1>2. total \in Nat
  BY <1>1 DEF InvoiceRow
<1>3. position.status \in {"sent", "partial", "paid"}
  BY <1>2, StatusOfLedger
<1>4. /\ DOMAIN new = DOMAIN invoices
      /\ new \in [DOMAIN invoices -> InvoiceRow]
      /\ \A j \in DOMAIN invoices \ {i} : new[j] = invoices[j]
      /\ new[i].paid_amount = paid
      /\ new[i].credited_amount = credited
      /\ new[i].refunded_amount = refunded
      /\ new[i].invoice_status = position.status
      /\ new[i].invoice_type = invoices[i].invoice_type
      /\ new[i].original = invoices[i].original
      /\ new[i].total_amount = total
  BY <1>1, <1>3, LedgerStateUpdated DEF InvoiceStatuses
<1> HIDE DEF new
<1>5. within_bounds(new[i]) /\ status_matches(new[i]) /\ live(new[i])
  BY <1>3, <1>4 DEF within_bounds, status_matches, live, bears_money, receivable
<1>6. \A j \in DOMAIN invoices \ {i} : within_bounds(new[j]) /\ status_matches(new[j])
  BY <1>4 DEF LedgerWithinBounds, StatusMatchesLedger
<1>7. live(invoices[i]) /\ receivable(invoices[i])
  BY DEF bears_money
<1>8. \A j \in DOMAIN invoices :
         /\ new[j].invoice_type = invoices[j].invoice_type
         /\ new[j].original = invoices[j].original
         /\ new[j].total_amount = invoices[j].total_amount
         /\ live(new[j]) <=> live(invoices[j])
         /\ new[j].invoice_type = "credit_note" =>
                new[j].invoice_status = invoices[j].invoice_status
  BY <1>4, <1>5, <1>7 DEF receivable
<1> QED BY <1>4, <1>5, <1>6, <1>8 DEF new

(***************************************************************************)
(* The same move as a step: what of the invariant follows from the         *)
(* invoices table alone.                                                   *)
(***************************************************************************)
LEMMA LedgerStep ==
    ASSUME IInv,
           NEW i \in DOMAIN invoices, bears_money(invoices[i]),
           NEW paid \in Nat, NEW credited \in Nat, NEW refunded \in Nat,
           paid <= invoices[i].total_amount, credited <= invoices[i].total_amount,
           refunded <= paid, refunded <= credited,
           NEW position,
           position.paid_amount = paid, position.credited_amount = credited,
           position.refunded_amount = refunded,
           position.status = ledger_status(invoices[i].total_amount, paid, credited, refunded),
           invoices' = update_ledger_state(i, position)
    PROVE  /\ LedgerWithinBounds'
           /\ StatusMatchesLedger'
           /\ DOMAIN invoices' = DOMAIN invoices
           /\ invoices' \in [DOMAIN invoices -> InvoiceRow]
           /\ \A j \in DOMAIN invoices \ {i} : invoices'[j] = invoices[j]
           /\ invoices'[i].paid_amount = paid
           /\ invoices'[i].credited_amount = credited
           /\ invoices'[i].refunded_amount = refunded
           /\ \A j \in DOMAIN invoices :
                 /\ invoices'[j].invoice_type = invoices[j].invoice_type
                 /\ invoices'[j].original = invoices[j].original
                 /\ invoices'[j].total_amount = invoices[j].total_amount
                 /\ live(invoices'[j]) <=> live(invoices[j])
                 /\ ~receivable(invoices[j]) =>
                        invoices'[j].invoice_status = invoices[j].invoice_status
           /\ \A o : get_total_credited(invoices', o) = get_total_credited(invoices, o)
           /\ \A j \in DOMAIN invoices : bears_money(invoices'[j]) <=> bears_money(invoices[j])
           /\ sent_notes_live'
<1>1. TypeOK /\ LedgerWithinBounds /\ StatusMatchesLedger /\ sent_notes_live
  BY DEF IInv, NoOrphanedMoney
<1>2. /\ DOMAIN invoices' = DOMAIN invoices
      /\ invoices' \in [DOMAIN invoices -> InvoiceRow]
      /\ \A j \in DOMAIN invoices \ {i} : invoices'[j] = invoices[j]
      /\ invoices'[i].paid_amount = paid
      /\ invoices'[i].credited_amount = credited
      /\ invoices'[i].refunded_amount = refunded
      /\ \A j \in DOMAIN invoices :
            /\ within_bounds(invoices'[j])
            /\ status_matches(invoices'[j])
            /\ invoices'[j].invoice_type = invoices[j].invoice_type
            /\ invoices'[j].original = invoices[j].original
            /\ invoices'[j].total_amount = invoices[j].total_amount
            /\ live(invoices'[j]) <=> live(invoices[j])
            /\ invoices'[j].invoice_type = "credit_note" =>
                   invoices'[j].invoice_status = invoices[j].invoice_status
  BY <1>1, LedgerMove
<1>3. \A o : get_total_credited(invoices', o) = get_total_credited(invoices, o)
  BY <1>2, CreditedSame
<1>4. LedgerWithinBounds' /\ StatusMatchesLedger'
  BY <1>2 DEF LedgerWithinBounds, StatusMatchesLedger
<1>5. \A j \in DOMAIN invoices : bears_money(invoices'[j]) <=> bears_money(invoices[j])
  BY <1>2 DEF bears_money, receivable
<1>6. sent_notes_live'
  BY <1>1, <1>2 DEF sent_notes_live, TypeOK, receivable, Notes
<1> QED BY <1>2, <1>3, <1>4, <1>5, <1>6 DEF receivable

\* The columns of an invoice, typed and within bounds.
LEMMA Columns ==
    ASSUME TypeOK, LedgerWithinBounds, NEW i \in DOMAIN invoices
    PROVE  /\ invoices[i].total_amount \in Nat
           /\ invoices[i].paid_amount \in Nat
           /\ invoices[i].credited_amount \in Nat
           /\ invoices[i].refunded_amount \in Nat
           /\ invoices[i].paid_amount <= invoices[i].total_amount
           /\ invoices[i].credited_amount <= invoices[i].total_amount
           /\ invoices[i].refunded_amount <= invoices[i].paid_amount
           /\ invoices[i].refunded_amount <= invoices[i].credited_amount
BY DEF TypeOK, InvoiceRow, LedgerWithinBounds, within_bounds

\* A counter advances to a natural.
LEMMA CounterAdvances ==
    ASSUME TypeOK, NEW fy \in FinancialYears, NEW type \in DocumentTypes,
           get_next_invoice_number(fy, type)
    PROVE  /\ sequences' \in [FinancialYears \X DocumentTypes -> Nat]
           /\ next_number(fy, type) \in Nat \ {0}
BY DEF TypeOK, get_next_invoice_number, next_number

\* What has been credited against each invoice after a credit note is sent.
LEMMA NoteSent ==
    ASSUME NEW old, NEW new, IsFiniteSet(DOMAIN old), DOMAIN new = DOMAIN old,
           NEW c \in DOMAIN old, old[c].invoice_type = "credit_note",
           old[c].invoice_status = "draft", new[c].invoice_status = "sent",
           \A d \in DOMAIN old :
               /\ old[d].total_amount \in Nat
               /\ new[d].invoice_type = old[d].invoice_type
               /\ new[d].original = old[d].original
               /\ new[d].total_amount = old[d].total_amount
               /\ (d # c /\ old[d].invoice_type = "credit_note") =>
                      new[d].invoice_status = old[d].invoice_status
    PROVE  \A j : get_total_credited(new, j)
                     = get_total_credited(old, j)
                         + (IF j = old[c].original THEN old[c].total_amount ELSE 0)
<1> TAKE j
<1> DEFINE sent == {"sent", "partial", "paid"}
           S == notes_against(old, j, sent)
           f == [d \in S \cup {c} |-> totals(old)[d]]
<1>1. IsFiniteSet(S) /\ c \notin S
  BY FS_Subset DEF notes_against
<1>2. f \in [S \cup {c} -> Nat] /\ f[c] = old[c].total_amount
  BY DEF notes_against, totals
<1>3. \A d \in S \cup {c} : totals(new)[d] = f[d] /\ totals(old)[d] = f[d]
  BY DEF notes_against, totals
<1>4. Sum(S, f) = Sum(S, totals(old)) /\ Sum(S, f) = Sum(S, totals(new))
  <2> HIDE DEF f, S
  <2> QED BY <1>3, SumSame
<1>5. Sum(S, f) \in Nat
  <2> DEFINE g == [d \in S |-> f[d]]
  <2>1. g \in [S -> Nat]
    BY <1>2
  <2>2. Sum(S, g) = Sum(S, f)
    BY SumSame
  <2> HIDE DEF g, S, f
  <2> QED BY <1>1, <2>1, <2>2, SumType
<1>6. CASE j = old[c].original
  <2>1. notes_against(new, j, sent) = S \cup {c}
    BY <1>6 DEF notes_against
  <2> HIDE DEF f, S
  <2>2. Sum(S \cup {c}, f) = Sum(S, f) + f[c]
    BY <1>1, <1>2, SumAdd
  <2>3. Sum(S \cup {c}, f) = Sum(S \cup {c}, totals(new))
    BY <1>3, SumSame
  <2> QED BY <1>2, <1>4, <1>6, <2>1, <2>2, <2>3 DEF get_total_credited, S
<1>7. CASE j # old[c].original
  <2>1. notes_against(new, j, sent) = S
    BY <1>7 DEF notes_against
  <2> HIDE DEF f
  <2> QED BY <1>4, <1>5, <1>7, <2>1 DEF get_total_credited
<1> QED BY <1>6, <1>7

\* An invoice whose columns are all zero has no active row and no sent note.
LEMMA NothingOnIt ==
    ASSUME IInv, NEW i \in DOMAIN invoices,
           invoices[i].paid_amount = 0, invoices[i].credited_amount = 0,
           invoices[i].refunded_amount = 0
    PROVE  /\ active_rows(payments, i) = {}
           /\ active_rows(refunds, i) = {}
           /\ \A c \in DOMAIN invoices :
                 (~receivable(invoices[c]) /\ invoices[c].invoice_status = "sent") =>
                     invoices[c].original # i
<1>1. TypeOK /\ LedgerMatchesRows /\ sent_notes_live
  BY DEF IInv, NoOrphanedMoney
<1>2. active_rows(payments, i) = {}
  <2> DEFINE S == active_rows(payments, i)
  <2>1. IsFiniteSet(S) /\ \A x \in S : amounts(payments)[x] \in Nat \ {0}
    BY <1>1, FS_Subset DEF TypeOK, PaymentRow, active_rows, amounts
  <2>2. Sum(S, amounts(payments)) = 0
    BY <1>1 DEF LedgerMatchesRows, get_total_paid_for_invoice
  <2> HIDE DEF S
  <2>3. \A x \in S : amounts(payments)[x] = 0
    BY <2>1, <2>2, SumZero
  <2> QED BY <2>1, <2>3 DEF S
<1>3. active_rows(refunds, i) = {}
  <2> DEFINE S == active_rows(refunds, i)
  <2>1. IsFiniteSet(S) /\ \A x \in S : amounts(refunds)[x] \in Nat \ {0}
    BY <1>1, FS_Subset DEF TypeOK, RefundRow, active_rows, amounts
  <2>2. Sum(S, amounts(refunds)) = 0
    BY <1>1 DEF LedgerMatchesRows, get_total_active_for_invoice
  <2> HIDE DEF S
  <2>3. \A x \in S : amounts(refunds)[x] = 0
    BY <2>1, <2>2, SumZero
  <2> QED BY <2>1, <2>3 DEF S
<1>4. ASSUME NEW c \in DOMAIN invoices, ~receivable(invoices[c]),
             invoices[c].invoice_status = "sent", invoices[c].original = i
      PROVE  FALSE
  <2> DEFINE S == notes_against(invoices, i, {"sent", "partial", "paid"})
  <2>1. IsFiniteSet(S) /\ \A x \in S : totals(invoices)[x] \in Nat
    BY <1>1, FS_Subset DEF TypeOK, InvoiceRow, notes_against, totals
  <2>2. Sum(S, totals(invoices)) = 0
    BY <1>1 DEF LedgerMatchesRows, get_total_credited
  <2>3. c \in S /\ totals(invoices)[c] > 0
    BY <1>1, <1>4 DEF receivable, notes_against, totals, sent_notes_live
  <2> HIDE DEF S
  <2>4. totals(invoices)[c] = 0
    BY <2>1, <2>2, <2>3, SumZero
  <2> QED BY <2>1, <2>3, <2>4
<1> QED BY <1>2, <1>3, <1>4

-----------------------------------------------------------------------------
(* Each action preserves the invariant. *)

LEMMA RecordPaymentInv ==
    ASSUME IInv, NEW p \in PaymentIds, NEW i \in InvoiceIds, NEW amount \in Amounts,
           NEW mode \in PaymentModes, NEW reference \in References \cup {NoReference},
           NEW confirm_duplicate \in BOOLEAN,
           record_payment(p, i, amount, mode, reference, confirm_duplicate)
    PROVE  IInv'
<1> DEFINE position == position_after_payment(i, amount)
           fy == invoices[i].financial_year
           row == [invoice |-> i, amount |-> amount, payment_mode |-> mode,
                   reference |-> reference, status |-> "active",
                   number |-> next_number(fy, "payment")]
           inv == invoices[i]
<1>1. TypeOK /\ LedgerMatchesRows /\ LedgerWithinBounds /\ StatusMatchesLedger
        /\ NoOrphanedMoney
  BY DEF IInv
<1>2. /\ p \notin DOMAIN payments
      /\ i \in DOMAIN invoices
      /\ inv.invoice_status \in {"sent", "partial"}
      /\ outstanding_amount(inv) > 0
      /\ amount > 0 /\ amount <= outstanding_amount(inv)
      /\ get_next_invoice_number(fy, "payment")
      /\ payments' = Insert(payments, p, row)
      /\ invoices' = update_ledger_state(i, position)
      /\ UNCHANGED <<refunds, active>>
  BY DEF record_payment, record_payment_accepted, validate_invoice_accepts_payment,
         PAYABLE_STATES, validate_payment_does_not_exceed_outstanding
<1>3. /\ amount \in Nat \ {0}
      /\ inv.total_amount \in Nat /\ inv.paid_amount \in Nat
      /\ inv.credited_amount \in Nat /\ inv.refunded_amount \in Nat
      /\ inv.paid_amount <= inv.total_amount /\ inv.credited_amount <= inv.total_amount
      /\ inv.refunded_amount <= inv.paid_amount
      /\ inv.refunded_amount <= inv.credited_amount
      /\ fy \in FinancialYears
  BY <1>1, <1>2, Columns, AmountsAssumption DEF TypeOK, InvoiceRow
<1>4. bears_money(inv) /\ amount <= larger(balance(inv.total_amount, inv.paid_amount,
                                 inv.credited_amount, inv.refunded_amount), 0)
  BY <1>2 DEF bears_money, live, receivable, outstanding_amount
<1>5. /\ position.paid_amount = inv.paid_amount + amount
      /\ position.credited_amount = inv.credited_amount
      /\ position.refunded_amount = inv.refunded_amount
      /\ position.status = ledger_status(inv.total_amount, inv.paid_amount + amount,
                                         inv.credited_amount, inv.refunded_amount)
  BY DEF position_after_payment, apply_payment, compute_ledger_position
<1> HIDE DEF position, inv, fy, row
<1>6. inv.paid_amount + amount <= inv.total_amount
  BY <1>3, <1>4, PaymentFits
<1>7. /\ inv.paid_amount + amount \in Nat
      /\ inv.refunded_amount <= inv.paid_amount + amount
  BY <1>3
<1>8. /\ LedgerWithinBounds' /\ StatusMatchesLedger'
      /\ DOMAIN invoices' = DOMAIN invoices
      /\ invoices' \in [DOMAIN invoices -> InvoiceRow]
      /\ \A j \in DOMAIN invoices \ {i} : invoices'[j] = invoices[j]
      /\ invoices'[i].paid_amount = inv.paid_amount + amount
      /\ invoices'[i].credited_amount = inv.credited_amount
      /\ invoices'[i].refunded_amount = inv.refunded_amount
      /\ \A j \in DOMAIN invoices :
            /\ invoices'[j].invoice_type = invoices[j].invoice_type
            /\ invoices'[j].original = invoices[j].original
            /\ invoices'[j].total_amount = invoices[j].total_amount
            /\ live(invoices'[j]) <=> live(invoices[j])
            /\ ~receivable(invoices[j]) =>
                   invoices'[j].invoice_status = invoices[j].invoice_status
      /\ \A o : get_total_credited(invoices', o) = get_total_credited(invoices, o)
      /\ \A j \in DOMAIN invoices : bears_money(invoices'[j]) <=> bears_money(invoices[j])
      /\ sent_notes_live'
  BY <1>2, <1>3, <1>4, <1>5, <1>6, <1>7, LedgerStep DEF inv
<1>9. TypeOK'
  <2>1. sequences' \in [FinancialYears \X DocumentTypes -> Nat]
          /\ next_number(fy, "payment") \in Nat \ {0}
    BY <1>1, <1>2, <1>3, CounterAdvances DEF DocumentTypes
  <2>2. row \in PaymentRow
    BY <1>3, <2>1 DEF row, PaymentRow
  <2>3. /\ DOMAIN payments' = DOMAIN payments \cup {p}
        /\ payments' \in [DOMAIN payments' -> PaymentRow]
        /\ \A q \in DOMAIN payments' : payments'[q].invoice \in DOMAIN invoices
    BY <1>1, <1>2, <2>2 DEF TypeOK, Insert, row
  <2>4. IsFiniteSet(DOMAIN payments')
    BY <1>1, <2>3, FS_AddElement DEF TypeOK
  <2> QED BY <1>1, <1>2, <1>8, <2>1, <2>3, <2>4 DEF TypeOK
<1>10. LedgerMatchesRows'
  <2>1. \A j : get_total_paid_for_invoice(payments', j)
               = get_total_paid_for_invoice(payments, j) + (IF j = i THEN amount ELSE 0)
    <3>1. /\ IsFiniteSet(DOMAIN payments)
          /\ \A y \in DOMAIN payments : payments[y].amount \in Nat
          /\ row.status = "active" /\ row.amount = amount /\ row.invoice = i
      BY <1>1 DEF TypeOK, PaymentRow, row
    <3> QED BY <1>2, <1>3, <3>1, RowAdded DEF get_total_paid_for_invoice
  <2>2. ASSUME NEW j \in DOMAIN invoices
        PROVE  /\ invoices'[j].paid_amount = get_total_paid_for_invoice(payments', j)
               /\ invoices'[j].credited_amount = get_total_credited(invoices', j)
               /\ invoices'[j].refunded_amount = get_total_active_for_invoice(refunds', j)
    <3>1. /\ invoices[j].paid_amount = get_total_paid_for_invoice(payments, j)
          /\ invoices[j].credited_amount = get_total_credited(invoices, j)
          /\ invoices[j].refunded_amount = get_total_active_for_invoice(refunds, j)
      BY <1>1 DEF LedgerMatchesRows
    <3>2. get_total_active_for_invoice(refunds', j) = get_total_active_for_invoice(refunds, j)
      BY <1>2
    <3>3. CASE j = i
      BY <1>8, <2>1, <3>1, <3>2, <3>3 DEF inv
    <3>4. CASE j # i
      <4>1. invoices[j].paid_amount \in Nat
        BY <1>1, Columns
      <4> QED BY <1>8, <2>1, <3>1, <3>2, <3>4, <4>1
    <3> QED BY <3>3, <3>4
  <2> QED BY <1>8, <2>2 DEF LedgerMatchesRows
<1>11. NoOrphanedMoney'
  <2>1. transfers_live(payments)'
    BY <1>1, <1>2, <1>4, <1>8 DEF NoOrphanedMoney, transfers_live, TypeOK, Insert, row, inv
  <2>2. transfers_live(refunds)'
    BY <1>1, <1>2, <1>8 DEF NoOrphanedMoney, transfers_live, TypeOK
  <2> QED BY <1>8, <2>1, <2>2 DEF NoOrphanedMoney
<1> QED BY <1>8, <1>9, <1>10, <1>11 DEF IInv

LEMMA CancelPaymentInv ==
    ASSUME IInv, NEW p \in PaymentIds, cancel_payment(p)
    PROVE  IInv'
<1> PICK i, amount : i = payments[p].invoice /\ amount = payments[p].amount
  OBVIOUS
<1> DEFINE inv == invoices[i]
           position == recomputed_position(i, payments', refunds)
<1>1. TypeOK /\ LedgerMatchesRows /\ LedgerWithinBounds /\ StatusMatchesLedger
        /\ NoOrphanedMoney
  BY DEF IInv
<1>2. /\ p \in DOMAIN payments /\ payments[p].status = "active"
      /\ payments' = soft_cancel_by_id(payments, p)
      /\ position.ok
      /\ invoices' = update_ledger_state(i, position)
      /\ UNCHANGED <<refunds, sequences, active>>
  BY DEF cancel_payment
<1>3. /\ i \in DOMAIN invoices /\ amount \in Nat \ {0}
      /\ bears_money(inv)
  BY <1>1, <1>2 DEF TypeOK, PaymentRow, NoOrphanedMoney, transfers_live
<1>4. /\ inv.total_amount \in Nat /\ inv.paid_amount \in Nat
      /\ inv.credited_amount \in Nat /\ inv.refunded_amount \in Nat
      /\ inv.paid_amount <= inv.total_amount /\ inv.credited_amount <= inv.total_amount
      /\ inv.refunded_amount <= inv.paid_amount
      /\ inv.refunded_amount <= inv.credited_amount
  BY <1>1, <1>3, Columns
<1>5. /\ DOMAIN payments' = DOMAIN payments
      /\ payments' \in [DOMAIN payments -> PaymentRow]
      /\ payments'[p].status # "active"
      /\ \A y \in DOMAIN payments :
            /\ payments'[y].amount = payments[y].amount
            /\ payments'[y].invoice = payments[y].invoice
            /\ y # p => payments'[y].status = payments[y].status
  BY <1>1, <1>2 DEF TypeOK, PaymentRow, soft_cancel_by_id
<1>6. \A j : get_total_paid_for_invoice(payments', j)
              = get_total_paid_for_invoice(payments, j) - (IF j = i THEN amount ELSE 0)
  <2>1. /\ IsFiniteSet(DOMAIN payments)
        /\ \A y \in DOMAIN payments : payments[y].amount \in Nat
    BY <1>1 DEF TypeOK, PaymentRow
  <2> QED BY <1>2, <1>5, <2>1, RowCancelled DEF get_total_paid_for_invoice
<1>7. /\ inv.paid_amount = get_total_paid_for_invoice(payments, i)
      /\ inv.credited_amount = get_total_credited(invoices, i)
      /\ inv.refunded_amount = get_total_active_for_invoice(refunds, i)
  BY <1>1, <1>3 DEF LedgerMatchesRows
<1>8. /\ position = compute_ledger_position(inv.total_amount,
                        get_total_paid_for_invoice(payments', i),
                        get_total_credited(invoices, i),
                        get_total_active_for_invoice(refunds, i))
  BY DEF recomputed_position
<1> HIDE DEF position, inv
<1>9. position = compute_ledger_position(inv.total_amount, inv.paid_amount - amount,
                                         inv.credited_amount, inv.refunded_amount)
  BY <1>6, <1>7, <1>8
<1>10. /\ position.paid_amount = inv.paid_amount - amount
       /\ position.credited_amount = inv.credited_amount
       /\ position.refunded_amount = inv.refunded_amount
       /\ position.status = ledger_status(inv.total_amount, inv.paid_amount - amount,
                                          inv.credited_amount, inv.refunded_amount)
       /\ inv.paid_amount - amount >= 0 /\ inv.refunded_amount >= 0
       /\ inv.refunded_amount <= inv.paid_amount - amount
  BY <1>2, <1>9 DEF compute_ledger_position, components_possible
<1>11. /\ inv.paid_amount - amount \in Nat
       /\ inv.credited_amount \in Nat /\ inv.refunded_amount \in Nat
       /\ inv.paid_amount - amount <= inv.total_amount /\ inv.credited_amount <= inv.total_amount
       /\ inv.refunded_amount <= inv.credited_amount
  BY <1>3, <1>4, <1>10
<1>12. /\ LedgerWithinBounds' /\ StatusMatchesLedger' /\ sent_notes_live'
       /\ DOMAIN invoices' = DOMAIN invoices
       /\ invoices' \in [DOMAIN invoices -> InvoiceRow]
       /\ \A j \in DOMAIN invoices \ {i} : invoices'[j] = invoices[j]
       /\ invoices'[i].paid_amount = inv.paid_amount - amount
       /\ invoices'[i].credited_amount = inv.credited_amount
       /\ invoices'[i].refunded_amount = inv.refunded_amount
       /\ \A j \in DOMAIN invoices :
             /\ invoices'[j].invoice_type = invoices[j].invoice_type
             /\ invoices'[j].original = invoices[j].original
             /\ bears_money(invoices'[j]) <=> bears_money(invoices[j])
       /\ \A o : get_total_credited(invoices', o) = get_total_credited(invoices, o)
  BY <1>2, <1>3, <1>10, <1>11, LedgerStep DEF inv
<1>13. TypeOK'
  <2>1. \A y \in DOMAIN payments' : payments'[y].invoice \in DOMAIN invoices
    BY <1>1, <1>5 DEF TypeOK
  <2> QED BY <1>1, <1>2, <1>5, <1>12, <2>1 DEF TypeOK
<1>14. LedgerMatchesRows'
  <2>1. ASSUME NEW j \in DOMAIN invoices
        PROVE  /\ invoices'[j].paid_amount = get_total_paid_for_invoice(payments', j)
               /\ invoices'[j].credited_amount = get_total_credited(invoices', j)
               /\ invoices'[j].refunded_amount = get_total_active_for_invoice(refunds', j)
    <3>1. /\ invoices[j].paid_amount = get_total_paid_for_invoice(payments, j)
          /\ invoices[j].credited_amount = get_total_credited(invoices, j)
          /\ invoices[j].refunded_amount = get_total_active_for_invoice(refunds, j)
      BY <1>1 DEF LedgerMatchesRows
    <3>2. get_total_active_for_invoice(refunds', j) = get_total_active_for_invoice(refunds, j)
      BY <1>2
    <3>3. CASE j = i
      BY <1>6, <1>7, <1>12, <3>1, <3>2, <3>3 DEF inv
    <3>4. CASE j # i
      <4>1. invoices[j].paid_amount \in Nat /\ invoices[j].refunded_amount \in Nat
        BY <1>1, Columns
      <4> QED BY <1>6, <1>12, <3>1, <3>2, <3>4, <4>1
    <3> QED BY <3>3, <3>4
  <2> QED BY <1>12, <2>1 DEF LedgerMatchesRows
<1>15. NoOrphanedMoney'
  <2>1. transfers_live(payments)'
    <3>1. ASSUME NEW y \in DOMAIN payments', payments'[y].status = "active"
          PROVE  bears_money(invoices'[payments'[y].invoice])
      <4>1. y \in DOMAIN payments /\ payments[y].status = "active"
              /\ payments'[y].invoice = payments[y].invoice
        BY <1>5, <3>1
      <4>2. payments[y].invoice \in DOMAIN invoices /\ bears_money(invoices[payments[y].invoice])
        BY <1>1, <4>1 DEF NoOrphanedMoney, transfers_live, TypeOK
      <4> QED BY <1>12, <4>1, <4>2
    <3> QED BY <3>1 DEF transfers_live
  <2>2. transfers_live(refunds)'
    BY <1>1, <1>2, <1>12 DEF NoOrphanedMoney, transfers_live, TypeOK
  <2> QED BY <1>12, <2>1, <2>2 DEF NoOrphanedMoney
<1> QED BY <1>12, <1>13, <1>14, <1>15 DEF IInv


LEMMA CancelRefundInv ==
    ASSUME IInv, NEW r \in RefundIds, cancel_refund(r)
    PROVE  IInv'
<1> PICK i, amount : i = refunds[r].invoice /\ amount = refunds[r].amount
  OBVIOUS
<1> DEFINE inv == invoices[i]
           position == recomputed_position(i, payments, refunds')
<1>1. TypeOK /\ LedgerMatchesRows /\ LedgerWithinBounds /\ StatusMatchesLedger
        /\ NoOrphanedMoney
  BY DEF IInv
<1>2. /\ r \in DOMAIN refunds /\ refunds[r].status = "active"
      /\ refunds' = soft_cancel_by_id(refunds, r)
      /\ position.ok
      /\ invoices' = update_ledger_state(i, position)
      /\ UNCHANGED <<payments, sequences, active>>
  BY DEF cancel_refund
<1>3. /\ i \in DOMAIN invoices /\ amount \in Nat \ {0}
      /\ bears_money(inv)
  BY <1>1, <1>2 DEF TypeOK, RefundRow, NoOrphanedMoney, transfers_live
<1>4. /\ inv.total_amount \in Nat /\ inv.paid_amount \in Nat
      /\ inv.credited_amount \in Nat /\ inv.refunded_amount \in Nat
      /\ inv.paid_amount <= inv.total_amount /\ inv.credited_amount <= inv.total_amount
      /\ inv.refunded_amount <= inv.paid_amount
      /\ inv.refunded_amount <= inv.credited_amount
  BY <1>1, <1>3, Columns
<1>5. /\ DOMAIN refunds' = DOMAIN refunds
      /\ refunds' \in [DOMAIN refunds -> RefundRow]
      /\ refunds'[r].status # "active"
      /\ \A y \in DOMAIN refunds :
            /\ refunds'[y].amount = refunds[y].amount
            /\ refunds'[y].invoice = refunds[y].invoice
            /\ y # r => refunds'[y].status = refunds[y].status
  BY <1>1, <1>2 DEF TypeOK, RefundRow, soft_cancel_by_id
<1>6. \A j : get_total_active_for_invoice(refunds', j)
              = get_total_active_for_invoice(refunds, j) - (IF j = i THEN amount ELSE 0)
  <2>1. /\ IsFiniteSet(DOMAIN refunds)
        /\ \A y \in DOMAIN refunds : refunds[y].amount \in Nat
    BY <1>1 DEF TypeOK, RefundRow
  <2> QED BY <1>2, <1>5, <2>1, RowCancelled DEF get_total_active_for_invoice
<1>7. /\ inv.paid_amount = get_total_paid_for_invoice(payments, i)
      /\ inv.credited_amount = get_total_credited(invoices, i)
      /\ inv.refunded_amount = get_total_active_for_invoice(refunds, i)
  BY <1>1, <1>3 DEF LedgerMatchesRows
<1>8. /\ position = compute_ledger_position(inv.total_amount,
                        get_total_paid_for_invoice(payments, i),
                        get_total_credited(invoices, i),
                        get_total_active_for_invoice(refunds', i))
  BY DEF recomputed_position
<1> HIDE DEF position, inv
<1>9. position = compute_ledger_position(inv.total_amount, inv.paid_amount,
                                         inv.credited_amount,
                                         inv.refunded_amount - amount)
  BY <1>6, <1>7, <1>8
<1>10. /\ position.paid_amount = inv.paid_amount /\ position.credited_amount = inv.credited_amount
       /\ position.refunded_amount = inv.refunded_amount - amount
       /\ position.status = ledger_status(inv.total_amount, inv.paid_amount,
                                          inv.credited_amount,
                                          inv.refunded_amount - amount)
       /\ inv.paid_amount >= 0 /\ inv.refunded_amount - amount >= 0
       /\ inv.refunded_amount - amount <= inv.paid_amount
  BY <1>2, <1>9 DEF compute_ledger_position, components_possible
<1>11. /\ inv.paid_amount \in Nat /\ inv.credited_amount \in Nat
       /\ inv.refunded_amount - amount \in Nat
       /\ inv.paid_amount <= inv.total_amount /\ inv.credited_amount <= inv.total_amount
       /\ inv.refunded_amount - amount <= inv.credited_amount
  BY <1>3, <1>4, <1>10
<1>12. /\ LedgerWithinBounds' /\ StatusMatchesLedger' /\ sent_notes_live'
       /\ DOMAIN invoices' = DOMAIN invoices
       /\ invoices' \in [DOMAIN invoices -> InvoiceRow]
       /\ \A j \in DOMAIN invoices \ {i} : invoices'[j] = invoices[j]
       /\ invoices'[i].paid_amount = inv.paid_amount
       /\ invoices'[i].credited_amount = inv.credited_amount
       /\ invoices'[i].refunded_amount = inv.refunded_amount - amount
       /\ \A j \in DOMAIN invoices :
             /\ invoices'[j].invoice_type = invoices[j].invoice_type
             /\ invoices'[j].original = invoices[j].original
             /\ bears_money(invoices'[j]) <=> bears_money(invoices[j])
       /\ \A o : get_total_credited(invoices', o) = get_total_credited(invoices, o)
  BY <1>2, <1>3, <1>10, <1>11, LedgerStep DEF inv
<1>13. TypeOK'
  <2>1. \A y \in DOMAIN refunds' : refunds'[y].invoice \in DOMAIN invoices
    BY <1>1, <1>5 DEF TypeOK
  <2> QED BY <1>1, <1>2, <1>5, <1>12, <2>1 DEF TypeOK
<1>14. LedgerMatchesRows'
  <2>1. ASSUME NEW j \in DOMAIN invoices
        PROVE  /\ invoices'[j].paid_amount = get_total_paid_for_invoice(payments', j)
               /\ invoices'[j].credited_amount = get_total_credited(invoices', j)
               /\ invoices'[j].refunded_amount = get_total_active_for_invoice(refunds', j)
    <3>1. /\ invoices[j].paid_amount = get_total_paid_for_invoice(payments, j)
          /\ invoices[j].credited_amount = get_total_credited(invoices, j)
          /\ invoices[j].refunded_amount = get_total_active_for_invoice(refunds, j)
      BY <1>1 DEF LedgerMatchesRows
    <3>2. get_total_paid_for_invoice(payments', j) = get_total_paid_for_invoice(payments, j)
      BY <1>2
    <3>3. CASE j = i
      BY <1>6, <1>7, <1>12, <3>1, <3>2, <3>3 DEF inv
    <3>4. CASE j # i
      <4>1. invoices[j].paid_amount \in Nat /\ invoices[j].refunded_amount \in Nat
        BY <1>1, Columns
      <4> QED BY <1>6, <1>12, <3>1, <3>2, <3>4, <4>1
    <3> QED BY <3>3, <3>4
  <2> QED BY <1>12, <2>1 DEF LedgerMatchesRows
<1>15. NoOrphanedMoney'
  <2>1. transfers_live(refunds)'
    <3>1. ASSUME NEW y \in DOMAIN refunds', refunds'[y].status = "active"
          PROVE  bears_money(invoices'[refunds'[y].invoice])
      <4>1. y \in DOMAIN refunds /\ refunds[y].status = "active"
              /\ refunds'[y].invoice = refunds[y].invoice
        BY <1>5, <3>1
      <4>2. refunds[y].invoice \in DOMAIN invoices /\ bears_money(invoices[refunds[y].invoice])
        BY <1>1, <4>1 DEF NoOrphanedMoney, transfers_live, TypeOK
      <4> QED BY <1>12, <4>1, <4>2
    <3> QED BY <3>1 DEF transfers_live
  <2>2. transfers_live(payments)'
    BY <1>1, <1>2, <1>12 DEF NoOrphanedMoney, transfers_live, TypeOK
  <2> QED BY <1>12, <2>1, <2>2 DEF NoOrphanedMoney
<1> QED BY <1>12, <1>13, <1>14, <1>15 DEF IInv

LEMMA RecordRefundInv ==
    ASSUME IInv, NEW r \in RefundIds, NEW i \in InvoiceIds, NEW amount \in Amounts,
           NEW reference \in References \cup {NoReference},
           record_refund(r, i, amount, reference)
    PROVE  IInv'
<1> DEFINE position == position_after_refund(i, amount)
           fy == invoices[i].financial_year
           row == [invoice |-> i, amount |-> amount, reference |-> reference,
                   status |-> "active", number |-> next_number(fy, "refund")]
           inv == invoices[i]
<1>1. TypeOK /\ LedgerMatchesRows /\ LedgerWithinBounds /\ StatusMatchesLedger
        /\ NoOrphanedMoney
  BY DEF IInv
<1>2. /\ r \notin DOMAIN refunds
      /\ i \in DOMAIN invoices
      /\ position.ok
      /\ get_next_invoice_number(fy, "refund")
      /\ refunds' = Insert(refunds, r, row)
      /\ invoices' = update_ledger_state(i, position)
      /\ UNCHANGED <<payments, active>>
  BY DEF record_refund
<1>3. /\ amount \in Nat \ {0}
      /\ inv.total_amount \in Nat /\ inv.paid_amount \in Nat
      /\ inv.credited_amount \in Nat /\ inv.refunded_amount \in Nat
      /\ inv.paid_amount <= inv.total_amount /\ inv.credited_amount <= inv.total_amount
      /\ inv.refunded_amount <= inv.paid_amount
      /\ inv.refunded_amount <= inv.credited_amount
      /\ fy \in FinancialYears
  BY <1>1, <1>2, Columns, AmountsAssumption DEF TypeOK, InvoiceRow
<1>4. /\ apply_refund(inv.total_amount, inv.paid_amount, inv.credited_amount,
                      inv.refunded_amount, amount).ok = TRUE
      /\ position.paid_amount = inv.paid_amount
      /\ position.credited_amount = inv.credited_amount
      /\ position.refunded_amount = inv.refunded_amount + amount
      /\ position.status = ledger_status(inv.total_amount, inv.paid_amount,
                                         inv.credited_amount,
                                         inv.refunded_amount + amount)
  BY <1>2 DEF position_after_refund, apply_refund, compute_ledger_position
<1> HIDE DEF position, inv, fy, row
<1>5. /\ inv.refunded_amount + amount <= inv.paid_amount
      /\ inv.refunded_amount + amount <= inv.credited_amount
      /\ inv.paid_amount > 0
  <2>1. /\ amount \in Nat
        /\ apply_refund(inv.total_amount, inv.paid_amount, inv.credited_amount,
                        inv.refunded_amount, amount).ok = TRUE
    BY <1>3, <1>4
  <2> QED BY <1>3, <2>1, RefundFits
<1>6. bears_money(inv)
  BY <1>1, <1>2, <1>5 DEF StatusMatchesLedger, status_matches, bears_money, inv
<1>7. /\ inv.paid_amount \in Nat /\ inv.credited_amount \in Nat
      /\ inv.refunded_amount + amount \in Nat
      /\ inv.paid_amount <= inv.total_amount /\ inv.credited_amount <= inv.total_amount
  BY <1>3
<1>8. /\ LedgerWithinBounds' /\ StatusMatchesLedger' /\ sent_notes_live'
      /\ DOMAIN invoices' = DOMAIN invoices
      /\ invoices' \in [DOMAIN invoices -> InvoiceRow]
      /\ \A j \in DOMAIN invoices \ {i} : invoices'[j] = invoices[j]
      /\ invoices'[i].paid_amount = inv.paid_amount
      /\ invoices'[i].credited_amount = inv.credited_amount
      /\ invoices'[i].refunded_amount = inv.refunded_amount + amount
      /\ \A j \in DOMAIN invoices :
            /\ invoices'[j].invoice_type = invoices[j].invoice_type
            /\ invoices'[j].original = invoices[j].original
            /\ bears_money(invoices'[j]) <=> bears_money(invoices[j])
      /\ \A o : get_total_credited(invoices', o) = get_total_credited(invoices, o)
  BY <1>2, <1>4, <1>5, <1>6, <1>7, LedgerStep DEF inv
<1>9. TypeOK'
  <2>1. sequences' \in [FinancialYears \X DocumentTypes -> Nat]
          /\ next_number(fy, "refund") \in Nat \ {0}
    BY <1>1, <1>2, <1>3, CounterAdvances DEF DocumentTypes
  <2>2. row \in RefundRow
    BY <1>3, <2>1 DEF row, RefundRow
  <2>3. /\ DOMAIN refunds' = DOMAIN refunds \cup {r}
        /\ refunds' \in [DOMAIN refunds' -> RefundRow]
        /\ \A q \in DOMAIN refunds' : refunds'[q].invoice \in DOMAIN invoices
    BY <1>1, <1>2, <2>2 DEF TypeOK, Insert, row
  <2>4. IsFiniteSet(DOMAIN refunds')
    BY <1>1, <2>3, FS_AddElement DEF TypeOK
  <2> QED BY <1>1, <1>2, <1>8, <2>1, <2>3, <2>4 DEF TypeOK
<1>10. LedgerMatchesRows'
  <2>1. \A j : get_total_active_for_invoice(refunds', j)
               = get_total_active_for_invoice(refunds, j) + (IF j = i THEN amount ELSE 0)
    <3>1. /\ IsFiniteSet(DOMAIN refunds)
          /\ \A y \in DOMAIN refunds : refunds[y].amount \in Nat
          /\ row.status = "active" /\ row.amount = amount /\ row.invoice = i
      BY <1>1 DEF TypeOK, RefundRow, row
    <3> QED BY <1>2, <1>3, <3>1, RowAdded DEF get_total_active_for_invoice
  <2>2. ASSUME NEW j \in DOMAIN invoices
        PROVE  /\ invoices'[j].paid_amount = get_total_paid_for_invoice(payments', j)
               /\ invoices'[j].credited_amount = get_total_credited(invoices', j)
               /\ invoices'[j].refunded_amount = get_total_active_for_invoice(refunds', j)
    <3>1. /\ invoices[j].paid_amount = get_total_paid_for_invoice(payments, j)
          /\ invoices[j].credited_amount = get_total_credited(invoices, j)
          /\ invoices[j].refunded_amount = get_total_active_for_invoice(refunds, j)
      BY <1>1 DEF LedgerMatchesRows
    <3>2. get_total_paid_for_invoice(payments', j) = get_total_paid_for_invoice(payments, j)
      BY <1>2
    <3>3. CASE j = i
      BY <1>8, <2>1, <3>1, <3>2, <3>3 DEF inv
    <3>4. CASE j # i
      <4>1. invoices[j].refunded_amount \in Nat
        BY <1>1, Columns
      <4> QED BY <1>8, <2>1, <3>1, <3>2, <3>4, <4>1
    <3> QED BY <3>3, <3>4
  <2> QED BY <1>8, <2>2 DEF LedgerMatchesRows
<1>11. NoOrphanedMoney'
  <2>1. transfers_live(refunds)'
    BY <1>1, <1>2, <1>6, <1>8 DEF NoOrphanedMoney, transfers_live, TypeOK, Insert, row, inv
  <2>2. transfers_live(payments)'
    BY <1>1, <1>2, <1>8 DEF NoOrphanedMoney, transfers_live, TypeOK
  <2> QED BY <1>8, <2>1, <2>2 DEF NoOrphanedMoney
<1> QED BY <1>8, <1>9, <1>10, <1>11 DEF IInv

LEMMA SendInvoiceInv ==
    ASSUME IInv, NEW i \in InvoiceIds, send_invoice(i)
    PROVE  IInv'
<1>1. TypeOK /\ LedgerMatchesRows /\ LedgerWithinBounds /\ StatusMatchesLedger
        /\ NoOrphanedMoney
  BY DEF IInv
<1>2. /\ i \in DOMAIN invoices /\ receivable(invoices[i])
      /\ invoices[i].invoice_status = "draft"
      /\ invoices' = [invoices EXCEPT ![i].invoice_status = "sent"]
      /\ UNCHANGED <<payments, refunds, sequences, active>>
  BY DEF send_invoice, validate_invoice_is_mutable, MUTABLE_STATES, submit
<1>3. invoices \in [DOMAIN invoices -> InvoiceRow] /\ invoices[i] \in InvoiceRow
  BY <1>1, <1>2 DEF TypeOK
<1>4. /\ DOMAIN invoices' = DOMAIN invoices
      /\ invoices' \in [DOMAIN invoices -> InvoiceRow]
      /\ \A j \in DOMAIN invoices \ {i} : invoices'[j] = invoices[j]
      /\ invoices'[i].invoice_status = "sent"
      /\ \A j \in DOMAIN invoices :
            /\ invoices'[j].invoice_type = invoices[j].invoice_type
            /\ invoices'[j].original = invoices[j].original
            /\ invoices'[j].total_amount = invoices[j].total_amount
            /\ invoices'[j].paid_amount = invoices[j].paid_amount
            /\ invoices'[j].credited_amount = invoices[j].credited_amount
            /\ invoices'[j].refunded_amount = invoices[j].refunded_amount
  BY <1>2, <1>3 DEF InvoiceRow, InvoiceStatuses
<1>5. /\ invoices[i].paid_amount = 0 /\ invoices[i].credited_amount = 0
      /\ invoices[i].refunded_amount = 0
      /\ invoices[i].total_amount \in Nat
      /\ ~live(invoices[i])
  BY <1>1, <1>2, <1>3 DEF StatusMatchesLedger, status_matches, live, InvoiceRow
<1>6. LedgerWithinBounds'
  BY <1>1, <1>4 DEF LedgerWithinBounds, within_bounds
<1>7. StatusMatchesLedger'
  <2>1. status_matches(invoices'[i])
    <3>1. ledger_status(invoices[i].total_amount, 0, 0, 0) = "sent"
      BY <1>5, StatusOfLedger
    <3>2. /\ invoices'[i].total_amount = invoices[i].total_amount
          /\ invoices'[i].paid_amount = 0 /\ invoices'[i].credited_amount = 0
          /\ invoices'[i].refunded_amount = 0
          /\ receivable(invoices'[i]) /\ live(invoices'[i])
          /\ invoices'[i].invoice_status = "sent"
      BY <1>2, <1>4, <1>5 DEF receivable, live
    <3> QED BY <3>1, <3>2 DEF status_matches
  <2> QED BY <1>1, <1>4, <2>1 DEF StatusMatchesLedger
<1>8. \A o : get_total_credited(invoices', o) = get_total_credited(invoices, o)
  <2>1. \A c \in DOMAIN invoices : invoices'[c].invoice_type = "credit_note" =>
           invoices'[c].invoice_status = invoices[c].invoice_status
    BY <1>2, <1>4 DEF receivable
  <2> QED BY <1>4, <2>1, CreditedSame
<1>9. TypeOK'
  BY <1>1, <1>2, <1>4 DEF TypeOK
<1>10. LedgerMatchesRows'
  <2>1. \A j : /\ get_total_paid_for_invoice(payments', j)
                     = get_total_paid_for_invoice(payments, j)
               /\ get_total_active_for_invoice(refunds', j)
                     = get_total_active_for_invoice(refunds, j)
    BY <1>2
  <2> QED BY <1>1, <1>4, <1>8, <2>1 DEF LedgerMatchesRows
<1>11. \A j \in DOMAIN invoices : bears_money(invoices[j]) => bears_money(invoices'[j])
  BY <1>4, <1>5 DEF bears_money
<1>12. transfers_live(payments)' /\ transfers_live(refunds)'
  BY <1>1, <1>2, <1>11 DEF NoOrphanedMoney, transfers_live, TypeOK
<1>13. sent_notes_live'
  <2>1. \A j \in DOMAIN invoices : live(invoices[j]) => live(invoices'[j])
    BY <1>4, <1>5
  <2> QED BY <1>1, <1>2, <1>4, <2>1
          DEF NoOrphanedMoney, sent_notes_live, TypeOK, receivable, Notes
<1> QED BY <1>6, <1>7, <1>9, <1>10, <1>12, <1>13 DEF IInv, NoOrphanedMoney

LEMMA VoidInvoiceInv ==
    ASSUME IInv, NEW i \in InvoiceIds, void_invoice(i)
    PROVE  IInv'
<1>1. TypeOK /\ LedgerMatchesRows /\ LedgerWithinBounds /\ StatusMatchesLedger
        /\ NoOrphanedMoney
  BY DEF IInv
<1>2. /\ i \in DOMAIN invoices /\ receivable(invoices[i])
      /\ invoices[i].invoice_status = "sent"
      /\ invoices' = [invoices EXCEPT ![i].invoice_status = "void"]
      /\ UNCHANGED <<payments, refunds, sequences, active>>
  BY DEF void_invoice, validate_invoice_is_voidable, VOIDABLE_STATES, receivable
<1>3. invoices \in [DOMAIN invoices -> InvoiceRow] /\ invoices[i] \in InvoiceRow
  BY <1>1, <1>2 DEF TypeOK
<1>4. /\ DOMAIN invoices' = DOMAIN invoices
      /\ invoices' \in [DOMAIN invoices -> InvoiceRow]
      /\ \A j \in DOMAIN invoices \ {i} : invoices'[j] = invoices[j]
      /\ invoices'[i].invoice_status = "void"
      /\ \A j \in DOMAIN invoices :
            /\ invoices'[j].invoice_type = invoices[j].invoice_type
            /\ invoices'[j].original = invoices[j].original
            /\ invoices'[j].total_amount = invoices[j].total_amount
            /\ invoices'[j].paid_amount = invoices[j].paid_amount
            /\ invoices'[j].credited_amount = invoices[j].credited_amount
            /\ invoices'[j].refunded_amount = invoices[j].refunded_amount
  BY <1>2, <1>3 DEF InvoiceRow, InvoiceStatuses
<1>5. /\ invoices[i].paid_amount = 0 /\ invoices[i].credited_amount = 0
      /\ invoices[i].refunded_amount = 0
  <2>1. ledger_status(invoices[i].total_amount, invoices[i].paid_amount,
                      invoices[i].credited_amount, invoices[i].refunded_amount) = "sent"
    BY <1>1, <1>2 DEF StatusMatchesLedger, status_matches, live
  <2> QED BY <1>1, <1>2, <2>1, Columns, StatusOfLedger
<1>6. LedgerWithinBounds'
  BY <1>1, <1>4 DEF LedgerWithinBounds, within_bounds
<1>7. StatusMatchesLedger'
  <2>1. status_matches(invoices'[i])
    BY <1>2, <1>4, <1>5 DEF status_matches, receivable, live
  <2> QED BY <1>1, <1>4, <2>1 DEF StatusMatchesLedger
<1>8. \A o : get_total_credited(invoices', o) = get_total_credited(invoices, o)
  <2>1. \A c \in DOMAIN invoices : invoices'[c].invoice_type = "credit_note" =>
           invoices'[c].invoice_status = invoices[c].invoice_status
    BY <1>2, <1>4 DEF receivable
  <2> QED BY <1>4, <2>1, CreditedSame
<1>9. TypeOK'
  BY <1>1, <1>2, <1>4 DEF TypeOK
<1>10. LedgerMatchesRows'
  <2>1. \A j : /\ get_total_paid_for_invoice(payments', j)
                     = get_total_paid_for_invoice(payments, j)
               /\ get_total_active_for_invoice(refunds', j)
                     = get_total_active_for_invoice(refunds, j)
    BY <1>2
  <2> QED BY <1>1, <1>4, <1>8, <2>1 DEF LedgerMatchesRows
<1>11. /\ active_rows(payments, i) = {} /\ active_rows(refunds, i) = {}
       /\ \A c \in DOMAIN invoices :
             (~receivable(invoices[c]) /\ invoices[c].invoice_status = "sent") =>
                 invoices[c].original # i
  BY <1>2, <1>5, NothingOnIt
<1>12. transfers_live(payments)' /\ transfers_live(refunds)'
  BY <1>1, <1>2, <1>4, <1>11 DEF NoOrphanedMoney, transfers_live, active_rows, TypeOK
<1>13. sent_notes_live'
  BY <1>1, <1>2, <1>4, <1>11 DEF NoOrphanedMoney, sent_notes_live, TypeOK, receivable, Notes
<1> QED BY <1>6, <1>7, <1>9, <1>10, <1>12, <1>13 DEF IInv, NoOrphanedMoney

LEMMA SetPartyActiveInv ==
    ASSUME IInv, NEW party \in Switchable, NEW is_active \in BOOLEAN,
           set_party_active(party, is_active)
    PROVE  IInv'
<1>1. active' \subseteq Parties
  BY PartiesAssumption DEF IInv, TypeOK, set_party_active, Parties
<1> QED BY <1>1 DEF IInv, TypeOK, LedgerMatchesRows, LedgerWithinBounds,
              StatusMatchesLedger, NoOrphanedMoney, transfers_live, sent_notes_live,
              set_party_active

LEMMA InitInv == Init => IInv
<1> SUFFICES ASSUME Init PROVE IInv
  OBVIOUS
<1>1. /\ DOMAIN invoices = {} /\ DOMAIN payments = {} /\ DOMAIN refunds = {}
      /\ invoices \in [{} -> InvoiceRow]
      /\ payments \in [{} -> PaymentRow]
      /\ refunds \in [{} -> RefundRow]
  BY DEF Init
<1>2. TypeOK
  BY <1>1, FS_EmptySet DEF Init, TypeOK
<1> QED BY <1>1, <1>2 DEF IInv, LedgerMatchesRows, LedgerWithinBounds,
             StatusMatchesLedger, NoOrphanedMoney, transfers_live, sent_notes_live

LEMMA SendCreditNoteInv ==
    ASSUME IInv, NEW c \in InvoiceIds, send_credit_note(c)
    PROVE  IInv'
<1> PICK o, amount : o = invoices[c].original /\ amount = invoices[c].total_amount
  OBVIOUS
<1> DEFINE orig == invoices[o]
           position == apply_credit_note(orig.total_amount, orig.paid_amount,
                           orig.credited_amount, orig.refunded_amount, amount)
           mid == update_ledger_state(o, position)
<1>1. TypeOK /\ LedgerMatchesRows /\ LedgerWithinBounds /\ StatusMatchesLedger
        /\ NoOrphanedMoney
  BY DEF IInv
<1>2. /\ c \in DOMAIN invoices /\ invoices[c].invoice_type = "credit_note"
      /\ invoices[c].invoice_status = "draft"
      /\ o \in DOMAIN invoices
      /\ orig.invoice_type \in CREDITABLE_ORIGINAL_TYPES
      /\ orig.invoice_status \in {"sent", "partial", "paid"}
      /\ position.ok = TRUE
      /\ invoices' = submit(mid, c)
      /\ UNCHANGED <<payments, refunds, sequences, active>>
  BY DEF send_credit_note, receivable, validate_invoice_is_mutable, MUTABLE_STATES,
         validate_invoice_accepts_credit_note, CREDITABLE_STATES
<1>3. /\ c # o /\ amount \in Nat
      /\ orig.total_amount \in Nat /\ orig.paid_amount \in Nat
      /\ orig.credited_amount \in Nat /\ orig.refunded_amount \in Nat
      /\ orig.paid_amount <= orig.total_amount
      /\ orig.refunded_amount <= orig.paid_amount
      /\ orig.refunded_amount <= orig.credited_amount
  BY <1>1, <1>2, Columns DEF CREDITABLE_ORIGINAL_TYPES
<1>4. bears_money(orig)
  BY <1>2 DEF bears_money, receivable, live, CREDITABLE_ORIGINAL_TYPES
<1>5. /\ position.paid_amount = orig.paid_amount
      /\ position.credited_amount = orig.credited_amount + amount
      /\ position.refunded_amount = orig.refunded_amount
      /\ position.status = ledger_status(orig.total_amount, orig.paid_amount,
                               orig.credited_amount + amount, orig.refunded_amount)
      /\ amount > 0
      /\ orig.credited_amount + amount <= orig.total_amount
  BY <1>2 DEF apply_credit_note, compute_ledger_position
<1> HIDE DEF position, orig
<1>6. /\ orig.credited_amount + amount \in Nat
      /\ orig.refunded_amount <= orig.credited_amount + amount
  BY <1>3
<1>7. /\ DOMAIN mid = DOMAIN invoices
      /\ mid \in [DOMAIN invoices -> InvoiceRow]
      /\ \A j \in DOMAIN invoices \ {o} : mid[j] = invoices[j]
      /\ mid[o].paid_amount = orig.paid_amount
      /\ mid[o].credited_amount = orig.credited_amount + amount
      /\ mid[o].refunded_amount = orig.refunded_amount
      /\ \A j \in DOMAIN invoices :
            /\ within_bounds(mid[j])
            /\ status_matches(mid[j])
            /\ mid[j].invoice_type = invoices[j].invoice_type
            /\ mid[j].original = invoices[j].original
            /\ mid[j].total_amount = invoices[j].total_amount
            /\ live(mid[j]) <=> live(invoices[j])
            /\ mid[j].invoice_type = "credit_note" =>
                   mid[j].invoice_status = invoices[j].invoice_status
  BY <1>1, <1>2, <1>3, <1>4, <1>5, <1>6, LedgerMove DEF orig
<1> HIDE DEF mid
<1>8. /\ DOMAIN invoices' = DOMAIN invoices
      /\ invoices' \in [DOMAIN invoices -> InvoiceRow]
      /\ \A j \in DOMAIN invoices \ {c} : invoices'[j] = mid[j]
      /\ invoices'[c].invoice_status = "sent"
      /\ \A j \in DOMAIN invoices :
            /\ invoices'[j].invoice_type = invoices[j].invoice_type
            /\ invoices'[j].original = invoices[j].original
            /\ invoices'[j].total_amount = invoices[j].total_amount
            /\ invoices'[j].paid_amount = mid[j].paid_amount
            /\ invoices'[j].credited_amount = mid[j].credited_amount
            /\ invoices'[j].refunded_amount = mid[j].refunded_amount
  <2>1. mid[c] \in InvoiceRow
    BY <1>2, <1>7
  <2> QED BY <1>2, <1>7, <2>1 DEF submit, InvoiceRow, InvoiceStatuses
<1>9. LedgerWithinBounds'
  BY <1>7, <1>8 DEF LedgerWithinBounds, within_bounds
<1>10. StatusMatchesLedger'
  <2>1. /\ invoices'[c].paid_amount = 0 /\ invoices'[c].credited_amount = 0
        /\ invoices'[c].refunded_amount = 0
        /\ invoices'[c].invoice_type = "credit_note"
    BY <1>1, <1>2, <1>3, <1>7, <1>8
       DEF StatusMatchesLedger, status_matches, receivable
  <2>2. status_matches(invoices'[c])
    BY <1>8, <2>1 DEF status_matches, receivable
  <2> QED BY <1>7, <1>8, <2>2 DEF StatusMatchesLedger
<1>11. TypeOK'
  BY <1>1, <1>2, <1>8 DEF TypeOK
<1>12. LedgerMatchesRows'
  <2>1. \A j : get_total_credited(invoices', j)
               = get_total_credited(invoices, j) + (IF j = o THEN amount ELSE 0)
    <3>1. \A d \in DOMAIN invoices :
             (d # c /\ invoices[d].invoice_type = "credit_note") =>
                 invoices'[d].invoice_status = invoices[d].invoice_status
      BY <1>7, <1>8
    <3>2. IsFiniteSet(DOMAIN invoices)
            /\ \A d \in DOMAIN invoices : invoices[d].total_amount \in Nat
      BY <1>1 DEF TypeOK, InvoiceRow
    <3> QED BY <1>2, <1>8, <3>1, <3>2, NoteSent
  <2>2. \A j : /\ get_total_paid_for_invoice(payments', j)
                     = get_total_paid_for_invoice(payments, j)
               /\ get_total_active_for_invoice(refunds', j)
                     = get_total_active_for_invoice(refunds, j)
    BY <1>2
  <2>3. ASSUME NEW j \in DOMAIN invoices
        PROVE  /\ invoices'[j].paid_amount = invoices[j].paid_amount
               /\ invoices'[j].credited_amount
                     = invoices[j].credited_amount + (IF j = o THEN amount ELSE 0)
               /\ invoices'[j].refunded_amount = invoices[j].refunded_amount
    <3>1. invoices[j].credited_amount \in Nat
      BY <1>1, Columns
    <3> QED BY <1>7, <1>8, <3>1 DEF orig
  <2> QED BY <1>1, <1>8, <2>1, <2>2, <2>3 DEF LedgerMatchesRows
<1>13. \A j \in DOMAIN invoices : /\ bears_money(invoices[j]) => bears_money(invoices'[j])
                                  /\ live(invoices[j]) => live(invoices'[j])
  <2>1. live(invoices'[c])
    BY <1>8 DEF live
  <2> QED BY <1>7, <1>8, <2>1 DEF bears_money, receivable
<1>14. transfers_live(payments)' /\ transfers_live(refunds)'
  BY <1>1, <1>2, <1>13 DEF NoOrphanedMoney, transfers_live, TypeOK
<1>15. sent_notes_live'
  <2>1. ASSUME NEW d \in DOMAIN invoices, ~receivable(invoices'[d]),
               invoices'[d].invoice_status = "sent"
        PROVE  /\ invoices[d].total_amount > 0
               /\ invoices[d].original \in DOMAIN invoices
               /\ invoices[invoices[d].original].invoice_type
                     \in CREDITABLE_ORIGINAL_TYPES
               /\ live(invoices[invoices[d].original])
    <3>1. CASE d = c
      BY <1>2, <1>4, <1>5, <3>1 DEF orig, bears_money
    <3>2. CASE d # c
      <4>1. ~receivable(invoices[d]) /\ invoices[d].invoice_status = "sent"
        BY <1>7, <1>8, <2>1, <3>2 DEF receivable
      <4> QED BY <1>1, <4>1
              DEF NoOrphanedMoney, sent_notes_live, TypeOK, receivable, Notes
    <3> QED BY <3>1, <3>2
  <2> QED BY <1>8, <1>13, <2>1 DEF sent_notes_live
<1> QED BY <1>9, <1>10, <1>11, <1>12, <1>14, <1>15 DEF IInv, NoOrphanedMoney

LEMMA CreateInvoiceInv ==
    ASSUME IInv, NEW i \in InvoiceIds, NEW type \in InvoiceTypes, NEW party \in Parties,
           NEW o \in InvoiceIds \cup {NoInvoice}, NEW total \in Totals,
           NEW fy \in FinancialYears, create_for_any_party(i, type, party, o, total, fy)
    PROVE  IInv'
<1> DEFINE row == [invoice_type |-> type, party |-> party, original |-> o,
                   total_amount |-> total, paid_amount |-> 0, credited_amount |-> 0,
                   refunded_amount |-> 0, invoice_status |-> "draft",
                   financial_year |-> fy, number |-> next_number(fy, type)]
<1>1. TypeOK /\ LedgerMatchesRows /\ LedgerWithinBounds /\ StatusMatchesLedger
        /\ NoOrphanedMoney
  BY DEF IInv
<1>2. /\ i \notin DOMAIN invoices
      /\ IF type \in Notes THEN o \in DOMAIN invoices ELSE o = NoInvoice
      /\ get_next_invoice_number(fy, type)
      /\ invoices' = Insert(invoices, i, row)
      /\ UNCHANGED <<payments, refunds, active>>
  BY DEF create_for_any_party, original_matches
<1>3. total \in Nat
  BY TotalsAssumption
<1>4. sequences' \in [FinancialYears \X DocumentTypes -> Nat]
        /\ next_number(fy, type) \in Nat \ {0}
  BY <1>1, <1>2, CounterAdvances DEF DocumentTypes, InvoiceTypes
<1>5. row \in InvoiceRow
  BY <1>3, <1>4 DEF InvoiceRow, InvoiceStatuses
<1>6. /\ row.invoice_status = "draft" /\ row.original = o /\ row.invoice_type = type
      /\ row.paid_amount = 0 /\ row.credited_amount = 0 /\ row.refunded_amount = 0
      /\ row.total_amount = total
  OBVIOUS
<1> HIDE DEF row
<1>7. /\ DOMAIN invoices' = DOMAIN invoices \cup {i}
      /\ invoices' \in [DOMAIN invoices' -> InvoiceRow]
      /\ \A j \in DOMAIN invoices : invoices'[j] = invoices[j]
      /\ invoices'[i] = row
  BY <1>1, <1>2, <1>5 DEF TypeOK, Insert
<1>8. TypeOK'
  <2>1. IsFiniteSet(DOMAIN invoices')
    BY <1>1, <1>7, FS_AddElement DEF TypeOK
  <2>2. \A j \in DOMAIN invoices' :
           IF invoices'[j].invoice_type \in Notes
           THEN invoices'[j].original \in DOMAIN invoices' \ {j}
           ELSE invoices'[j].original = NoInvoice
    BY <1>1, <1>2, <1>6, <1>7 DEF TypeOK
  <2> QED BY <1>1, <1>2, <1>4, <1>7, <2>1, <2>2 DEF TypeOK
<1>9. LedgerWithinBounds'
  BY <1>1, <1>3, <1>6, <1>7 DEF LedgerWithinBounds, within_bounds
<1>10. StatusMatchesLedger'
  <2>1. status_matches(row)
    BY <1>6 DEF status_matches, live
  <2> QED BY <1>1, <1>7, <2>1 DEF StatusMatchesLedger
<1>11. LedgerMatchesRows'
  <2>1. \A j : /\ get_total_paid_for_invoice(payments', j)
                     = get_total_paid_for_invoice(payments, j)
               /\ get_total_active_for_invoice(refunds', j)
                     = get_total_active_for_invoice(refunds, j)
    BY <1>2
  <2>2. \A j : get_total_credited(invoices', j) = get_total_credited(invoices, j)
    BY <1>6, <1>7, CreditedSame
  <2>3. /\ get_total_paid_for_invoice(payments, i) = 0
        /\ get_total_active_for_invoice(refunds, i) = 0
        /\ get_total_credited(invoices, i) = 0
    <3>1. active_rows(payments, i) = {} /\ active_rows(refunds, i) = {}
      BY <1>1, <1>2 DEF active_rows, TypeOK
    <3>2. notes_against(invoices, i, {"sent", "partial", "paid"}) = {}
      BY <1>1, <1>2 DEF notes_against, TypeOK, Notes
    <3> QED BY <3>1, <3>2, SumEmpty
            DEF get_total_paid_for_invoice, get_total_active_for_invoice,
                get_total_credited
  <2> QED BY <1>1, <1>6, <1>7, <2>1, <2>2, <2>3 DEF LedgerMatchesRows
<1>12. transfers_live(payments)' /\ transfers_live(refunds)'
  BY <1>1, <1>2, <1>7 DEF NoOrphanedMoney, transfers_live, TypeOK
<1>13. sent_notes_live'
  BY <1>1, <1>6, <1>7 DEF NoOrphanedMoney, sent_notes_live, TypeOK, receivable, Notes
<1> QED BY <1>8, <1>9, <1>10, <1>11, <1>12, <1>13 DEF IInv, NoOrphanedMoney

-----------------------------------------------------------------------------
(* What the invariant implies of the requests that are possible. *)

LEMMA ActiveSumNat ==
    ASSUME NEW table, IsFiniteSet(DOMAIN table),
           \A y \in DOMAIN table : table[y].amount \in Nat
    PROVE  \A j : Sum(active_rows(table, j), amounts(table)) \in Nat
<1> TAKE j
<1> DEFINE S == active_rows(table, j)
           f == [y \in S |-> amounts(table)[y]]
<1>1. IsFiniteSet(S) /\ f \in [S -> Nat]
  BY FS_Subset DEF active_rows, amounts
<1>2. Sum(S, f) = Sum(S, amounts(table))
  BY SumSame
<1> HIDE DEF f, S
<1>3. Sum(S, f) \in Nat
  BY <1>1, SumType
<1> QED BY <1>2, <1>3 DEF S

LEMMA NeverCorrupt == IInv => LedgerNeverCorrupt
<1> SUFFICES ASSUME IInv PROVE LedgerNeverCorrupt
  OBVIOUS
<1>1. TypeOK /\ LedgerMatchesRows /\ LedgerWithinBounds
  BY DEF IInv
<1>2. ASSUME NEW r \in DOMAIN refunds, refunds[r].status = "active"
      PROVE  recomputed_position(refunds[r].invoice, payments,
                                 soft_cancel_by_id(refunds, r)).ok
  <2> PICK i, amount : i = refunds[r].invoice /\ amount = refunds[r].amount
    OBVIOUS
  <2> DEFINE new == soft_cancel_by_id(refunds, r)
             left == get_total_active_for_invoice(new, i)
             inv == invoices[i]
  <2>1. i \in DOMAIN invoices /\ amount \in Nat
    BY <1>1 DEF TypeOK, RefundRow
  <2>2. /\ DOMAIN new = DOMAIN refunds /\ IsFiniteSet(DOMAIN refunds)
        /\ new[r].status # "active"
        /\ \A y \in DOMAIN refunds :
              /\ refunds[y].amount \in Nat
              /\ new[y].amount = refunds[y].amount
              /\ new[y].invoice = refunds[y].invoice
              /\ y # r => new[y].status = refunds[y].status
    BY <1>1 DEF TypeOK, RefundRow, soft_cancel_by_id
  <2> HIDE DEF new
  <2>3. left = get_total_active_for_invoice(refunds, i) - amount
    BY <1>2, <2>2, RowCancelled DEF get_total_active_for_invoice
  <2>4. left \in Nat
    BY <2>2, ActiveSumNat DEF get_total_active_for_invoice
  <2>5. /\ inv.paid_amount = get_total_paid_for_invoice(payments, i)
        /\ inv.credited_amount = get_total_credited(invoices, i)
        /\ inv.refunded_amount = get_total_active_for_invoice(refunds, i)
    BY <1>1, <2>1 DEF LedgerMatchesRows
  <2>6. /\ inv.total_amount \in Nat /\ inv.paid_amount \in Nat
        /\ inv.credited_amount \in Nat /\ inv.refunded_amount \in Nat
        /\ inv.credited_amount <= inv.total_amount
        /\ inv.refunded_amount <= inv.paid_amount
    BY <1>1, <2>1, Columns
  <2> HIDE DEF left, inv
  <2>7. components_possible(inv.total_amount, inv.paid_amount, inv.credited_amount, left)
    BY <2>1, <2>3, <2>4, <2>5, <2>6 DEF components_possible
  <2> QED BY <2>5, <2>7
          DEF recomputed_position, compute_ledger_position, inv, left, new
<1>3. ASSUME NEW i \in DOMAIN invoices, NEW amount \in Amounts,
             record_payment_accepted(i, amount, "cash", NoReference, TRUE)
      PROVE  position_after_payment(i, amount).ok
  <2>1. /\ amount \in Nat \ {0}
        /\ amount > 0
        /\ receivable(invoices[i])
        /\ amount <= outstanding_amount(invoices[i])
    BY <1>3, AmountsAssumption
       DEF record_payment_accepted, validate_payment_does_not_exceed_outstanding,
           outstanding_amount
  <2>2. amount <= larger(balance(invoices[i].total_amount, invoices[i].paid_amount,
                           invoices[i].credited_amount, invoices[i].refunded_amount), 0)
    BY <2>1 DEF outstanding_amount
  <2> QED BY <1>1, <2>1, <2>2, Columns, PaymentFits DEF position_after_payment
<1> QED BY <1>2, <1>3 DEF LedgerNeverCorrupt

\* What cancel_payment recomputes is impossible for one reason only.
LEMMA RefusedForRefunds ==
    ASSUME IInv, NEW p \in DOMAIN payments, payments[p].status = "active",
           NEW refs, NEW i, i = payments[p].invoice,
           get_total_active_for_invoice(refs, i) \in Nat
    PROVE  LET left == soft_cancel_by_id(payments, p)
           IN  \/ recomputed_position(i, left, refs).ok
               \/ get_total_active_for_invoice(refs, i)
                      > get_total_paid_for_invoice(left, i)
<1> DEFINE left == soft_cancel_by_id(payments, p)
           paid == get_total_paid_for_invoice(left, i)
           refunded == get_total_active_for_invoice(refs, i)
           inv == invoices[i]
<1>1. TypeOK /\ LedgerMatchesRows /\ LedgerWithinBounds
  BY DEF IInv
<1>2. i \in DOMAIN invoices
  BY <1>1 DEF TypeOK
<1>3. /\ IsFiniteSet(DOMAIN left)
      /\ \A y \in DOMAIN left : left[y].amount \in Nat
  BY <1>1 DEF TypeOK, PaymentRow, soft_cancel_by_id
<1> HIDE DEF left
<1>4. paid \in Nat
  BY <1>3, ActiveSumNat DEF get_total_paid_for_invoice
<1>5. /\ inv.total_amount \in Nat /\ inv.credited_amount \in Nat
      /\ inv.credited_amount <= inv.total_amount
      /\ inv.credited_amount = get_total_credited(invoices, i)
  BY <1>1, <1>2, Columns DEF LedgerMatchesRows
<1> HIDE DEF paid, refunded, inv
<1>6. \/ components_possible(inv.total_amount, paid, inv.credited_amount, refunded)
      \/ refunded > paid
  BY <1>4, <1>5 DEF components_possible, refunded
<1> QED BY <1>5, <1>6
        DEF recomputed_position, compute_ledger_position, inv, left, paid, refunded

LEMMA RefusalTrue == IInv => CancelRefusalTrue
<1> SUFFICES ASSUME IInv, NEW p \in DOMAIN payments, payments[p].status = "active"
             PROVE  LET i == payments[p].invoice
                        left == soft_cancel_by_id(payments, p)
                    IN  /\ \/ recomputed_position(i, left, refunds).ok
                           \/ get_total_active_for_invoice(refunds, i)
                                  > get_total_paid_for_invoice(left, i)
                        /\ recomputed_position(i, left, refunds_reversed(i)).ok
  BY DEF CancelRefusalTrue
<1> DEFINE i == payments[p].invoice
           left == soft_cancel_by_id(payments, p)
           reversed == refunds_reversed(i)
<1>1. TypeOK
  BY DEF IInv
<1>2. get_total_active_for_invoice(refunds, i) \in Nat
  <2>1. IsFiniteSet(DOMAIN refunds) /\ \A y \in DOMAIN refunds : refunds[y].amount \in Nat
    BY <1>1 DEF TypeOK, RefundRow
  <2> HIDE DEF i
  <2> QED BY <2>1, ActiveSumNat DEF get_total_active_for_invoice
<1>3. get_total_active_for_invoice(reversed, i) = 0
  <2>1. \A r \in DOMAIN refunds : "status" \in DOMAIN refunds[r]
    BY <1>1 DEF TypeOK, RefundRow
  <2> HIDE DEF i
  <2>2. active_rows(reversed, i) = {}
    BY <2>1 DEF active_rows, refunds_reversed
  <2> QED BY <2>2, SumEmpty DEF get_total_active_for_invoice
<1>4. get_total_paid_for_invoice(left, i) \in Nat
  <2>1. IsFiniteSet(DOMAIN left) /\ \A y \in DOMAIN left : left[y].amount \in Nat
    BY <1>1 DEF TypeOK, PaymentRow, soft_cancel_by_id
  <2> HIDE DEF i, left
  <2> QED BY <2>1, ActiveSumNat DEF get_total_paid_for_invoice
<1>5. \/ recomputed_position(i, left, refunds).ok
      \/ get_total_active_for_invoice(refunds, i) > get_total_paid_for_invoice(left, i)
  BY <1>2, RefusedForRefunds
<1>6. \/ recomputed_position(i, left, reversed).ok
      \/ get_total_active_for_invoice(reversed, i) > get_total_paid_for_invoice(left, i)
  <2>1. get_total_active_for_invoice(reversed, i) \in Nat
    BY <1>3
  <2> HIDE DEF reversed
  <2> QED BY <2>1, RefusedForRefunds
<1> HIDE DEF i, left, reversed
<1>7. recomputed_position(i, left, reversed).ok
  BY <1>3, <1>4, <1>6
<1> QED BY <1>5, <1>7 DEF i, left, reversed

-----------------------------------------------------------------------------

LEMMA StepInv == IInv /\ [NextForAnyParty]_vars => IInv'
<1> SUFFICES ASSUME IInv, [NextForAnyParty]_vars PROVE IInv'
  OBVIOUS
<1>1. CASE CreateForAnyParty
  BY <1>1, CreateInvoiceInv DEF CreateForAnyParty
<1>2. CASE SendInvoice
  BY <1>2, SendInvoiceInv, SendCreditNoteInv DEF SendInvoice
<1>3. CASE VoidInvoice
  BY <1>3, VoidInvoiceInv DEF VoidInvoice
<1>4. CASE RecordPayment
  BY <1>4, RecordPaymentInv DEF RecordPayment
<1>5. CASE CancelPayment
  BY <1>5, CancelPaymentInv DEF CancelPayment
<1>6. CASE RecordRefund
  BY <1>6, RecordRefundInv DEF RecordRefund
<1>7. CASE CancelRefund
  BY <1>7, CancelRefundInv DEF CancelRefund
<1>8. CASE SetPartyActive
  BY <1>8, SetPartyActiveInv DEF SetPartyActive
<1>9. CASE UNCHANGED vars
  BY <1>9 DEF vars, IInv, TypeOK, LedgerMatchesRows, LedgerWithinBounds,
              StatusMatchesLedger, NoOrphanedMoney, transfers_live, sent_notes_live
<1> QED BY <1>1, <1>2, <1>3, <1>4, <1>5, <1>6, <1>7, <1>8, <1>9
        DEF NextForAnyParty

(***************************************************************************)
(* The inductive invariant holds of every reachable state.                 *)
(***************************************************************************)
THEOREM Invariance == Spec => []IInv
BY InitInv, StepInv, AnyParty, PTL DEF Spec

(***************************************************************************)
(* Every handler keeps the columns typed and the foreign keys resolved.    *)
(***************************************************************************)
THEOREM TypeCorrect == Spec => []TypeOK
<1>1. IInv => TypeOK
  BY DEF IInv
<1> QED BY <1>1, Invariance, PTL

(***************************************************************************)
(* The running totals of record_payment, record_refund and send_invoice    *)
(* and the recomputations of the two cancel handlers always agree with the *)
(* rows they stand for.                                                    *)
(***************************************************************************)
THEOREM LedgerCorrect == Spec => []LedgerMatchesRows
<1>1. IInv => LedgerMatchesRows
  BY DEF IInv
<1> QED BY <1>1, Invariance, PTL

(***************************************************************************)
(* No committed step can violate a CHECK constraint of the invoices table: *)
(* nothing is paid or credited beyond the total, nothing refunded beyond   *)
(* what was paid or credited.                                              *)
(***************************************************************************)
THEOREM BoundsCorrect == Spec => []LedgerWithinBounds
<1>1. IInv => LedgerWithinBounds
  BY DEF IInv
<1> QED BY <1>1, Invariance, PTL

(***************************************************************************)
(* The stored status is always the one the ledger implies.                 *)
(***************************************************************************)
THEOREM StatusCorrect == Spec => []StatusMatchesLedger
<1>1. IInv => StatusMatchesLedger
  BY DEF IInv
<1> QED BY <1>1, Invariance, PTL

(***************************************************************************)
(* void_invoice never leaves an active payment, an active refund or a sent *)
(* credit note on a void invoice.                                          *)
(***************************************************************************)
THEOREM NothingOrphaned == Spec => []NoOrphanedMoney
<1>1. IInv => NoOrphanedMoney
  BY DEF IInv
<1> QED BY <1>1, Invariance, PTL

(***************************************************************************)
(* No request meets a "Ledger corruption" ValueError it does not catch:    *)
(* every active refund can be cancelled, every payment that passed the     *)
(* checks can be applied.                                                  *)
(***************************************************************************)
THEOREM CorruptionUnreachable == Spec => []LedgerNeverCorrupt
BY NeverCorrupt, Invariance, PTL

(***************************************************************************)
(* Whenever cancel_payment is refused, the refunds of the invoice exceed   *)
(* the cash that would remain, and reversing them lets it through: what    *)
(* PaymentCancelBlockedByRefundError tells the client is true.             *)
(***************************************************************************)
THEOREM RefusalsTrue == Spec => []CancelRefusalTrue
BY RefusalTrue, Invariance, PTL

-----------------------------------------------------------------------------
(***************************************************************************)
(* What the steps of Billing make of its history: the numbers of a series  *)
(* have no gap, credit notes have no twin, nothing submitted is edited, no *)
(* credit is taken back, and each step is one move of Receivables or none. *)
(*                                                                         *)
(* All of it rests on the invariant above and on one lemma per action that *)
(* says what the action does to the invoices table.                        *)
(***************************************************************************)

\* The columns of an invoice no handler writes after its insert.
same_header(old, new) ==
    /\ new.invoice_type = old.invoice_type
    /\ new.party = old.party
    /\ new.original = old.original
    /\ new.total_amount = old.total_amount
    /\ new.financial_year = old.financial_year
    /\ new.number = old.number

\* One live receivable comes to other amounts and stays live; no other row changes.
moves(i, paid, credited, refunded) ==
    /\ i \in DOMAIN invoices
    /\ bears_money(invoices[i])
    /\ DOMAIN invoices' = DOMAIN invoices
    /\ \A j \in DOMAIN invoices \ {i} : invoices'[j] = invoices[j]
    /\ same_header(invoices[i], invoices'[i])
    /\ live(invoices'[i])
    /\ invoices'[i].paid_amount = paid
    /\ invoices'[i].credited_amount = credited
    /\ invoices'[i].refunded_amount = refunded

\* One row comes to another status; nothing else of any invoice changes.
restates(i, status) ==
    /\ i \in DOMAIN invoices
    /\ DOMAIN invoices' = DOMAIN invoices
    /\ \A j \in DOMAIN invoices \ {i} : invoices'[j] = invoices[j]
    /\ same_header(invoices[i], invoices'[i])
    /\ invoices'[i].paid_amount = invoices[i].paid_amount
    /\ invoices'[i].credited_amount = invoices[i].credited_amount
    /\ invoices'[i].refunded_amount = invoices[i].refunded_amount
    /\ invoices'[i].invoice_status = status

-----------------------------------------------------------------------------
(* What each action does to the invoices table. *)

LEMMA LedgerMoves ==
    ASSUME TypeOK, NEW i \in DOMAIN invoices, bears_money(invoices[i]),
           NEW position, position.paid_amount \in Nat, position.credited_amount \in Nat,
           position.refunded_amount \in Nat, position.status \in {"sent", "partial", "paid"},
           invoices' = update_ledger_state(i, position)
    PROVE  moves(i, position.paid_amount, position.credited_amount,
                 position.refunded_amount)
BY LedgerStateUpdated DEF TypeOK, InvoiceStatuses, moves, same_header, live

LEMMA RecordPaymentMoves ==
    ASSUME IInv, NEW p \in PaymentIds, NEW i \in InvoiceIds, NEW amount \in Amounts,
           NEW mode \in PaymentModes, NEW reference \in References \cup {NoReference},
           NEW confirm_duplicate \in BOOLEAN,
           record_payment(p, i, amount, mode, reference, confirm_duplicate)
    PROVE  /\ amount \in Nat \ {0}
           /\ amount <= larger(balance(invoices[i].total_amount, invoices[i].paid_amount,
                          invoices[i].credited_amount, invoices[i].refunded_amount), 0)
           /\ moves(i, invoices[i].paid_amount + amount, invoices[i].credited_amount,
                    invoices[i].refunded_amount)
<1> DEFINE position == position_after_payment(i, amount)
           inv == invoices[i]
<1>1. TypeOK /\ LedgerWithinBounds
  BY DEF IInv
<1>2. /\ i \in DOMAIN invoices
      /\ inv.invoice_status \in {"sent", "partial"}
      /\ outstanding_amount(inv) > 0
      /\ amount <= outstanding_amount(inv)
      /\ invoices' = update_ledger_state(i, position)
  BY DEF record_payment, record_payment_accepted, validate_invoice_accepts_payment,
         PAYABLE_STATES, validate_payment_does_not_exceed_outstanding
<1>3. bears_money(inv) /\ amount <= larger(balance(inv.total_amount, inv.paid_amount,
                                 inv.credited_amount, inv.refunded_amount), 0)
  BY <1>2 DEF bears_money, live, receivable, outstanding_amount
<1>4. /\ amount \in Nat \ {0}
      /\ inv.total_amount \in Nat /\ inv.paid_amount \in Nat
      /\ inv.credited_amount \in Nat /\ inv.refunded_amount \in Nat
  BY <1>1, <1>2, Columns, AmountsAssumption
<1>5. /\ position.paid_amount = inv.paid_amount + amount
      /\ position.credited_amount = inv.credited_amount
      /\ position.refunded_amount = inv.refunded_amount
      /\ position.status = ledger_status(inv.total_amount, inv.paid_amount + amount,
                                         inv.credited_amount, inv.refunded_amount)
  BY DEF position_after_payment, apply_payment, compute_ledger_position
<1> HIDE DEF position, inv
<1>6. inv.paid_amount + amount \in Nat
  BY <1>4
<1>7. position.status \in {"sent", "partial", "paid"}
  BY <1>4, <1>5, <1>6, StatusOfLedger
<1>8. moves(i, position.paid_amount, position.credited_amount, position.refunded_amount)
  BY <1>1, <1>2, <1>3, <1>4, <1>5, <1>6, <1>7, LedgerMoves DEF inv
<1> QED BY <1>3, <1>4, <1>5, <1>8 DEF inv

LEMMA RecordRefundMoves ==
    ASSUME IInv, NEW r \in RefundIds, NEW i \in InvoiceIds, NEW amount \in Amounts,
           NEW reference \in References \cup {NoReference},
           record_refund(r, i, amount, reference)
    PROVE  /\ amount \in Nat \ {0}
           /\ amount <= larger(-balance(invoices[i].total_amount, invoices[i].paid_amount,
                          invoices[i].credited_amount, invoices[i].refunded_amount), 0)
           /\ moves(i, invoices[i].paid_amount, invoices[i].credited_amount,
                    invoices[i].refunded_amount + amount)
<1> DEFINE position == position_after_refund(i, amount)
           inv == invoices[i]
<1>1. TypeOK /\ LedgerWithinBounds /\ StatusMatchesLedger
  BY DEF IInv
<1>2. /\ i \in DOMAIN invoices
      /\ position.ok
      /\ invoices' = update_ledger_state(i, position)
  BY DEF record_refund
<1>3. /\ amount \in Nat \ {0} /\ amount \in Nat
      /\ inv.total_amount \in Nat /\ inv.paid_amount \in Nat
      /\ inv.credited_amount \in Nat /\ inv.refunded_amount \in Nat
      /\ inv.paid_amount <= inv.total_amount /\ inv.credited_amount <= inv.total_amount
      /\ inv.refunded_amount <= inv.paid_amount
      /\ inv.refunded_amount <= inv.credited_amount
  BY <1>1, <1>2, Columns, AmountsAssumption
<1>4. /\ apply_refund(inv.total_amount, inv.paid_amount, inv.credited_amount,
                      inv.refunded_amount, amount).ok = TRUE
      /\ amount <= larger(-balance(inv.total_amount, inv.paid_amount,
                                   inv.credited_amount, inv.refunded_amount), 0)
      /\ position.paid_amount = inv.paid_amount
      /\ position.credited_amount = inv.credited_amount
      /\ position.refunded_amount = inv.refunded_amount + amount
      /\ position.status = ledger_status(inv.total_amount, inv.paid_amount,
                               inv.credited_amount, inv.refunded_amount + amount)
  BY <1>2 DEF position_after_refund, apply_refund, compute_ledger_position
<1> HIDE DEF position, inv
<1>5. inv.paid_amount > 0
  <2>1. apply_refund(inv.total_amount, inv.paid_amount, inv.credited_amount,
                     inv.refunded_amount, amount).ok = TRUE
    BY <1>4
  <2> QED BY <1>3, <2>1, RefundFits
<1>6. bears_money(inv)
  BY <1>1, <1>2, <1>5 DEF StatusMatchesLedger, status_matches, bears_money, inv
<1>7. inv.refunded_amount + amount \in Nat
  BY <1>3
<1>8. position.status \in {"sent", "partial", "paid"}
  BY <1>3, <1>4, <1>7, StatusOfLedger
<1>9. moves(i, position.paid_amount, position.credited_amount, position.refunded_amount)
  BY <1>1, <1>2, <1>3, <1>4, <1>6, <1>7, <1>8, LedgerMoves DEF inv
<1> QED BY <1>3, <1>4, <1>9 DEF inv

\* The recomputation after a payment is cancelled moves paid_amount alone.
LEMMA CancelPaymentMoves ==
    ASSUME IInv, NEW p \in PaymentIds, cancel_payment(p)
    PROVE  LET i == payments[p].invoice
               amount == payments[p].amount
           IN  /\ amount \in Nat \ {0}
               /\ amount <= invoices[i].paid_amount - invoices[i].refunded_amount
               /\ moves(i, invoices[i].paid_amount - amount, invoices[i].credited_amount,
                        invoices[i].refunded_amount)
<1> PICK i, amount : i = payments[p].invoice /\ amount = payments[p].amount
  OBVIOUS
<1> DEFINE inv == invoices[i]
           position == recomputed_position(i, payments', refunds)
<1>1. TypeOK /\ LedgerMatchesRows /\ LedgerWithinBounds /\ NoOrphanedMoney
  BY DEF IInv
<1>2. /\ p \in DOMAIN payments /\ payments[p].status = "active"
      /\ payments' = soft_cancel_by_id(payments, p)
      /\ position.ok
      /\ invoices' = update_ledger_state(i, position)
  BY DEF cancel_payment
<1>3. /\ i \in DOMAIN invoices /\ amount \in Nat \ {0}
      /\ bears_money(inv)
  BY <1>1, <1>2 DEF TypeOK, PaymentRow, NoOrphanedMoney, transfers_live
<1>4. /\ inv.total_amount \in Nat /\ inv.paid_amount \in Nat
      /\ inv.credited_amount \in Nat /\ inv.refunded_amount \in Nat
  BY <1>1, <1>3, Columns
<1>5. get_total_paid_for_invoice(payments', i) =
        get_total_paid_for_invoice(payments, i) - amount
  <2>1. /\ IsFiniteSet(DOMAIN payments) /\ DOMAIN payments' = DOMAIN payments
        /\ payments'[p].status # "active"
        /\ \A y \in DOMAIN payments :
              /\ payments[y].amount \in Nat
              /\ payments'[y].amount = payments[y].amount
              /\ payments'[y].invoice = payments[y].invoice
              /\ y # p => payments'[y].status = payments[y].status
    BY <1>1, <1>2 DEF TypeOK, PaymentRow, soft_cancel_by_id
  <2> QED BY <1>2, <2>1, RowCancelled DEF get_total_paid_for_invoice
<1>6. /\ inv.paid_amount = get_total_paid_for_invoice(payments, i)
      /\ inv.credited_amount = get_total_credited(invoices, i)
      /\ inv.refunded_amount = get_total_active_for_invoice(refunds, i)
  BY <1>1, <1>3 DEF LedgerMatchesRows
<1>7. position = compute_ledger_position(inv.total_amount, inv.paid_amount - amount,
                                         inv.credited_amount, inv.refunded_amount)
  BY <1>5, <1>6 DEF recomputed_position
<1> HIDE DEF position, inv
<1>8. /\ position.paid_amount = inv.paid_amount - amount
      /\ position.credited_amount = inv.credited_amount
      /\ position.refunded_amount = inv.refunded_amount
      /\ position.status = ledger_status(inv.total_amount, inv.paid_amount - amount,
                                         inv.credited_amount, inv.refunded_amount)
      /\ inv.paid_amount - amount >= 0
      /\ inv.refunded_amount <= inv.paid_amount - amount
  BY <1>2, <1>7 DEF compute_ledger_position, components_possible
<1>9. inv.paid_amount - amount \in Nat /\ amount <= inv.paid_amount - inv.refunded_amount
  BY <1>3, <1>4, <1>8
<1>10. position.status \in {"sent", "partial", "paid"}
  BY <1>4, <1>8, <1>9, StatusOfLedger
<1>11. moves(i, position.paid_amount, position.credited_amount, position.refunded_amount)
  BY <1>1, <1>2, <1>3, <1>4, <1>8, <1>9, <1>10, LedgerMoves DEF inv
<1> QED BY <1>3, <1>8, <1>9, <1>11 DEF inv

\* The recomputation after a refund is cancelled moves refunded_amount alone.
LEMMA CancelRefundMoves ==
    ASSUME IInv, NEW r \in RefundIds, cancel_refund(r)
    PROVE  LET i == refunds[r].invoice
               amount == refunds[r].amount
           IN  /\ amount \in Nat \ {0}
               /\ amount <= invoices[i].refunded_amount
               /\ moves(i, invoices[i].paid_amount, invoices[i].credited_amount,
                        invoices[i].refunded_amount - amount)
<1> PICK i, amount : i = refunds[r].invoice /\ amount = refunds[r].amount
  OBVIOUS
<1> DEFINE inv == invoices[i]
           position == recomputed_position(i, payments, refunds')
<1>1. TypeOK /\ LedgerMatchesRows /\ LedgerWithinBounds /\ NoOrphanedMoney
  BY DEF IInv
<1>2. /\ r \in DOMAIN refunds /\ refunds[r].status = "active"
      /\ refunds' = soft_cancel_by_id(refunds, r)
      /\ position.ok
      /\ invoices' = update_ledger_state(i, position)
  BY DEF cancel_refund
<1>3. /\ i \in DOMAIN invoices /\ amount \in Nat \ {0}
      /\ bears_money(inv)
  BY <1>1, <1>2 DEF TypeOK, RefundRow, NoOrphanedMoney, transfers_live
<1>4. /\ inv.total_amount \in Nat /\ inv.paid_amount \in Nat
      /\ inv.credited_amount \in Nat /\ inv.refunded_amount \in Nat
  BY <1>1, <1>3, Columns
<1>5. get_total_active_for_invoice(refunds', i) =
        get_total_active_for_invoice(refunds, i) - amount
  <2>1. /\ IsFiniteSet(DOMAIN refunds) /\ DOMAIN refunds' = DOMAIN refunds
        /\ refunds'[r].status # "active"
        /\ \A y \in DOMAIN refunds :
              /\ refunds[y].amount \in Nat
              /\ refunds'[y].amount = refunds[y].amount
              /\ refunds'[y].invoice = refunds[y].invoice
              /\ y # r => refunds'[y].status = refunds[y].status
    BY <1>1, <1>2 DEF TypeOK, RefundRow, soft_cancel_by_id
  <2> QED BY <1>2, <2>1, RowCancelled DEF get_total_active_for_invoice
<1>6. /\ inv.paid_amount = get_total_paid_for_invoice(payments, i)
      /\ inv.credited_amount = get_total_credited(invoices, i)
      /\ inv.refunded_amount = get_total_active_for_invoice(refunds, i)
  BY <1>1, <1>3 DEF LedgerMatchesRows
<1>7. position = compute_ledger_position(inv.total_amount, inv.paid_amount,
                                         inv.credited_amount, inv.refunded_amount - amount)
  BY <1>5, <1>6 DEF recomputed_position
<1> HIDE DEF position, inv
<1>8. /\ position.paid_amount = inv.paid_amount
      /\ position.credited_amount = inv.credited_amount
      /\ position.refunded_amount = inv.refunded_amount - amount
      /\ position.status = ledger_status(inv.total_amount, inv.paid_amount,
                               inv.credited_amount, inv.refunded_amount - amount)
      /\ inv.refunded_amount - amount >= 0
  BY <1>2, <1>7 DEF compute_ledger_position, components_possible
<1>9. inv.refunded_amount - amount \in Nat /\ amount <= inv.refunded_amount
  BY <1>3, <1>4, <1>8
<1>10. position.status \in {"sent", "partial", "paid"}
  BY <1>4, <1>8, <1>9, StatusOfLedger
<1>11. moves(i, position.paid_amount, position.credited_amount, position.refunded_amount)
  BY <1>1, <1>2, <1>3, <1>4, <1>8, <1>9, <1>10, LedgerMoves DEF inv
<1> QED BY <1>3, <1>8, <1>9, <1>11 DEF inv

LEMMA SendInvoiceRestates ==
    ASSUME IInv, NEW i \in InvoiceIds, send_invoice(i)
    PROVE  /\ restates(i, "sent")
           /\ receivable(invoices[i]) /\ invoices[i].invoice_status = "draft"
<1>1. invoices \in [DOMAIN invoices -> InvoiceRow]
  BY DEF IInv, TypeOK
<1> QED BY <1>1 DEF send_invoice, submit, validate_invoice_is_mutable, MUTABLE_STATES,
                    restates, same_header, InvoiceRow

\* Only an invoice without money on it is voided.
LEMMA VoidInvoiceRestates ==
    ASSUME IInv, NEW i \in InvoiceIds, void_invoice(i)
    PROVE  /\ restates(i, "void")
           /\ receivable(invoices[i]) /\ invoices[i].invoice_status = "sent"
           /\ invoices[i].paid_amount = 0 /\ invoices[i].credited_amount = 0
           /\ invoices[i].refunded_amount = 0
<1>1. /\ invoices \in [DOMAIN invoices -> InvoiceRow]
      /\ TypeOK /\ LedgerWithinBounds /\ StatusMatchesLedger
  BY DEF IInv, TypeOK
<1>2. /\ i \in DOMAIN invoices /\ receivable(invoices[i])
      /\ invoices[i].invoice_status = "sent"
      /\ invoices' = [invoices EXCEPT ![i].invoice_status = "void"]
  BY DEF void_invoice, validate_invoice_is_voidable, VOIDABLE_STATES, receivable
<1>3. restates(i, "void")
  BY <1>1, <1>2 DEF restates, same_header, InvoiceRow
<1>4. ledger_status(invoices[i].total_amount, invoices[i].paid_amount,
                    invoices[i].credited_amount, invoices[i].refunded_amount) = "sent"
  BY <1>1, <1>2 DEF StatusMatchesLedger, status_matches, live
<1> QED BY <1>1, <1>2, <1>3, <1>4, Columns, StatusOfLedger

\* The original moves, the note comes to "sent", nothing else changes.
LEMMA SendCreditNoteMoves ==
    ASSUME IInv, NEW c \in InvoiceIds, send_credit_note(c)
    PROVE  LET o == invoices[c].original
               amount == invoices[c].total_amount
           IN  /\ c \in DOMAIN invoices /\ o \in DOMAIN invoices \ {c}
               /\ ~receivable(invoices[c]) /\ invoices[c].invoice_status = "draft"
               /\ bears_money(invoices[o])
               /\ amount \in Nat \ {0}
               /\ amount <= invoices[o].total_amount - invoices[o].credited_amount
               /\ DOMAIN invoices' = DOMAIN invoices
               /\ \A j \in DOMAIN invoices \ {c, o} : invoices'[j] = invoices[j]
               /\ same_header(invoices[c], invoices'[c])
               /\ invoices'[c].invoice_status = "sent"
               /\ invoices'[c].paid_amount = invoices[c].paid_amount
               /\ invoices'[c].credited_amount = invoices[c].credited_amount
               /\ invoices'[c].refunded_amount = invoices[c].refunded_amount
               /\ same_header(invoices[o], invoices'[o])
               /\ live(invoices'[o])
               /\ invoices'[o].paid_amount = invoices[o].paid_amount
               /\ invoices'[o].credited_amount = invoices[o].credited_amount + amount
               /\ invoices'[o].refunded_amount = invoices[o].refunded_amount
<1> PICK o, amount : o = invoices[c].original /\ amount = invoices[c].total_amount
  OBVIOUS
<1> DEFINE orig == invoices[o]
           position == apply_credit_note(orig.total_amount, orig.paid_amount,
                           orig.credited_amount, orig.refunded_amount, amount)
           mid == update_ledger_state(o, position)
<1>1. TypeOK /\ LedgerWithinBounds
  BY DEF IInv
<1>2. /\ c \in DOMAIN invoices /\ invoices[c].invoice_type = "credit_note"
      /\ invoices[c].invoice_status = "draft"
      /\ o \in DOMAIN invoices
      /\ orig.invoice_type \in CREDITABLE_ORIGINAL_TYPES
      /\ orig.invoice_status \in {"sent", "partial", "paid"}
      /\ position.ok = TRUE
      /\ invoices' = submit(mid, c)
  BY DEF send_credit_note, receivable, validate_invoice_is_mutable, MUTABLE_STATES,
         validate_invoice_accepts_credit_note, CREDITABLE_STATES
<1>3. /\ c # o /\ amount \in Nat
      /\ orig.total_amount \in Nat /\ orig.paid_amount \in Nat
      /\ orig.credited_amount \in Nat /\ orig.refunded_amount \in Nat
  BY <1>1, <1>2, Columns DEF CREDITABLE_ORIGINAL_TYPES
<1>4. bears_money(orig)
  BY <1>2 DEF bears_money, receivable, live, CREDITABLE_ORIGINAL_TYPES
<1>5. /\ position.paid_amount = orig.paid_amount
      /\ position.credited_amount = orig.credited_amount + amount
      /\ position.refunded_amount = orig.refunded_amount
      /\ position.status = ledger_status(orig.total_amount, orig.paid_amount,
                               orig.credited_amount + amount, orig.refunded_amount)
      /\ amount > 0
      /\ orig.credited_amount + amount <= orig.total_amount
  BY <1>2 DEF apply_credit_note, compute_ledger_position
<1> HIDE DEF position, orig
<1>6. orig.credited_amount + amount \in Nat
  BY <1>3
<1>7. position.status \in {"sent", "partial", "paid"}
  BY <1>3, <1>5, <1>6, StatusOfLedger
<1>8. /\ DOMAIN mid = DOMAIN invoices
      /\ mid \in [DOMAIN invoices -> InvoiceRow]
      /\ \A j \in DOMAIN invoices \ {o} : mid[j] = invoices[j]
      /\ mid[o].paid_amount = orig.paid_amount
      /\ mid[o].credited_amount = orig.credited_amount + amount
      /\ mid[o].refunded_amount = orig.refunded_amount
      /\ live(mid[o])
      /\ same_header(orig, mid[o])
  BY <1>1, <1>2, <1>3, <1>5, <1>6, <1>7, LedgerStateUpdated
     DEF TypeOK, InvoiceStatuses, live, same_header, orig
<1> HIDE DEF mid
<1>9. /\ DOMAIN invoices' = DOMAIN invoices
      /\ \A j \in DOMAIN invoices \ {c} : invoices'[j] = mid[j]
      /\ same_header(invoices[c], invoices'[c])
      /\ invoices'[c].invoice_status = "sent"
      /\ invoices'[c].paid_amount = invoices[c].paid_amount
      /\ invoices'[c].credited_amount = invoices[c].credited_amount
      /\ invoices'[c].refunded_amount = invoices[c].refunded_amount
  <2>1. mid[c] \in InvoiceRow /\ mid[c] = invoices[c]
    BY <1>2, <1>3, <1>8
  <2> QED BY <1>2, <1>8, <2>1 DEF submit, InvoiceRow, same_header
<1>10. /\ invoices'[o] = mid[o]
       /\ \A j \in DOMAIN invoices \ {c, o} : invoices'[j] = invoices[j]
  BY <1>2, <1>3, <1>8, <1>9
<1>11. amount \in Nat \ {0} /\ amount <= orig.total_amount - orig.credited_amount
  BY <1>3, <1>5
<1> QED BY <1>2, <1>3, <1>4, <1>8, <1>9, <1>10, <1>11 DEF orig, receivable

\* A draft without money on it is added; nothing else changes.
LEMMA CreateInvoiceInserts ==
    ASSUME IInv, NEW i \in InvoiceIds, NEW type \in InvoiceTypes, NEW party \in Parties,
           NEW o \in InvoiceIds \cup {NoInvoice}, NEW total \in Totals,
           NEW fy \in FinancialYears, create_for_any_party(i, type, party, o, total, fy)
    PROVE  /\ i \notin DOMAIN invoices
           /\ DOMAIN invoices' = DOMAIN invoices \cup {i}
           /\ \A j \in DOMAIN invoices : invoices'[j] = invoices[j]
           /\ invoices'[i] =
                [invoice_type |-> type, party |-> party, original |-> o,
                 total_amount |-> total, paid_amount |-> 0, credited_amount |-> 0,
                 refunded_amount |-> 0, invoice_status |-> "draft",
                 financial_year |-> fy, number |-> next_number(fy, type)]
           /\ get_next_invoice_number(fy, type)
BY DEF create_for_any_party, Insert

-----------------------------------------------------------------------------
(* Nothing submitted is edited, no credit taken back. *)

LEMMA SameHeaderSameDocument ==
    ASSUME NEW old, NEW new, same_header(old, new),
           old.invoice_status # "draft" => new.invoice_status # "draft",
           old.invoice_status # "void"
    PROVE  same_document(old, new)
BY DEF same_header, same_document

LEMMA MovesKeep ==
    ASSUME TypeOK, NEW i, NEW paid, NEW credited, NEW refunded,
           moves(i, paid, credited, refunded),
           credited >= invoices[i].credited_amount,
           \A j \in DOMAIN invoices : invoices[j].credited_amount \in Nat
    PROVE  invoices_kept /\ credits_kept
<1>1. same_document(invoices[i], invoices'[i])
  BY SameHeaderSameDocument DEF moves, bears_money, live
<1>2. \A j \in DOMAIN invoices \ {i} : same_document(invoices[j], invoices'[j])
  BY DEF moves, same_document
<1> QED BY <1>1, <1>2 DEF moves, invoices_kept, credits_kept

LEMMA RestatesKeep ==
    ASSUME TypeOK, NEW i, NEW status, restates(i, status), status # "draft",
           invoices[i].invoice_status # "void",
           \A j \in DOMAIN invoices : invoices[j].credited_amount \in Nat
    PROVE  invoices_kept /\ credits_kept
<1>1. same_document(invoices[i], invoices'[i])
  BY SameHeaderSameDocument DEF restates
<1>2. \A j \in DOMAIN invoices \ {i} : same_document(invoices[j], invoices'[j])
  BY DEF restates, same_document
<1> QED BY <1>1, <1>2 DEF restates, invoices_kept, credits_kept

\* No step edits a submitted invoice or takes a credit back.
LEMMA InvoicesKept == IInv /\ NextForAnyParty => invoices_kept /\ credits_kept
<1> SUFFICES ASSUME IInv, NextForAnyParty PROVE invoices_kept /\ credits_kept
  OBVIOUS
<1>1. TypeOK /\ LedgerWithinBounds
  BY DEF IInv
<1>2. \A j \in DOMAIN invoices : invoices[j].credited_amount \in Nat
  BY <1>1, Columns
<1>3. CASE UNCHANGED invoices
  BY <1>2, <1>3 DEF invoices_kept, credits_kept, same_document
<1>4. CASE CreateForAnyParty
  <2>1. /\ DOMAIN invoices \subseteq DOMAIN invoices'
        /\ \A j \in DOMAIN invoices : invoices'[j] = invoices[j]
    BY <1>4, CreateInvoiceInserts DEF CreateForAnyParty
  <2> QED BY <1>2, <2>1 DEF invoices_kept, credits_kept, same_document
<1>5. ASSUME NEW i \in InvoiceIds, send_invoice(i) PROVE invoices_kept /\ credits_kept
  BY <1>1, <1>2, <1>5, SendInvoiceRestates, RestatesKeep
<1>6. ASSUME NEW c \in InvoiceIds, send_credit_note(c) PROVE invoices_kept /\ credits_kept
  <2> DEFINE o == invoices[c].original
             amount == invoices[c].total_amount
  <2>1. /\ c \in DOMAIN invoices /\ o \in DOMAIN invoices \ {c}
        /\ invoices[c].invoice_status = "draft"
        /\ bears_money(invoices[o])
        /\ amount \in Nat
        /\ DOMAIN invoices' = DOMAIN invoices
        /\ \A j \in DOMAIN invoices \ {c, o} : invoices'[j] = invoices[j]
        /\ same_header(invoices[c], invoices'[c])
        /\ invoices'[c].invoice_status = "sent"
        /\ invoices'[c].credited_amount = invoices[c].credited_amount
        /\ same_header(invoices[o], invoices'[o])
        /\ live(invoices'[o])
        /\ invoices'[o].credited_amount = invoices[o].credited_amount + amount
    BY <1>6, SendCreditNoteMoves
  <2> HIDE DEF o, amount
  <2>2. same_document(invoices[c], invoices'[c]) /\ same_document(invoices[o], invoices'[o])
    BY <2>1, SameHeaderSameDocument DEF bears_money, live
  <2>3. \A j \in DOMAIN invoices \ {c, o} : same_document(invoices[j], invoices'[j])
    BY <2>1 DEF same_document
  <2> QED BY <1>2, <2>1, <2>2, <2>3 DEF invoices_kept, credits_kept
<1>7. CASE VoidInvoice
  <2>1. PICK i \in InvoiceIds : void_invoice(i)
    BY <1>7 DEF VoidInvoice
  <2>2. restates(i, "void") /\ invoices[i].invoice_status = "sent"
    BY <2>1, VoidInvoiceRestates
  <2> QED BY <1>1, <1>2, <2>2, RestatesKeep
<1>8. CASE RecordPayment
  <2>1. PICK i : moves(i, invoices'[i].paid_amount, invoices[i].credited_amount,
                       invoices'[i].refunded_amount)
    BY <1>8, RecordPaymentMoves DEF RecordPayment, moves
  <2> QED BY <1>1, <1>2, <2>1, MovesKeep DEF moves
<1>9. CASE CancelPayment
  <2>1. PICK i : moves(i, invoices'[i].paid_amount, invoices[i].credited_amount,
                       invoices'[i].refunded_amount)
    BY <1>9, CancelPaymentMoves DEF CancelPayment, moves
  <2> QED BY <1>1, <1>2, <2>1, MovesKeep DEF moves
<1>10. CASE RecordRefund
  <2>1. PICK i : moves(i, invoices'[i].paid_amount, invoices[i].credited_amount,
                       invoices'[i].refunded_amount)
    BY <1>10, RecordRefundMoves DEF RecordRefund, moves
  <2> QED BY <1>1, <1>2, <2>1, MovesKeep DEF moves
<1>11. CASE CancelRefund
  <2>1. PICK i : moves(i, invoices'[i].paid_amount, invoices[i].credited_amount,
                       invoices'[i].refunded_amount)
    BY <1>11, CancelRefundMoves DEF CancelRefund, moves
  <2> QED BY <1>1, <1>2, <2>1, MovesKeep DEF moves
<1>12. CASE SetPartyActive
  BY <1>3, <1>12 DEF SetPartyActive, set_party_active
<1> QED BY <1>4, <1>5, <1>6, <1>7, <1>8, <1>9, <1>10, <1>11, <1>12
        DEF NextForAnyParty, SendInvoice

LEMMA RowsKept ==
    ASSUME NEW table, NEW new,
           \/ new = table
           \/ \E x, row : x \notin DOMAIN table /\ new = Insert(table, x, row)
           \/ \E x \in DOMAIN table : new = soft_cancel_by_id(table, x)
    PROVE  transfers_kept(table, new)
BY DEF transfers_kept, same_transfer, Insert, soft_cancel_by_id

\* No step edits a payment or a refund, but to cancel it.
LEMMA TransfersKept ==
    NextForAnyParty => transfers_kept(payments, payments') /\ transfers_kept(refunds, refunds')
<1> SUFFICES ASSUME NextForAnyParty
             PROVE  transfers_kept(payments, payments') /\ transfers_kept(refunds, refunds')
  OBVIOUS
<1>1. CreateForAnyParty \/ SendInvoice \/ VoidInvoice \/ SetPartyActive =>
          payments' = payments /\ refunds' = refunds
  <2>1. CreateForAnyParty => payments' = payments /\ refunds' = refunds
    BY DEF CreateForAnyParty, create_for_any_party
  <2>2. SendInvoice => payments' = payments /\ refunds' = refunds
    BY DEF SendInvoice, send_invoice, send_credit_note
  <2> QED BY <2>1, <2>2 DEF VoidInvoice, void_invoice, SetPartyActive, set_party_active
<1>2. \/ payments' = payments
      \/ \E x, row : x \notin DOMAIN payments /\ payments' = Insert(payments, x, row)
      \/ \E x \in DOMAIN payments : payments' = soft_cancel_by_id(payments, x)
  BY <1>1 DEF NextForAnyParty, RecordPayment, record_payment, CancelPayment,
              cancel_payment, RecordRefund, record_refund, CancelRefund, cancel_refund
<1>3. \/ refunds' = refunds
      \/ \E x, row : x \notin DOMAIN refunds /\ refunds' = Insert(refunds, x, row)
      \/ \E x \in DOMAIN refunds : refunds' = soft_cancel_by_id(refunds, x)
  BY <1>1 DEF NextForAnyParty, RecordPayment, record_payment, CancelPayment,
              cancel_payment, RecordRefund, record_refund, CancelRefund, cancel_refund
<1> QED BY <1>2, <1>3, RowsKept

(***************************************************************************)
(* A credit, once applied to an invoice, is never taken back, also not by  *)
(* the recomputations of cancel_payment and cancel_refund.                 *)
(***************************************************************************)
THEOREM CreditsKept == Spec => CreditsArePermanent
BY InvoicesKept, Invariance, AnyParty, PTL DEF Spec, CreditsArePermanent

(***************************************************************************)
(* Nothing submitted is edited or deleted, nothing void or cancelled comes *)
(* back.                                                                   *)
(***************************************************************************)
THEOREM DocumentsKept == Spec => DocumentsPermanent
BY InvoicesKept, TransfersKept, Invariance, AnyParty, PTL DEF Spec, DocumentsPermanent

-----------------------------------------------------------------------------
(* No two credit notes of one amount against one original. *)

LEMMA TwinsStep == IInv /\ NoTwinCreditNotes /\ [NextForAnyParty]_vars => NoTwinCreditNotes'
<1> SUFFICES ASSUME IInv, NoTwinCreditNotes, [NextForAnyParty]_vars PROVE NoTwinCreditNotes'
  OBVIOUS
<1>1. CASE CreateForAnyParty
  <2>1. PICK i \in InvoiceIds, type \in InvoiceTypes, party \in Parties,
             o \in InvoiceIds \cup {NoInvoice}, total \in Totals, fy \in FinancialYears :
           create_for_any_party(i, type, party, o, total, fy)
    BY <1>1 DEF CreateForAnyParty
  <2>2. /\ i \notin DOMAIN invoices
        /\ DOMAIN invoices' = DOMAIN invoices \cup {i}
        /\ \A j \in DOMAIN invoices : invoices'[j] = invoices[j]
        /\ invoices'[i].invoice_type = type
        /\ invoices'[i].original = o
        /\ invoices'[i].total_amount = total
    BY <2>1 DEF create_for_any_party, Insert
  <2>3. \A c \in DOMAIN invoices : ~receivable(invoices[c]) =>
            invoices[c].invoice_status \in {"draft", "sent"}
    BY DEF IInv, StatusMatchesLedger, status_matches
  <2>4. ASSUME NEW c \in DOMAIN invoices, type = "credit_note",
               ~receivable(invoices[c]), invoices[c].original = o
        PROVE  invoices[c].total_amount # total
    <3>1. get_active_credit_note_for_original(o, total) = {}
      BY <2>1, <2>4 DEF create_for_any_party, credit_note_accepted
    <3> QED BY <2>3, <2>4, <3>1
            DEF get_active_credit_note_for_original, notes_against, receivable,
                InvoiceStatuses
  <2> QED BY <2>2, <2>4 DEF NoTwinCreditNotes, receivable
<1>2. CASE NextForAnyParty /\ ~CreateForAnyParty
  <2>1. invoices_kept /\ DOMAIN invoices' = DOMAIN invoices
    <3>1. DOMAIN invoices' = DOMAIN invoices
      BY <1>2 DEF NextForAnyParty, SendInvoice, send_invoice, send_credit_note, submit,
             update_ledger_state, VoidInvoice, void_invoice, RecordPayment,
             record_payment, CancelPayment, cancel_payment, RecordRefund, record_refund,
             CancelRefund, cancel_refund, SetPartyActive, set_party_active
    <3> QED BY <1>2, <3>1, InvoicesKept
  <2>2. \A j \in DOMAIN invoices :
           /\ invoices'[j].invoice_type = invoices[j].invoice_type
           /\ invoices'[j].original = invoices[j].original
           /\ invoices'[j].total_amount = invoices[j].total_amount
    BY <2>1 DEF invoices_kept, same_document
  <2> QED BY <2>1, <2>2 DEF NoTwinCreditNotes, receivable
<1>3. CASE UNCHANGED vars
  BY <1>3 DEF vars, NoTwinCreditNotes
<1> QED BY <1>1, <1>2, <1>3

(***************************************************************************)
(* The hard block holds for ever, not only when a note is created: no step *)
(* leads to two credit notes of one amount against one original.           *)
(***************************************************************************)
THEOREM TwinsImpossible == Spec => []NoTwinCreditNotes
<1>1. Init => NoTwinCreditNotes
  BY DEF Init, NoTwinCreditNotes
<1> QED BY <1>1, TwinsStep, Invariance, AnyParty, PTL DEF Spec

-----------------------------------------------------------------------------
(* The numbers of a series have no gap and no reuse. *)

\* Each of 1..n is the number of exactly one of the documents D.
gapless(D, n) ==
    /\ IsFiniteSet(D)
    /\ {d[2] : d \in D} = 1..n
    /\ Cardinality(D) = n

SeriesGapless ==
    \A fy \in FinancialYears, type \in DocumentTypes :
        gapless(documents(fy, type), sequences[<<fy, type>>])

\* What `documents' is after the step.
documents_after(fy, type) ==
    IF type = "payment"
    THEN {<<p, payments'[p].number>> :
             p \in {q \in DOMAIN payments' :
                       invoices'[payments'[q].invoice].financial_year = fy}}
    ELSE IF type = "refund"
    THEN {<<r, refunds'[r].number>> :
             r \in {q \in DOMAIN refunds' :
                       invoices'[refunds'[q].invoice].financial_year = fy}}
    ELSE {<<i, invoices'[i].number>> :
             i \in {j \in DOMAIN invoices' : /\ invoices'[j].invoice_type = type
                                             /\ invoices'[j].financial_year = fy}}

LEMMA SeriesAfter ==
    SeriesGapless' <=> \A fy \in FinancialYears, type \in DocumentTypes :
                          gapless(documents_after(fy, type), sequences'[<<fy, type>>])
BY DEF SeriesGapless, documents, documents_after

\* A document that takes the next number.
LEMMA NextNumber ==
    ASSUME NEW D, NEW n \in Nat, gapless(D, n), NEW x
    PROVE  gapless(D \cup {<<x, n + 1>>}, n + 1)
<1> DEFINE d == <<x, n + 1>>
           E == D \cup {d}
<1>1. d \notin D
  <2>1. SUFFICES ASSUME d \in D PROVE FALSE
    OBVIOUS
  <2>2. d[2] \in 1..n
    BY <2>1 DEF gapless
  <2> QED BY <2>2
<1>2. IsFiniteSet(E) /\ Cardinality(E) = n + 1
  BY <1>1, FS_AddElement DEF gapless
<1>3. {e[2] : e \in E} = 1..(n + 1)
  <2>1. {e[2] : e \in E} = {e[2] : e \in D} \cup {d[2]}
    OBVIOUS
  <2>2. d[2] = n + 1
    OBVIOUS
  <2>3. 1..(n + 1) = 1..n \cup {n + 1}
    OBVIOUS
  <2> QED BY <2>1, <2>2, <2>3 DEF gapless
<1> QED BY <1>2, <1>3 DEF gapless

\* What the number of a document depends on, unchanged in the rows there were.
numbers_kept ==
    /\ \A i \in DOMAIN invoices :
          /\ i \in DOMAIN invoices'
          /\ invoices'[i].invoice_type = invoices[i].invoice_type
          /\ invoices'[i].financial_year = invoices[i].financial_year
          /\ invoices'[i].number = invoices[i].number
    /\ \A p \in DOMAIN payments :
          /\ p \in DOMAIN payments'
          /\ payments'[p].invoice = payments[p].invoice
          /\ payments'[p].number = payments[p].number
    /\ \A r \in DOMAIN refunds :
          /\ r \in DOMAIN refunds'
          /\ refunds'[r].invoice = refunds[r].invoice
          /\ refunds'[r].number = refunds[r].number

LEMMA NumbersKept == IInv /\ NextForAnyParty => numbers_kept
<1> SUFFICES ASSUME IInv, NextForAnyParty PROVE numbers_kept
  OBVIOUS
<1>1. \A i \in DOMAIN invoices :
         /\ i \in DOMAIN invoices'
         /\ invoices'[i].invoice_type = invoices[i].invoice_type
         /\ invoices'[i].financial_year = invoices[i].financial_year
         /\ invoices'[i].number = invoices[i].number
  BY InvoicesKept DEF invoices_kept, same_document
<1>2. ASSUME NEW old, NEW new, transfers_kept(old, new), NEW x \in DOMAIN old,
             "status" \in DOMAIN old[x], "invoice" \in DOMAIN old[x],
             "number" \in DOMAIN old[x]
      PROVE  /\ x \in DOMAIN new
             /\ new[x].invoice = old[x].invoice
             /\ new[x].number = old[x].number
  BY <1>2 DEF transfers_kept, same_transfer
<1>3. /\ \A p \in DOMAIN payments :
            {"status", "invoice", "number"} \subseteq DOMAIN payments[p]
      /\ \A r \in DOMAIN refunds :
            {"status", "invoice", "number"} \subseteq DOMAIN refunds[r]
  BY DEF IInv, TypeOK, PaymentRow, RefundRow
<1> QED BY <1>1, <1>2, <1>3, TransfersKept DEF numbers_kept

LEMMA InvoiceDocuments ==
    ASSUME TypeOK, numbers_kept, NEW fy, NEW type \in InvoiceTypes
    PROVE  /\ DOMAIN invoices' = DOMAIN invoices =>
                documents_after(fy, type) = documents(fy, type)
           /\ \A i : DOMAIN invoices' = DOMAIN invoices \cup {i} =>
                documents_after(fy, type) =
                    IF invoices'[i].invoice_type = type /\ invoices'[i].financial_year = fy
                    THEN documents(fy, type) \cup {<<i, invoices'[i].number>>}
                    ELSE documents(fy, type)
<1>1. type # "payment" /\ type # "refund"
  BY DEF InvoiceTypes
<1>2. /\ documents(fy, type) =
            {<<j, invoices[j].number>> : j \in {k \in DOMAIN invoices :
                invoices[k].invoice_type = type /\ invoices[k].financial_year = fy}}
      /\ documents_after(fy, type) =
            {<<j, invoices'[j].number>> : j \in {k \in DOMAIN invoices' :
                invoices'[k].invoice_type = type /\ invoices'[k].financial_year = fy}}
  BY <1>1 DEF documents, documents_after
<1>3. \A j \in DOMAIN invoices :
         /\ invoices'[j].invoice_type = invoices[j].invoice_type
         /\ invoices'[j].financial_year = invoices[j].financial_year
         /\ invoices'[j].number = invoices[j].number
  BY DEF numbers_kept
<1> QED BY <1>2, <1>3

LEMMA PaymentDocuments ==
    ASSUME TypeOK, numbers_kept, NEW fy
    PROVE  /\ DOMAIN payments' = DOMAIN payments =>
                documents_after(fy, "payment") = documents(fy, "payment")
           /\ \A p : DOMAIN payments' = DOMAIN payments \cup {p} =>
                documents_after(fy, "payment") =
                    IF invoices'[payments'[p].invoice].financial_year = fy
                    THEN documents(fy, "payment") \cup {<<p, payments'[p].number>>}
                    ELSE documents(fy, "payment")
BY DEF numbers_kept, documents, documents_after, TypeOK

LEMMA RefundDocuments ==
    ASSUME TypeOK, numbers_kept, NEW fy
    PROVE  /\ DOMAIN refunds' = DOMAIN refunds =>
                documents_after(fy, "refund") = documents(fy, "refund")
           /\ \A r : DOMAIN refunds' = DOMAIN refunds \cup {r} =>
                documents_after(fy, "refund") =
                    IF invoices'[refunds'[r].invoice].financial_year = fy
                    THEN documents(fy, "refund") \cup {<<r, refunds'[r].number>>}
                    ELSE documents(fy, "refund")
BY DEF numbers_kept, documents, documents_after, TypeOK

\* A step that inserts no row and leaves the counters alone.
LEMMA NoNumberTaken ==
    ASSUME TypeOK, numbers_kept, SeriesGapless, UNCHANGED sequences,
           DOMAIN invoices' = DOMAIN invoices,
           DOMAIN payments' = DOMAIN payments,
           DOMAIN refunds' = DOMAIN refunds
    PROVE  SeriesGapless'
<1>1. ASSUME NEW fy, NEW type \in DocumentTypes
      PROVE  documents_after(fy, type) = documents(fy, type)
  <2>1. CASE type = "payment"
    BY <2>1, PaymentDocuments
  <2>2. CASE type = "refund"
    BY <2>2, RefundDocuments
  <2>3. CASE type \in InvoiceTypes
    BY <2>3, InvoiceDocuments
  <2> QED BY <2>1, <2>2, <2>3 DEF DocumentTypes, InvoiceTypes
<1> QED BY <1>1, SeriesAfter DEF SeriesGapless

\* The document x joins a series with the next number of it.
number_taken(fy, type, x) ==
    \A fy2 \in FinancialYears, type2 \in DocumentTypes :
        documents_after(fy2, type2) =
            IF fy2 = fy /\ type2 = type
            THEN documents(fy, type) \cup {<<x, next_number(fy, type)>>}
            ELSE documents(fy2, type2)

\* A step that gives one new document the next number of its series.
LEMMA NumberTaken ==
    ASSUME TypeOK, SeriesGapless, NEW fy \in FinancialYears, NEW type \in DocumentTypes,
           NEW x, get_next_invoice_number(fy, type), number_taken(fy, type, x)
    PROVE  SeriesGapless'
<1>1. /\ sequences[<<fy, type>>] \in Nat
      /\ sequences'[<<fy, type>>] = sequences[<<fy, type>>] + 1
      /\ \A fy2 \in FinancialYears, type2 \in DocumentTypes :
            ~(fy2 = fy /\ type2 = type) =>
                sequences'[<<fy2, type2>>] = sequences[<<fy2, type2>>]
  BY DEF TypeOK, get_next_invoice_number, next_number
<1>2. gapless(documents_after(fy, type), sequences'[<<fy, type>>])
  <2>1. gapless(documents(fy, type), sequences[<<fy, type>>])
    BY DEF SeriesGapless
  <2>2. documents_after(fy, type) =
          documents(fy, type) \cup {<<x, sequences[<<fy, type>>] + 1>>}
    BY DEF next_number, number_taken
  <2> DEFINE D == documents(fy, type)
             n == sequences[<<fy, type>>]
  <2> HIDE DEF D, n
  <2>3. gapless(D \cup {<<x, n + 1>>}, n + 1)
    BY <1>1, <2>1, NextNumber DEF D, n
  <2> QED BY <1>1, <2>2, <2>3 DEF D, n
<1>3. ASSUME NEW fy2 \in FinancialYears, NEW type2 \in DocumentTypes,
             ~(fy2 = fy /\ type2 = type)
      PROVE  gapless(documents_after(fy2, type2), sequences'[<<fy2, type2>>])
  BY <1>1, <1>3 DEF SeriesGapless, number_taken
<1> QED BY <1>2, <1>3, SeriesAfter

LEMMA GaplessStep == IInv /\ SeriesGapless /\ [NextForAnyParty]_vars => SeriesGapless'
<1> SUFFICES ASSUME IInv, SeriesGapless, [NextForAnyParty]_vars PROVE SeriesGapless'
  OBVIOUS
<1>1. TypeOK
  BY DEF IInv
<1>2. NextForAnyParty => numbers_kept
  BY NumbersKept
<1>3. /\ InvoiceTypes \subseteq DocumentTypes
      /\ \A type \in DocumentTypes :
            type \in InvoiceTypes \/ type = "payment" \/ type = "refund"
      /\ "payment" \in DocumentTypes /\ "refund" \in DocumentTypes
      /\ "payment" \notin InvoiceTypes /\ "refund" \notin InvoiceTypes
  BY DEF InvoiceTypes, DocumentTypes
<1>4. CASE CreateForAnyParty
  <2>1. PICK i \in InvoiceIds, type \in InvoiceTypes, fy \in FinancialYears :
           /\ i \notin DOMAIN invoices
           /\ DOMAIN invoices' = DOMAIN invoices \cup {i}
           /\ invoices'[i].invoice_type = type
           /\ invoices'[i].financial_year = fy
           /\ invoices'[i].number = next_number(fy, type)
           /\ get_next_invoice_number(fy, type)
           /\ payments' = payments /\ refunds' = refunds
    BY <1>4 DEF CreateForAnyParty, create_for_any_party, Insert
  <2>2. numbers_kept
    BY <1>2, <1>4 DEF NextForAnyParty
  <2>3. ASSUME NEW fy2 \in FinancialYears, NEW type2 \in InvoiceTypes
        PROVE  documents_after(fy2, type2) =
                    IF fy2 = fy /\ type2 = type
                    THEN documents(fy, type) \cup {<<i, next_number(fy, type)>>}
                    ELSE documents(fy2, type2)
    BY <1>1, <2>1, <2>2, InvoiceDocuments
  <2>4. ASSUME NEW fy2 \in FinancialYears
        PROVE  /\ documents_after(fy2, "payment") = documents(fy2, "payment")
               /\ documents_after(fy2, "refund") = documents(fy2, "refund")
    BY <1>1, <2>1, <2>2, PaymentDocuments, RefundDocuments
  <2>5. number_taken(fy, type, i)
    BY <1>3, <2>3, <2>4 DEF number_taken
  <2> QED BY <1>1, <1>3, <2>1, <2>5, NumberTaken
<1>5. CASE RecordPayment
  <2>1. PICK p \in PaymentIds, i \in DOMAIN invoices, fy \in FinancialYears :
           /\ fy = invoices[i].financial_year
           /\ p \notin DOMAIN payments
           /\ DOMAIN payments' = DOMAIN payments \cup {p}
           /\ payments'[p].invoice = i
           /\ payments'[p].number = next_number(fy, "payment")
           /\ get_next_invoice_number(fy, "payment")
           /\ DOMAIN invoices' = DOMAIN invoices /\ refunds' = refunds
    BY <1>1, <1>5 DEF RecordPayment, record_payment, record_payment_accepted, Insert,
                      update_ledger_state, TypeOK, InvoiceRow
  <2>2. numbers_kept
    BY <1>2, <1>5 DEF NextForAnyParty
  <2>3. invoices'[i].financial_year = fy
    BY <2>1, <2>2 DEF numbers_kept
  <2>4. ASSUME NEW fy2 \in FinancialYears
        PROVE  documents_after(fy2, "payment") =
                    IF fy2 = fy
                    THEN documents(fy, "payment") \cup {<<p, next_number(fy, "payment")>>}
                    ELSE documents(fy2, "payment")
    BY <1>1, <2>1, <2>2, <2>3, PaymentDocuments
  <2>5. ASSUME NEW fy2 \in FinancialYears, NEW type2 \in InvoiceTypes \cup {"refund"}
        PROVE  documents_after(fy2, type2) = documents(fy2, type2)
    BY <1>1, <2>1, <2>2, InvoiceDocuments, RefundDocuments
  <2>6. ASSUME NEW fy2 \in FinancialYears, NEW type2 \in DocumentTypes
        PROVE  documents_after(fy2, type2) =
                    IF fy2 = fy /\ type2 = "payment"
                    THEN documents(fy, "payment") \cup {<<p, next_number(fy, "payment")>>}
                    ELSE documents(fy2, type2)
    <3>1. CASE type2 = "payment"
      BY <2>4, <3>1
    <3>2. CASE type2 # "payment"
      BY <1>3, <2>5, <3>2
    <3> QED BY <3>1, <3>2
  <2>7. number_taken(fy, "payment", p)
    BY <2>6 DEF number_taken
  <2> QED BY <1>1, <1>3, <2>1, <2>7, NumberTaken
<1>6. CASE RecordRefund
  <2>1. PICK r \in RefundIds, i \in DOMAIN invoices, fy \in FinancialYears :
           /\ fy = invoices[i].financial_year
           /\ r \notin DOMAIN refunds
           /\ DOMAIN refunds' = DOMAIN refunds \cup {r}
           /\ refunds'[r].invoice = i
           /\ refunds'[r].number = next_number(fy, "refund")
           /\ get_next_invoice_number(fy, "refund")
           /\ DOMAIN invoices' = DOMAIN invoices /\ payments' = payments
    BY <1>1, <1>6 DEF RecordRefund, record_refund, Insert, update_ledger_state, TypeOK,
                      InvoiceRow
  <2>2. numbers_kept
    BY <1>2, <1>6 DEF NextForAnyParty
  <2>3. invoices'[i].financial_year = fy
    BY <2>1, <2>2 DEF numbers_kept
  <2>4. ASSUME NEW fy2 \in FinancialYears
        PROVE  documents_after(fy2, "refund") =
                    IF fy2 = fy
                    THEN documents(fy, "refund") \cup {<<r, next_number(fy, "refund")>>}
                    ELSE documents(fy2, "refund")
    BY <1>1, <2>1, <2>2, <2>3, RefundDocuments
  <2>5. ASSUME NEW fy2 \in FinancialYears, NEW type2 \in InvoiceTypes \cup {"payment"}
        PROVE  documents_after(fy2, type2) = documents(fy2, type2)
    BY <1>1, <2>1, <2>2, InvoiceDocuments, PaymentDocuments
  <2>6. ASSUME NEW fy2 \in FinancialYears, NEW type2 \in DocumentTypes
        PROVE  documents_after(fy2, type2) =
                    IF fy2 = fy /\ type2 = "refund"
                    THEN documents(fy, "refund") \cup {<<r, next_number(fy, "refund")>>}
                    ELSE documents(fy2, type2)
    <3>1. CASE type2 = "refund"
      BY <2>4, <3>1
    <3>2. CASE type2 # "refund"
      BY <1>3, <2>5, <3>2
    <3> QED BY <3>1, <3>2
  <2>7. number_taken(fy, "refund", r)
    BY <2>6 DEF number_taken
  <2> QED BY <1>1, <1>3, <2>1, <2>7, NumberTaken
<1>7. CASE SendInvoice \/ VoidInvoice \/ CancelPayment \/ CancelRefund \/ SetPartyActive
  <2>1. /\ DOMAIN invoices' = DOMAIN invoices
        /\ DOMAIN payments' = DOMAIN payments
        /\ DOMAIN refunds' = DOMAIN refunds
        /\ UNCHANGED sequences
    BY <1>7 DEF SendInvoice, send_invoice, send_credit_note, submit, update_ledger_state,
                VoidInvoice, void_invoice, CancelPayment, cancel_payment, CancelRefund,
                cancel_refund, soft_cancel_by_id, SetPartyActive, set_party_active
  <2> QED BY <1>1, <1>2, <1>7, <2>1, NoNumberTaken DEF NextForAnyParty
<1>8. CASE UNCHANGED vars
  BY <1>8 DEF vars, SeriesGapless, documents
<1> QED BY <1>4, <1>5, <1>6, <1>7, <1>8 DEF NextForAnyParty

LEMMA InitGapless == Init => SeriesGapless
<1> SUFFICES ASSUME Init, NEW fy \in FinancialYears, NEW type \in DocumentTypes
             PROVE  gapless(documents(fy, type), sequences[<<fy, type>>])
  BY DEF SeriesGapless
<1>1. documents(fy, type) = {} /\ sequences[<<fy, type>>] = 0
  BY DEF Init, documents
<1> QED BY <1>1, FS_EmptySet DEF gapless

LEMMA GaplessIsCounted == SeriesGapless => NumbersGapless
BY DEF SeriesGapless, gapless, NumbersGapless, documents

(***************************************************************************)
(* The numbers of each series are 1, 2, 3, ..., each on one document,      *)
(* whatever was cancelled or voided.                                       *)
(***************************************************************************)
THEOREM NumbersWithoutGap == Spec => []NumbersGapless
BY InitGapless, GaplessIsCounted, GaplessStep, Invariance, AnyParty, PTL DEF Spec

-----------------------------------------------------------------------------
(* Seen through its receivables, the core makes the moves of Receivables.  *)

\* The book Receivables is given, and what it is after the step.
the_book == [i \in accounts |-> account(invoices[i])]
accounts_after == {i \in DOMAIN invoices' : receivable(invoices'[i])}
book_after == [i \in accounts_after |-> account(invoices'[i])]

\* An issued account with these amounts.
issued_account(total, collected, credited, returned) ==
    [total |-> total, collected |-> collected, credited |-> credited,
     returned |-> returned, stage |-> "issued"]

LEMMA AccountMoves ==
    ASSUME NEW i, NEW paid, NEW credited, NEW refunded, moves(i, paid, credited, refunded)
    PROVE  /\ i \in accounts
           /\ account(invoices[i]) = issued_account(invoices[i].total_amount,
                  invoices[i].paid_amount, invoices[i].credited_amount,
                  invoices[i].refunded_amount)
           /\ book_after = [the_book EXCEPT ![i] =
                  issued_account(invoices[i].total_amount, paid, credited, refunded)]
<1>1. /\ i \in accounts /\ live(invoices[i])
      /\ accounts_after = accounts
      /\ \A j \in DOMAIN invoices \ {i} : invoices'[j] = invoices[j]
      /\ live(invoices'[i])
  BY DEF moves, bears_money, same_header, receivable, accounts, accounts_after
<1>2. account(invoices'[i]) =
          issued_account(invoices[i].total_amount, paid, credited, refunded)
  BY <1>1 DEF moves, same_header, account, stage, issued_account
<1>3. \A j \in accounts \ {i} : account(invoices'[j]) = account(invoices[j])
  BY <1>1 DEF accounts
<1>4. book_after = [the_book EXCEPT ![i] =
          issued_account(invoices[i].total_amount, paid, credited, refunded)]
  BY <1>1, <1>2, <1>3 DEF the_book, book_after
<1>5. account(invoices[i]) = issued_account(invoices[i].total_amount,
          invoices[i].paid_amount, invoices[i].credited_amount, invoices[i].refunded_amount)
  BY <1>1 DEF account, stage, issued_account
<1> QED BY <1>1, <1>4, <1>5

LEMMA AccountRestated ==
    ASSUME NEW i, NEW status, restates(i, status), receivable(invoices[i])
    PROVE  /\ i \in accounts
           /\ book_after = [the_book EXCEPT ![i].stage =
                  IF status \in {"sent", "partial", "paid"} THEN "issued" ELSE status]
<1>1. /\ i \in accounts
      /\ accounts_after = accounts
      /\ \A j \in DOMAIN invoices \ {i} : invoices'[j] = invoices[j]
  BY DEF restates, same_header, receivable, accounts, accounts_after
<1>2. account(invoices'[i]) = [account(invoices[i]) EXCEPT !.stage =
          IF status \in {"sent", "partial", "paid"} THEN "issued" ELSE status]
  BY DEF restates, same_header, account, stage, live
<1>3. \A j \in accounts \ {i} : account(invoices'[j]) = account(invoices[j])
  BY <1>1 DEF accounts
<1> QED BY <1>1, <1>2, <1>3 DEF the_book, book_after

LEMMA OpenRefines ==
    IInv /\ CreateForAnyParty => Ledger!Next \/ book_after = the_book
<1> SUFFICES ASSUME IInv, CreateForAnyParty PROVE Ledger!Next \/ book_after = the_book
  OBVIOUS
<1>1. PICK i \in InvoiceIds, type \in InvoiceTypes, total \in Totals :
         /\ i \notin DOMAIN invoices
         /\ DOMAIN invoices' = DOMAIN invoices \cup {i}
         /\ \A j \in DOMAIN invoices : invoices'[j] = invoices[j]
         /\ invoices'[i].invoice_type = type
         /\ account(invoices'[i]) = [total |-> total, collected |-> 0, credited |-> 0,
                                     returned |-> 0, stage |-> "draft"]
  BY DEF CreateForAnyParty, create_for_any_party, Insert, account, stage, live
<1>2. CASE type = "credit_note"
  <2>1. accounts_after = accounts
    BY <1>1, <1>2 DEF accounts, accounts_after, receivable
  <2> QED BY <1>1, <2>1 DEF the_book, book_after, accounts
<1>3. CASE type # "credit_note"
  <2>1. i \notin accounts /\ accounts_after = accounts \cup {i}
    BY <1>1, <1>3 DEF accounts, accounts_after, receivable
  <2>2. book_after = [x \in accounts \cup {i} |->
            IF x = i THEN [total |-> total, collected |-> 0, credited |-> 0,
                           returned |-> 0, stage |-> "draft"]
            ELSE the_book[x]]
    BY <1>1, <2>1 DEF the_book, book_after, accounts
  <2>3. Ledger!Open(i, total)
    BY <2>1, <2>2 DEF Ledger!Open, the_book, book_after, accounts, accounts_after
  <2> QED BY <2>3 DEF Ledger!Next
<1> QED BY <1>2, <1>3

\* One lemma for the four handlers that move money: the account they move
\* is issued, and these are its amounts before and after.
LEMMA MoneyRefines ==
    ASSUME IInv, NEW i \in InvoiceIds, NEW paid, NEW credited, NEW refunded,
           moves(i, paid, credited, refunded),
           NEW amount \in Nat \ {0},
           LET inv == invoices[i] IN
           \/ /\ amount <= larger(balance(inv.total_amount, inv.paid_amount,
                                          inv.credited_amount, inv.refunded_amount), 0)
              /\ paid = inv.paid_amount + amount
              /\ credited = inv.credited_amount /\ refunded = inv.refunded_amount
           \/ /\ amount <= inv.paid_amount - inv.refunded_amount
              /\ paid = inv.paid_amount - amount
              /\ credited = inv.credited_amount /\ refunded = inv.refunded_amount
           \/ /\ amount <= larger(-balance(inv.total_amount, inv.paid_amount,
                                           inv.credited_amount, inv.refunded_amount), 0)
              /\ refunded = inv.refunded_amount + amount
              /\ paid = inv.paid_amount /\ credited = inv.credited_amount
           \/ /\ amount <= inv.refunded_amount
              /\ refunded = inv.refunded_amount - amount
              /\ paid = inv.paid_amount /\ credited = inv.credited_amount
    PROVE  Ledger!Next
<1> DEFINE total == invoices[i].total_amount
           collected == invoices[i].paid_amount
           credits == invoices[i].credited_amount
           returned == invoices[i].refunded_amount
<1>1. /\ total \in Nat /\ collected \in Nat /\ credits \in Nat /\ returned \in Nat
  <2>1. i \in DOMAIN invoices
    BY DEF moves
  <2> QED BY <2>1, Columns DEF IInv
<1>2. /\ i \in DOMAIN the_book
      /\ the_book[i] = issued_account(total, collected, credits, returned)
      /\ book_after = [the_book EXCEPT ![i] =
                          issued_account(total, paid, credited, refunded)]
  BY AccountMoves DEF the_book
<1> HIDE DEF total, collected, credits, returned
<1>3. Ledger!issued(i)
  BY <1>2 DEF Ledger!issued, the_book, issued_account
<1>4. CASE /\ amount <= larger(balance(total, collected, credits, returned), 0)
           /\ paid = collected + amount /\ credited = credits /\ refunded = returned
  <2>1. amount \in 1..Ledger!owed(the_book[i])
    BY <1>1, <1>2, <1>4 DEF Ledger!owed, Ledger!larger, larger, balance, issued_account
  <2>2. book_after = [the_book EXCEPT ![i].collected = @ + amount]
    <3>1. [the_book[i] EXCEPT !.collected = @ + amount] =
              issued_account(total, paid, credited, refunded)
      BY <1>2, <1>4 DEF issued_account
    <3> QED BY <1>2, <3>1
  <2> QED BY <1>3, <2>1, <2>2
          DEF Ledger!Collect, Ledger!Next, the_book, book_after, accounts, accounts_after
<1>5. CASE /\ amount <= collected - returned
           /\ paid = collected - amount /\ credited = credits /\ refunded = returned
  <2>1. amount \in 1..(the_book[i].collected - the_book[i].returned)
    BY <1>1, <1>2, <1>5 DEF issued_account
  <2>2. book_after = [the_book EXCEPT ![i].collected = @ - amount]
    <3>1. [the_book[i] EXCEPT !.collected = @ - amount] =
              issued_account(total, paid, credited, refunded)
      BY <1>2, <1>5 DEF issued_account
    <3> QED BY <1>2, <3>1
  <2> QED BY <1>3, <2>1, <2>2
          DEF Ledger!Reverse, Ledger!Next, the_book, book_after, accounts, accounts_after
<1>6. CASE /\ amount <= larger(-balance(total, collected, credits, returned), 0)
           /\ refunded = returned + amount /\ paid = collected /\ credited = credits
  <2>1. amount \in 1..Ledger!due(the_book[i])
    BY <1>1, <1>2, <1>6 DEF Ledger!due, Ledger!larger, larger, balance, issued_account
  <2>2. book_after = [the_book EXCEPT ![i].returned = @ + amount]
    <3>1. [the_book[i] EXCEPT !.returned = @ + amount] =
              issued_account(total, paid, credited, refunded)
      BY <1>2, <1>6 DEF issued_account
    <3> QED BY <1>2, <3>1
  <2> QED BY <1>3, <2>1, <2>2
          DEF Ledger!Return, Ledger!Next, the_book, book_after, accounts, accounts_after
<1>7. CASE /\ amount <= returned
           /\ refunded = returned - amount /\ paid = collected /\ credited = credits
  <2>1. amount \in 1..the_book[i].returned
    BY <1>1, <1>2, <1>7 DEF issued_account
  <2>2. book_after = [the_book EXCEPT ![i].returned = @ - amount]
    <3>1. [the_book[i] EXCEPT !.returned = @ - amount] =
              issued_account(total, paid, credited, refunded)
      BY <1>2, <1>7 DEF issued_account
    <3> QED BY <1>2, <3>1
  <2> QED BY <1>3, <2>1, <2>2
          DEF Ledger!Restore, Ledger!Next, the_book, book_after, accounts, accounts_after
<1> QED BY <1>4, <1>5, <1>6, <1>7 DEF total, collected, credits, returned

LEMMA CreditRefines ==
    ASSUME IInv, NEW c \in InvoiceIds, send_credit_note(c)
    PROVE  Ledger!Next
<1> DEFINE o == invoices[c].original
           amount == invoices[c].total_amount
           orig == invoices[o]
<1>1. /\ c \in DOMAIN invoices /\ o \in DOMAIN invoices \ {c} /\ ~receivable(invoices[c])
      /\ bears_money(orig)
      /\ amount \in Nat \ {0}
      /\ amount <= orig.total_amount - orig.credited_amount
      /\ DOMAIN invoices' = DOMAIN invoices
      /\ \A j \in DOMAIN invoices \ {c, o} : invoices'[j] = invoices[j]
      /\ same_header(invoices[c], invoices'[c])
      /\ same_header(orig, invoices'[o])
      /\ live(invoices'[o])
      /\ invoices'[o].paid_amount = orig.paid_amount
      /\ invoices'[o].credited_amount = orig.credited_amount + amount
      /\ invoices'[o].refunded_amount = orig.refunded_amount
  BY SendCreditNoteMoves
<1>2. /\ o \in InvoiceIds /\ orig.total_amount \in Nat /\ orig.credited_amount \in Nat
  BY <1>1, Columns DEF IInv, TypeOK
<1> HIDE DEF o, amount
<1>3. o \in accounts /\ accounts_after = accounts /\ c \notin accounts
  BY <1>1 DEF accounts, accounts_after, receivable, same_header, bears_money
<1>4. /\ account(orig) = issued_account(orig.total_amount, orig.paid_amount,
             orig.credited_amount, orig.refunded_amount)
      /\ account(invoices'[o]) = issued_account(orig.total_amount, orig.paid_amount,
             orig.credited_amount + amount, orig.refunded_amount)
  BY <1>1 DEF account, stage, issued_account, bears_money, same_header
<1>5. \A j \in accounts \ {o} : account(invoices'[j]) = account(invoices[j])
  BY <1>1, <1>3 DEF accounts
<1>6. book_after = [the_book EXCEPT ![o].credited = @ + amount]
  <2>1. account(invoices'[o]) = [account(orig) EXCEPT !.credited = @ + amount]
    BY <1>4 DEF issued_account
  <2> QED BY <1>3, <1>5, <2>1 DEF the_book, book_after
<1>7. /\ the_book[o] = account(orig) /\ DOMAIN the_book = accounts
      /\ the_book[o].stage = "issued"
      /\ amount \in 1..(the_book[o].total - the_book[o].credited)
  BY <1>1, <1>2, <1>3, <1>4 DEF the_book, issued_account
<1>8. Ledger!issued(o)
  BY <1>3, <1>7 DEF Ledger!issued, the_book
<1> QED BY <1>2, <1>6, <1>7, <1>8
        DEF Ledger!Credit, Ledger!Next, the_book, book_after, accounts, accounts_after

\* Every step of the core is a move of Receivables, or changes no account.
LEMMA RefinesStep == IInv /\ [NextForAnyParty]_vars => Ledger!Next \/ book_after = the_book
<1> SUFFICES ASSUME IInv, [NextForAnyParty]_vars PROVE Ledger!Next \/ book_after = the_book
  OBVIOUS
<1>1. DOMAIN invoices \subseteq InvoiceIds
  BY DEF IInv, TypeOK
<1>2. CASE UNCHANGED invoices
  BY <1>2 DEF the_book, book_after, accounts, accounts_after
<1>3. CASE CreateForAnyParty
  BY <1>3, OpenRefines
<1>4. ASSUME NEW i \in InvoiceIds, send_invoice(i) PROVE Ledger!Next
  <2>1. /\ i \in accounts /\ the_book[i].stage = "draft"
        /\ book_after = [the_book EXCEPT ![i].stage = "issued"]
    BY <1>4, SendInvoiceRestates, AccountRestated DEF the_book, account, stage, live
  <2> QED BY <2>1
          DEF Ledger!Issue, Ledger!Next, the_book, book_after, accounts, accounts_after
<1>5. ASSUME NEW i \in InvoiceIds, void_invoice(i) PROVE Ledger!Next
  <2>1. /\ restates(i, "void") /\ receivable(invoices[i])
        /\ invoices[i].invoice_status = "sent"
        /\ invoices[i].paid_amount = 0 /\ invoices[i].credited_amount = 0
        /\ invoices[i].refunded_amount = 0
    BY <1>5, VoidInvoiceRestates
  <2>2. /\ i \in accounts
        /\ book_after = [the_book EXCEPT ![i].stage = "void"]
    BY <2>1, AccountRestated
  <2>3. Ledger!issued(i) /\ Ledger!untouched(the_book[i])
    BY <2>1, <2>2 DEF Ledger!issued, Ledger!untouched, the_book, account, stage, live
  <2> QED BY <2>2, <2>3
          DEF Ledger!Withdraw, Ledger!Next, the_book, book_after, accounts, accounts_after
<1>6. CASE RecordPayment
  <2>1. PICK i \in InvoiceIds, amount \in Nat \ {0} :
           /\ amount <= larger(balance(invoices[i].total_amount, invoices[i].paid_amount,
                          invoices[i].credited_amount, invoices[i].refunded_amount), 0)
           /\ moves(i, invoices[i].paid_amount + amount, invoices[i].credited_amount,
                    invoices[i].refunded_amount)
    BY <1>6, RecordPaymentMoves DEF RecordPayment
  <2> QED BY <2>1, MoneyRefines
<1>7. CASE RecordRefund
  <2>1. PICK i \in InvoiceIds, amount \in Nat \ {0} :
           /\ amount <= larger(-balance(invoices[i].total_amount, invoices[i].paid_amount,
                          invoices[i].credited_amount, invoices[i].refunded_amount), 0)
           /\ moves(i, invoices[i].paid_amount, invoices[i].credited_amount,
                    invoices[i].refunded_amount + amount)
    BY <1>7, RecordRefundMoves DEF RecordRefund
  <2> QED BY <2>1, MoneyRefines
<1>8. CASE CancelPayment
  <2>1. PICK i \in InvoiceIds, amount \in Nat \ {0} :
           /\ amount <= invoices[i].paid_amount - invoices[i].refunded_amount
           /\ moves(i, invoices[i].paid_amount - amount, invoices[i].credited_amount,
                    invoices[i].refunded_amount)
    BY <1>1, <1>8, CancelPaymentMoves DEF CancelPayment, moves
  <2> QED BY <2>1, MoneyRefines
<1>9. CASE CancelRefund
  <2>1. PICK i \in InvoiceIds, amount \in Nat \ {0} :
           /\ amount <= invoices[i].refunded_amount
           /\ moves(i, invoices[i].paid_amount, invoices[i].credited_amount,
                    invoices[i].refunded_amount - amount)
    BY <1>1, <1>9, CancelRefundMoves DEF CancelRefund, moves
  <2> QED BY <2>1, MoneyRefines
<1>10. CASE SetPartyActive
  BY <1>2, <1>10 DEF SetPartyActive, set_party_active
<1>11. CASE UNCHANGED vars
  BY <1>2, <1>11 DEF vars
<1> QED BY <1>3, <1>4, <1>5, <1>6, <1>7, <1>8, <1>9, <1>10, <1>11, CreditRefines
        DEF NextForAnyParty, SendInvoice, VoidInvoice

(***************************************************************************)
(* The billing core implements Receivables: whatever the requests do to    *)
(* the tables, on each receivable they open, issue or withdraw an account  *)
(* or move one of its amounts within what it allows.                       *)
(***************************************************************************)
THEOREM ImplementsReceivables == Spec => ReceivablesSpec
<1>1. Init => Ledger!Init
  BY DEF Init, Ledger!Init, accounts
<1>2. IInv /\ [NextForAnyParty]_vars => [Ledger!Next]_(the_book)
  BY RefinesStep DEF the_book, book_after, accounts, accounts_after
<1> QED BY <1>1, <1>2, Invariance, AnyParty, PTL
        DEF Spec, ReceivablesSpec, Ledger!Spec, the_book

=============================================================================
