------------------------ MODULE TransactionProperties ------------------------
(***************************************************************************)
(* What must hold when the handlers of the billing core run at once.       *)
(***************************************************************************)
EXTENDS BillingTransactions, BillingProperties

(***************************************************************************)
(* The open transactions are well formed and agree with the tables: what a *)
(* session has read of an invoice it has locked is still what is stored,   *)
(* and no row is locked by two sessions.                                   *)
(***************************************************************************)
TransactionsTypeOK ==
    /\ DOMAIN session \subseteq Sessions
    /\ \A s \in DOMAIN session :
        /\ DOMAIN session[s].rows \subseteq DOMAIN invoices
        /\ \A i \in DOMAIN session[s].rows : session[s].rows[i] = invoices[i]
        /\ session[s].number \in Nat
    /\ \A s, t \in DOMAIN session :
        s # t => session[s].locks \cap session[t].locks = {}

-----------------------------------------------------------------------------
(* Refinement. *)

\* Billing with every party usable at every moment: the one guard of it that
\* the code evaluates without a lock.
Atomic == INSTANCE Billing WITH active <- Parties

(***************************************************************************)
(* Whatever requests overlap, the committed tables move as if each request *)
(* had run alone at the moment of its commit: every commit is one step of  *)
(* Billing, all other statements leave the tables alone.  Everything shown *)
(* of Billing's tables (whoever may be used) is thereby shown of requests  *)
(* that run at once.                                                       *)
(***************************************************************************)
AtomicSpec == Atomic!Init /\ [][tables' # tables => Atomic!Next]_tables

-----------------------------------------------------------------------------

waits_for(s) ==
    {t \in DOMAIN session \ {s} : session[t].locks \cap next_locks(session[s]) # {}}

(***************************************************************************)
(* The lock order has no cycle (the comments in _create_invoice_body and   *)
(* cancel_refund say so handler by handler): in every set of transactions  *)
(* one waits for none of the set, so no request ever dies of a deadlock.   *)
(* A credit note locks itself and then its original, a new credit note the *)
(* original and then a counter, and a new debit note a counter and then,   *)
(* through its foreign key, the original.                                  *)
(***************************************************************************)
NoWaitCycle ==
    \A group \in (SUBSET DOMAIN session) \ {{}} :
        \E s \in group : waits_for(s) \cap group = {}

(***************************************************************************)
(* A cancellation that goes through has cancelled something: the status it *)
(* saw before it had the lock may be stale, yet of two cancellations of    *)
(* one row at most one gets past the UPDATE, so the 200 is answered once.  *)
(***************************************************************************)
CancellationsWork ==
    \A s \in DOMAIN session :
        session[s].pc \in {"soft_cancelled", "recomputed"} =>
            LET table == IF session[s].request.op = "cancel_payment" THEN payments ELSE refunds
            IN  table[session[s].request.target].status = "active"

(***************************************************************************)
(* The soft duplicate check of cash and card payments is still true when   *)
(* the payment is inserted: two identical unconfirmed requests that arrive *)
(* together are not both recorded, although no index stands behind it.     *)
(***************************************************************************)
PaymentDuplicateCheckHolds ==
    \A s \in DOMAIN session :
        LET request == session[s].request
        IN  (/\ request.op = "record_payment" /\ soft_checked(request)
             /\ session[s].pc \in {"checked", "numbered"}) =>
                find_recent_similar_active_payment(request.invoice, request.amount,
                                                   request.payment_mode) = {}

(***************************************************************************)
(* set_party_active's docstring: "A deactivated party cannot be used on    *)
(* NEW invoices" (party_service.py:135).  The code reads is_active without *)
(* a lock: a run finds this violated.                                      *)
(***************************************************************************)
InactivePartyRefused ==
    [][\A i \in DOMAIN invoices' \ DOMAIN invoices :
          invoices'[i].party \in active]_transactionVars

=============================================================================
