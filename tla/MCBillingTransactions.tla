------------------------ MODULE MCBillingTransactions ------------------------
(* Small instances of BillingTransactions for TLC. *)
EXTENDS TransactionProperties, TLC

\* Rows are named by UUIDs and sessions by connections: nothing compares them.
TransactionSymmetry ==
    Permutations(InvoiceIds) \cup Permutations(PaymentIds)
      \cup Permutations(RefundIds) \cup Permutations(Sessions)

=============================================================================
