----------------------------- MODULE MCBilling -----------------------------
(* Small instances of Billing for TLC. *)
EXTENDS BillingProperties, TLC

LOCAL INSTANCE FiniteSetsExt

\* Ids are UUIDs nothing compares, so any renaming of them is a symmetry.
RowSymmetry == Permutations(InvoiceIds) \cup Permutations(PaymentIds)
                 \cup Permutations(RefundIds)

\* Counting paise is the sum the community modules define by folding.
ASSUME SumIsFold ==
    \A S \in SUBSET (1..3) : \A f \in [1..3 -> 0..3] :
        Sum(S, f) = MapThenSumSet(LAMBDA x : f[x], S)

=============================================================================
