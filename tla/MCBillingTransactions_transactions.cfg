SPECIFICATION SpecTransactions
CONSTANTS
    InvoiceIds = {i1, i2, i3}
    PaymentIds = {p1, p2}
    RefundIds = {r1}
    Sessions = {s1, s2}
    Customers = {alice}
    Vendors = {}
    Switchable = {alice}
    FinancialYears = {fy}
    Totals = {2}
    Amounts = {1}
    PaymentModes = {"cash"}
    References = {}
    NoInvoice = NoInvoice
    NoReference = NoReference
SYMMETRY TransactionSymmetry
INVARIANTS
    TransactionsTypeOK
    NoWaitCycle
    CancellationsWork
    PaymentDuplicateCheckHolds
    NumbersGapless
    NoTwinCreditNotes
PROPERTIES
    AtomicSpec
\* With every id given away and every row final, no request changes anything.
CHECK_DEADLOCK FALSE
