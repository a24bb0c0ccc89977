SPECIFICATION Spec
CONSTANTS
    InvoiceIds = {i1, i2, i3}
    PaymentIds = {p1, p2}
    RefundIds = {r1}
    Customers = {alice}
    Vendors = {}
    Switchable = {alice}
    FinancialYears = {fy}
    Totals = {1, 3}
    Amounts = {1, 2}
    PaymentModes = {"cash"}
    References = {ref}
    NoInvoice = NoInvoice
    NoReference = NoReference
SYMMETRY RowSymmetry
INVARIANTS
    TypeOK
    LedgerMatchesRows
    LedgerWithinBounds
    StatusMatchesLedger
    NoOrphanedMoney
    LedgerNeverCorrupt
    CancelRefusalTrue
PROPERTIES
    CreditsArePermanent
    ReceivablesSpec
    DocumentsPermanent
\* With every id given away and every row final, no request changes anything.
CHECK_DEADLOCK FALSE
