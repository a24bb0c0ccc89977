SPECIFICATION Spec
CONSTANTS
    InvoiceIds = {i1, i2}
    PaymentIds = {}
    RefundIds = {}
    Customers = {alice}
    Vendors = {}
    Switchable = {alice}
    FinancialYears = {fy}
    Totals = {1}
    Amounts = {1}
    PaymentModes = {"cash"}
    References = {}
    NoInvoice = NoInvoice
    NoReference = NoReference
INVARIANT NoteOriginalsSubmitted
