SPECIFICATION Spec
CONSTANTS
    InvoiceIds = {i1}
    PaymentIds = {p1}
    RefundIds = {}
    Customers = {alice}
    Vendors = {}
    Switchable = {alice}
    FinancialYears = {fy}
    Totals = {2}
    Amounts = {1}
    PaymentModes = {"credit_card"}
    References = {ref1, ref2}
    NoInvoice = NoInvoice
    NoReference = NoReference
INVARIANT CardReferenceNeverRefused
