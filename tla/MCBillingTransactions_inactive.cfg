SPECIFICATION SpecTransactions
CONSTANTS
    InvoiceIds = {i1}
    PaymentIds = {}
    RefundIds = {}
    Sessions = {s1, s2}
    Customers = {alice}
    Vendors = {}
    Switchable = {alice}
    FinancialYears = {fy}
    Totals = {1}
    Amounts = {1}
    PaymentModes = {"cash"}
    References = {}
    NoInvoice = NoInvoice
    NoReference = NoReference
PROPERTY InactivePartyRefused
