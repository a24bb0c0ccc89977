SPECIFICATION Spec
CONSTANTS
    QUANTITY_SCALE = 10
    RATE_SCALE = 10
    PERCENT_SCALE = 2
    CESS_SCALE = 1000
    Requests <- MCRequests
    Lines <- MCLines
    Offsets <- MCOffsets
    MAX_LINES = 3
    MAX_MONEY = 200
    MAX_QUANTIZED = 999
    NoCode = NoCode
    NoInvoice = NoInvoice
INVARIANTS
    ReverseChargeOnPurchases
\* A request ends when its invoice has been created.
CHECK_DEADLOCK FALSE
