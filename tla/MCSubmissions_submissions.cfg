SPECIFICATION FairSpec
CONSTANTS
    Attempts = {a1, a2, a3}
    InvoiceKeys = {k1}
    PaymentKeys = {p1, p2}
    Invoices = {i1, i2}
    Details = {x}
    NoKey = NoKey
    NoPayload = NoPayload
    Nobody = Nobody
INVARIANTS
    TypeOK
    WorkDoneOnce
    AnswersTrue
    NumbersGapless
    ProcessingNeverSeen
    SeedRaceAbsorbed
PROPERTIES
    ExactlyOnceSpec
    EveryAttemptEnds
\* When every attempt has been answered there is nothing left to do.
CHECK_DEADLOCK FALSE
