---------------------------- MODULE Submissions ----------------------------
(***************************************************************************)
(* The shell around the handlers that create a document: an idempotency    *)
(* reservation, the row locks, a number of the series, the document and    *)
(* the stored answer, in one transaction.  Here the transactions of        *)
(* several HTTP attempts interleave statement by statement under READ      *)
(* COMMITTED, wait for each other's rows, time out, are rejected, crash    *)
(* and retry.  What the handlers do inside is the matter of Billing.       *)
(*                                                                         *)
(* An attempt may carry any key at any time: a client that lost an answer, *)
(* or clicks twice, is two attempts with one key, and a client that reuses *)
(* a key for something else is two with different payloads.                *)
(***************************************************************************)
EXTENDS Integers, FiniteSets

CONSTANTS
    Attempts,                   \* HTTP requests, each handled by one session
    InvoiceKeys, PaymentKeys,   \* (endpoint, Idempotency-Key) pairs, by endpoint
    Invoices, Details,          \* what a request fingerprint is made of
    NoKey, NoPayload, Nobody

ASSUME KeysAssumption == InvoiceKeys \cap PaymentKeys = {}
ASSUME NobodyAssumption == Nobody \notin Attempts

Keys == InvoiceKeys \cup PaymentKeys
\* The invoice a request is about (a payment's, a credit note's original) and the rest.
Payloads == Invoices \X Details
_MAX_SEQUENCE_RETRIES == 1

\* The counter a document's number comes from; one year, one type per endpoint.
SeriesOf(k) == IF k \in InvoiceKeys THEN "create_invoice" ELSE "record_payment"
Series == {"create_invoice", "record_payment"}

\* Rows a transaction may hold against the others.
KeyRow(k) == <<"idempotency_keys", k>>
CounterRow(s) == <<"invoice_sequences", s>>
InvoiceRow(i) == <<"invoices", i>>
Rows == {KeyRow(k) : k \in Keys} \cup {CounterRow(s) : s \in Series}
          \cup {InvoiceRow(i) : i \in Invoices}

VARIABLES
    \* committed tables
    idempotency_keys,   \* key -> [request_hash, status, number], number: the response
    documents,          \* invoices and payments: [key, payload, number]
    last_number,        \* series -> counter, 0: no row
    \* the sessions
    holder,             \* row -> the attempt whose open transaction wrote or locked it
    pc, key, payload, retries, number, answer

tables == <<idempotency_keys, documents, last_number>>
request == <<key, payload>>
vars == <<tables, holder, pc, request, retries, number, answer>>

\* Next statement of the session.
Statements == {"reserve", "lookup", "lock", "select", "insert", "write"}

Answers == [kind : {"created", "replayed"}, number : Nat \ {0}]
             \cup [kind : {"none", "rejected", "reused", "in_progress", "race", "timeout",
                           "crash"}]

Init ==
    /\ idempotency_keys = << >>
    /\ documents = {}
    /\ last_number = [s \in Series |-> 0]
    /\ holder = [row \in Rows |-> Nobody]
    /\ pc = [a \in Attempts |-> "idle"]
    /\ key = [a \in Attempts |-> NoKey]
    /\ payload = [a \in Attempts |-> NoPayload]
    /\ retries = [a \in Attempts |-> 0]
    /\ number = [a \in Attempts |-> 0]
    /\ answer = [a \in Attempts |-> [kind |-> "none"]]

-----------------------------------------------------------------------------

goto(a, statement) == pc' = [pc EXCEPT ![a] = statement]

taken(a, row) == holder[row] \notin {a, Nobody}

take(a, row) == ~taken(a, row) /\ holder' = [holder EXCEPT ![row] = a]

\* Planted fault: the connection goes back to the pool with its transaction open.
locks_kept(a) == UNCHANGED holder

\* COMMIT or ROLLBACK gives every row back.
release(a) == holder' = [row \in Rows |-> IF holder[row] = a THEN Nobody ELSE holder[row]]

respond(a, response) ==
    /\ goto(a, "done")
    /\ release(a)
    /\ answer' = [answer EXCEPT ![a] = response]

\* An exception leaves `async with db.begin()': nothing it wrote remains.
roll_back(a, kind) ==
    /\ respond(a, [kind |-> kind])
    /\ UNCHANGED <<tables, request, retries, number>>

series(a) == SeriesOf(key[a])
invoice_row(a) == InvoiceRow(payload[a][1])

-----------------------------------------------------------------------------

Send(a) ==
    /\ pc[a] = "idle"
    /\ goto(a, "reserve")
    /\ \E k \in Keys : key' = [key EXCEPT ![a] = k]
    /\ \E p \in Payloads : payload' = [payload EXCEPT ![a] = p]
    /\ UNCHANGED <<tables, holder, retries, number, answer>>

\* Planted fault: the reservation is not unique.
reserved_before_never(k) == FALSE

\* uq_idempotency_tenant_endpoint_key
reserved_before(k) == k \in DOMAIN idempotency_keys

\* create_processing, in a savepoint: the unique index makes the insert wait
\* for an open transaction with the same key, then succeed or fail.
Reserve(a) ==
    /\ pc[a] = "reserve"
    /\ ~taken(a, KeyRow(key[a]))
    /\ IF reserved_before(key[a])
       THEN goto(a, "lookup") /\ UNCHANGED holder
       ELSE take(a, KeyRow(key[a])) /\ goto(a, "lock")
    /\ UNCHANGED <<tables, request, retries, number, answer>>

\* Planted fault: the fingerprint is not compared.
replay_of_any_payload(row, hash) ==
    IF row.status = "completed" THEN [kind |-> "replayed", number |-> row.number]
    ELSE [kind |-> "in_progress"]

\* What try_reserve makes of the row that was there first.
reservation_outcome(row, hash) ==
    IF row.request_hash # hash THEN [kind |-> "reused"]
    ELSE IF row.status = "completed" THEN [kind |-> "replayed", number |-> row.number]
    ELSE [kind |-> "in_progress"]

\* Rows are never deleted, so the read finds one and the branch of
\* try_reserve for a row that has gone is not taken (see ProcessingNeverSeen).
Lookup(a) ==
    /\ pc[a] = "lookup"
    /\ respond(a, reservation_outcome(idempotency_keys[key[a]], payload[a]))
    /\ UNCHANGED <<tables, request, retries, number>>

\* SELECT ... FOR UPDATE of the invoice a payment, a refund or a credit
\* note is for; a sale or a purchase locks none.
LockInvoice(a) ==
    /\ pc[a] = "lock"
    /\ \/ take(a, invoice_row(a))
       \/ key[a] \in InvoiceKeys /\ UNCHANGED holder
    /\ goto(a, "select")
    /\ UNCHANGED <<tables, request, retries, number, answer>>

lock_counter(a) == take(a, CounterRow(series(a)))

\* SELECT ... FOR UPDATE of the counter: a row nobody committed is not seen
\* and not waited for; a row that is there is read once it is free.
SelectCounter(a) ==
    /\ pc[a] = "select"
    /\ IF last_number[series(a)] = 0
       THEN goto(a, "insert") /\ UNCHANGED <<holder, number>>
       ELSE /\ lock_counter(a)
            /\ number' = [number EXCEPT ![a] = last_number[series(a)] + 1]
            /\ goto(a, "write")
    /\ UNCHANGED <<tables, request, retries, answer>>

\* The counter is seeded with 1; invisible to others, yet they wait for it.
SeedCounter(a) ==
    /\ pc[a] = "insert"
    /\ last_number[series(a)] = 0
    /\ take(a, CounterRow(series(a)))
    /\ number' = [number EXCEPT ![a] = 1]
    /\ goto(a, "write")
    /\ UNCHANGED <<tables, request, retries, answer>>

\* Planted fault: no retry at all.
may_not_retry(a) == FALSE

may_retry(a) == retries[a] < _MAX_SEQUENCE_RETRIES

\* IntegrityError on invoice_sequences_pkey: _create_invoice_atomic rolls
\* back to its savepoint and selects again, _retry_or_raise gives the whole
\* transaction up, the reservation with it, and starts over.
LoseSeedRace(a) ==
    /\ pc[a] = "insert"
    /\ last_number[series(a)] > 0
    /\ IF may_retry(a)
       THEN /\ retries' = [retries EXCEPT ![a] = @ + 1]
            /\ \/ key[a] \in InvoiceKeys /\ goto(a, "select") /\ UNCHANGED holder
               \/ key[a] \in PaymentKeys /\ goto(a, "reserve") /\ release(a)
            /\ UNCHANGED <<tables, request, number, answer>>
       ELSE roll_back(a, "race")

\* Planted fault: the reservation is committed without its answer.
reservation_row(a) ==
    [request_hash |-> payload[a], status |-> "processing", number |-> number[a]]

completed_row(a) ==
    [request_hash |-> payload[a], status |-> "completed", number |-> number[a]]

\* Planted fault: the counter row is looked up without the document's type.
counter_of_every_type(a) == [s \in Series |-> number[a]]

counter_after(a) == [last_number EXCEPT ![series(a)] = number[a]]

\* The document, mark_completed and COMMIT: everything becomes visible at once.
Commit(a) ==
    /\ pc[a] = "write"
    /\ last_number' = counter_after(a)
    /\ documents' = documents \cup
         {[key |-> key[a], payload |-> payload[a], number |-> number[a]]}
    /\ idempotency_keys' =
         [k \in DOMAIN idempotency_keys \cup {key[a]} |->
            IF k = key[a] THEN completed_row(a) ELSE idempotency_keys[k]]
    /\ respond(a, [kind |-> "created", number |-> number[a]])
    /\ UNCHANGED <<request, retries, number>>

\* A rule of the handler, or a unique index when the document is inserted.
Reject(a) == pc[a] \in {"select", "write"} /\ roll_back(a, "rejected")

\* The row the next statement waits for.
awaited(a) ==
    CASE pc[a] = "reserve" -> {KeyRow(key[a])}
      [] pc[a] = "lock" -> {invoice_row(a)}
      [] pc[a] = "insert" \/ (pc[a] = "select" /\ last_number[series(a)] > 0)
           -> {CounterRow(series(a))}
      [] OTHER -> {}

\* lock_timeout, which no service catches.
LockTimeout(a) == (\E row \in awaited(a) : taken(a, row)) /\ roll_back(a, "timeout")

\* The process or its connection dies; a crash after COMMIT is a lost answer.
Crash(a) == pc[a] \in Statements /\ roll_back(a, "crash")

\* What the server does on its own.
Execute(a) ==
    \/ Reserve(a)
    \/ Lookup(a)
    \/ LockInvoice(a)
    \/ SelectCounter(a)
    \/ SeedCounter(a)
    \/ LoseSeedRace(a)
    \/ Commit(a)

Next ==
    \E a \in Attempts :
        Send(a) \/ Execute(a) \/ Reject(a) \/ LockTimeout(a) \/ Crash(a)

Spec == Init /\ [][Next]_vars

\* A session goes on as long as the database lets it.
FairSpec == Spec /\ \A a \in Attempts : WF_vars(Execute(a))

=============================================================================
