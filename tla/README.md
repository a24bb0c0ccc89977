# A verification project for the GST billing API

The program is a multi-tenant billing service: FastAPI routers call service
functions, each of which runs one database transaction on PostgreSQL (SQLAlchemy,
asyncpg, READ COMMITTED). All state is in the database; the process keeps none.
This directory models the parts of it that decide about money and documents,
checks them with TLC and proves with TLAPS all the safety properties the runs check.

## 1. Inventory

| Component | Source (under `src/app/`) | State | Operations | What makes it correct |
|---|---|---|---|---|
| Ledger rules | `domain/ledger_rules.py` | none (pure) | `compute_ledger_position`, `apply_*`, `validate_*` | a position is possible, the status follows from the amounts |
| Invoices and notes | `services/invoice_service.py`, `repositories/invoice_repository.py`, `models/invoice.py` | `invoices`, `invoice_items` | `create_invoice`, `send_invoice`, `void_invoice` | ledger columns equal the rows; nothing submitted changes; credits stay within the total; no twin credit notes |
| Payments | `services/payment_service.py`, `models/payment.py` | `payments` | `record_payment`, `cancel_payment` | never beyond what is owed, never below what was refunded; a refused cancellation is one the refunds explain |
| Refunds | `services/refund_service.py`, `models/refund.py` | `refunds` | `record_refund`, `cancel_refund` | never beyond what is due; a cancellation can always be carried out |
| Numbering | `services/sequence_service.py`, `models/sequence.py` | `invoice_sequences` | `get_next_invoice_number` | no gap, no reuse, across three tables; 16 characters |
| Transactions and locks | `database.py`, every `db.begin()` | row locks | `SELECT FOR UPDATE`, lock timeout 5 s | handlers on one invoice are serialised; no deadlock |
| Idempotency | `services/idempotency_service.py` | `idempotency_keys` | `try_reserve`, `mark_completed_in_open_txn` | a request is executed once, whatever is retried |
| Tax engine, business rules | `domain/tax_engine.py`, `domain/business_rules.py` | none (pure) | rounding, split of the tax, place of supply, financial year | amounts add up within the tolerance |
| Parties | `services/party_service.py` | `parties` | create, update, `set_party_active`, list | a GSTIN is one party of a tenant and agrees with its PAN and state; an inactive party is on no new invoice |
| Tenants | `services/auth_service.py` (`register`), `repositories/tenant_repository.py` | `tenants`, `users`, `tenant_compliance` | register | a business is registered whole or not at all; GSTIN, PAN and e-mail are its own; a refusal names its reason |
| Sessions | `services/auth_service.py` | `refresh_tokens` | login, refresh, logout | a session serves its client until expiry or its own logout, and yields nothing after either |
| Compliance profiles | `services/tenant_compliance_service.py` | `tenant_compliance` | create or renew | periods of a tenant do not overlap |
| Pagination | `core/pagination.py`, the list services | none | cursors | what stays on a list is returned once; a traversal ends |
| Routers, schemas, audit log, migrations | `routers/`, `schemas/`, `models/audit_log.py`, `migrations/` | none that matters here | | |

How they interact. A router checks the role and calls one service function. The
service opens a transaction, reserves the idempotency key (create, send, record
payment, record refund; the void and cancel handlers have no key), locks the
invoice row, consults the ledger rules, takes a number (which locks the counter
row), writes the document and the invoice's ledger columns, stores the response
and commits. The invoice row is the meeting point: invoice, payment and refund
handlers all read and write its four amounts and its status. A credit note is an
invoice of its own that, when sent, moves the ledger of *another* invoice.

The hard behaviours:

* The ledger columns are a cache maintained in two ways. Recording adds to the
  column; cancelling recomputes all three columns from rows. A filter forgotten in
  one of five queries shows only after a mixed history.
* A refund *reopens* the balance, so an invoice may be paid, credited, refunded
  and paid again. No constraint bounds that cycle directly.
* A credit note is checked when it is drafted and applied when it is sent; the
  original may be paid, credited or voided in between.
* Two errors of `compute_ledger_position` are not caught (`cancel_refund`,
  `record_payment`): they must be unreachable.
* Interleaved transactions: rows read without a lock (party, payment before its
  invoice lock, the soft duplicate checks), the race for the first number of a
  series, lock timeouts, retries under one idempotency key.

* Lists are read page by page while they change; registrations overlap between
  their unlocked duplicate checks and the unique constraints behind them.

`PROJECT.json` lists each hazard at its line and the properties that cover it;
those without one say why.

## 2. The modules

```
LedgerSums      LedgerRules      DocumentNumbers        Receivables (abstract)
     \               |               /                       |
      `----------- Billing ---------'                        |
                      |                                      |
               BillingProperties ---- Ledger == INSTANCE ----'
              /       |       \
     MCBilling        |        BillingProofs   (LedgerSumsProofs)
                      |
      Billing --- BillingTransactions
                      |
            TransactionProperties ---- Atomic == INSTANCE Billing
                      |
           /            \
 MCBillingTransactions  TransactionProofs (BillingProofs)

     Submissions       ExactlyOnce (abstract)
          |                  |
     SubmissionProperties ---'  Promise == INSTANCE ExactlyOnce
          |
       /        \
 MCSubmissions  SubmissionProofs

     TaxEngine   LedgerSums              Sessions
           \     /                          |
         InvoiceDraft                SessionProperties
              |                        /         \
     InvoiceDraftProperties      MCSessions   SessionProofs
       /            \
 MCInvoiceDraft   InvoiceDraftProofs (LedgerSumsProofs)

     Registration                        Directory
         |                                  |
     RegistrationProperties          DirectoryProperties
       /            \                  /         \
 MCRegistration  RegistrationProofs  MCDirectory  DirectoryProofs
```

* **LedgerRules** is `ledger_rules.py`, function by function. A function that
  raises is a predicate, or a record whose `ok` is false. Money is in paise: every
  amount column is `Numeric(17, 2)` and requests carry at most two decimals, so
  `_round` is exact on every sum the ledger forms.
* **LedgerSums** is a table as a function from ids to rows, and `SUM()`. The sum
  counts paise (`Cardinality` of a union), so that it can be proved about without a
  recursive definition. `MCBilling!SumIsFold` compares it with the fold of the
  community modules on every assignment of 0..3 to three rows. InvoiceDraft sums the
  lines of an invoice with it.
* **DocumentNumbers** is the printed form of a number, reduced to its length.
* **Billing** is one tenant's tables (`invoices`, `payments`, `refunds`,
  `sequences`, the active parties) and one action per handler. `create_invoice`
  includes every check that reads the database, the counter and the insert;
  `send_credit_note` writes both rows, as `_apply_credit_note_to_original` and
  `update_submission_state` do in one transaction; the cancel actions recompute from
  the rows as they are *after* the soft cancel.
* **BillingProperties** states what must hold, and the refinement mapping.
* **Receivables** is the abstract account book: what the core promises about money,
  with no rows behind it. Seven moves on one account and one amount each.
* **MCBilling** is the instance for TLC; **BillingProofs** and
  **LedgerSumsProofs** hold the theorems. Every other component has its theorems in a
  module named after it, which section 4 goes through.
* **BillingTransactions** EXTENDS Billing and takes its handlers apart: the tables of
  Billing hold committed rows, and `session` says of each open transaction what it has
  read, locked and computed. It uses Billing's operators for what a statement checks and
  writes, so that a rule is written once.
* **TransactionProperties** states what must hold when requests overlap, and that
  every commit is one step of Billing (`AtomicSpec`). **MCBillingTransactions** is the
  instance for TLC.
* **Submissions** is the shell around the three handlers that create a document,
  statement by statement: reservation of the key, lock of the invoice, read or
  seed of the counter, document with its stored answer, COMMIT. Each HTTP attempt
  is a session with an open transaction, `holder` says which rows it keeps from the
  others, the three tables hold what is committed.
* **SubmissionProperties** states what must hold of them, and the mapping to
  **ExactlyOnce**, the abstract server that does the work of a key once, with the
  next number of its series, and answers alike whoever asks under that key.
* **MCSubmissions** is the instance for TLC.
* **TaxEngine** is `tax_engine.py` and the tax side of `business_rules.py`: rounding,
  slabs, place and type of supply, the figures of a line, HSN and SAC codes.
* **InvoiceDraft** is the computation of `_create_invoice_body`, one line at a time,
  then the header, the check of the declared total and the insert with its CHECK
  constraints and its columns of limited size. Billing starts from the total it ends with.
  **InvoiceDraftProperties**, **MCInvoiceDraft** and **InvoiceDraftProofs** belong
  to it.
* **Sessions** is login, refresh and logout, await by await, with a clock, over the
  signed tokens and the table `refresh_tokens`; **SessionProperties** and
  **MCSessions** belong to it.
* **Registration** is `auth_service.register`, statement by statement, in concurrent
  transactions over `tenants`, `users` and the first compliance profiles.
* **Directory** is `party_service`: the parties of each tenant, one action per writing
  handler, and a client that reads a list of them page by page.
  `<module>Properties` and `MC<module>` belong to each of the two.

Definitions commented *Planted fault* are not part of the program: each is a
plausible bug in the definition that follows it, kept to show that the property it
is paired with in `PROJECT.json` would notice. No specification uses them.

Modelling decisions in Billing:

* *A handler is one atomic step.* It is one transaction that either commits or
  rolls back, so a handler that raises is a stuttering step. That overlapping
  transactions amount to this is not assumed: `AtomicSpec` of BillingTransactions
  says it, for all reads but that of the party's `is_active` and the soft duplicate
  check of invoices, which the source leaves unlocked.
* *One tenant is the world*: every query carries `tenant_id`.
* *CHECK constraints are invariants, not guards.* `LedgerWithinBounds` says they
  never fire. The two unique indexes on references, which the services rely on and
  translate into a 409, are guards.
* *Time.* The two soft duplicate checks look back a fixed window. A duplicate
  outside the window behaves exactly like one sent with `confirm_duplicate`, which
  the model allows at any moment, so no clock is needed.
* *Requests.* An input ranges over the requests the schemas let through (a note
  names an original, any mode but cash has a reference); a total may be zero (a line
  with a full discount). Line items, tax fields and texts are left out: they are
  written once and nothing that changes state reads them.
* *Refund mode* is not kept: no rule reads it beyond requiring a reference for
  every mode but cash, and a row with or without a reference covers them all.
* *Statuses* "overdue" and "cancelled" of an invoice are declared in the source
  and never written.

Modelling decisions in BillingTransactions:

* *READ COMMITTED.* A statement sees what is committed when it runs and what its own
  transaction wrote, hence `payments_seen` and `refunds_seen` in a recomputation. An
  ORM row read under a lock is kept in `rows` from then on, as in the session's
  identity map, and the handler goes on using that copy.
* *Locks are sets of rows.* `next_locks` says for each statement which rows it locks;
  a statement is disabled while another session holds one of them. All locks go with
  the transaction. The key-share lock that inserting a note takes on its original is
  there (a debit note has not locked it before, so it waits with a counter in hand);
  those on tenant, party and users are not, because nothing takes a lock that excludes
  them. Lock timeouts, lost connections and rejections are all `RollBack`, enabled at
  any moment.
* *Merged statements.* BEGIN, the reads before the first lock and that lock are one
  step: a transaction that waits there holds nothing. The two cancel handlers
  read before their lock the row they cancel, and have a step for it. The reads of a
  recomputation are one step, since the invoice lock protects them all, and so are the
  last writes with COMMIT, since they need no further lock.
* *What a request contains* is chosen where it is first looked at (a payment's bank
  reference at its insert), which gives the same behaviours and fewer states.
* *The first number of a series* is treated as if its counter row existed: the second
  INSERT waits on the primary key as it would on the row, then retries from the SELECT.
  Submissions has that race statement by statement. The idempotency key, which is
  reserved before all this, is there too.
* *The refinement* maps `active` to all parties: the party's check is evaluated
  before the transaction's other statements and is not repeated (finding 5), so the
  commit is a step of Billing in which any party may be used. The soft duplicate check
  of invoices needs no such weakening: Billing lets it be overridden at any moment.
* *Bound.* `ids_left`: no request begins that could not be given an id.

Modelling decisions in Submissions:

* *READ COMMITTED.* A statement sees committed rows only, so what a session wrote is
  put in the tables by `Commit`. A row it inserted or locked is in `holder` until
  then, and another session's insert of the same unique value, or `SELECT FOR
  UPDATE` of the same row, is disabled as long as it is there. A counter row nobody
  has committed is not seen by the select, yet the insert waits for it: that is the
  race for the first number.
* *Two ways to lose that race.* `create_invoice` rolls back to a savepoint and
  keeps its reservation and its lock; payments and refunds give the whole
  transaction up and start over. The endpoint of the key decides which. A payment
  stands for a refund as well: their shells are the same code twice.
* *Locks.* A payment locks its invoice, a credit note its original, a sale none:
  `LockInvoice` allows both for an invoice.
* *Keys and payloads.* A key stands for (endpoint, Idempotency-Key) of one tenant.
  A payload stands for the request fingerprint: the invoice and all other details.
  A lost answer, a double click and a retry are all a further attempt with the same
  key; the key of something else is an attempt with another payload.
* *Rejection.* Rules and unique indexes may reject a request at any time, before or
  after the number is taken; which is Billing's business.
* *The branch of `try_reserve` for a row that has gone* is left out: nothing deletes
  a row of `idempotency_keys`, and the second conjunct of `ProcessingNeverSeen`
  says the read after a collision always finds one.

Modelling decisions in TaxEngine and InvoiceDraft:

* *Decimals are integers* of a unit: paise, thousandths of a percent for a GST rate,
  and as many decimals of a quantity, a price, a discount and a cess rate as the
  scale constants say. The source has 3, 4 and 2 of the first three and sets no limit
  for the fourth; the theorems hold for every scale, the TLC instance uses tenths and
  halves because its integers have 32 bits. Every rounding is kept where the code has
  it; a rounding of a sum of already rounded amounts is exact and left out.
* *A refused request takes no step; a server error is an outcome.* Nobody catches the
  ValueErrors of `calculate_taxable_amount` and the CHECK constraints ("failed"), a
  column that overflows ("overflow"), or the InvalidOperation of `quantize`
  ("invalid_operation"). The ValueErrors of `calculate_line_item_tax` repeat what the
  schema and `line_allowed` exclude or what `taxable_amount_raises` implies.
* *The size of amounts.* Quantity and price at the limits of the schema exceed
  `Numeric(17, 2)`, and the declared total has no limit at all. `MAX_MONEY` is what a
  column holds and `MAX_QUANTIZED` what `quantize` returns in the decimal context of
  28 digits: 10^17 - 1 and 10^28 - 1 paise, scaled down for TLC. `quantize` comes
  first, then the header, then the lines. The context rounds no product of amounts that
  fit their columns; that it may round one which overflows, or one with a `cess_rate` of
  very many decimals, is left out. `cess_rate` loses decimals when stored and is not
  read back.
* *States and codes.* A GSTIN is present or not, and begins with the state of its
  party, as `party_service` enforces. An HSN/SAC code is its number of digits
  and whether it starts with 99. Turnovers are in lakh.
* *The declared total* is in tenths of a paisa, because the schema does not limit its
  decimals and the discrepancy is rounded before it is compared.

Modelling decisions in Sessions:

* *One step per await.* A login signs two tokens, stores one, and answers; a refresh
  decodes, reads its row and answers from what it read; a logout computes the time of
  revocation before its UPDATE, which may wait, and so may not be the last. A
  transaction whose statements nobody else can see in between is one step.
* *Two clocks.* The JWT's own expiry counts whole seconds (the library compares
  integers), the row's does not and is computed later.
* *A lost attempt* is a process that dies or an answer that does not arrive; the client
  then has no token from it, although its row may be there.
* *Users* are registered before and never change: no request of the program
  deactivates a user or changes a password, and nothing calls `revoke_all_for_user`
  or `delete_expired`. `last_login_at` is read by nothing. A tenant follows from the
  user. `after_logout` is a history field and influences nothing.

Modelling decisions in Registration:

* *Unique constraints.* An INSERT of `tenants` that collides with a committed row fails
  with the name of one of the constraints it breaks, any of them, because that depends
  on the order of the indexes. One that collides with a row of an open transaction is
  disabled, i.e. it waits. The user's e-mail is the tenant's, so the fourth constraint,
  on users, cannot be reached first.
* *A GSTIN* is a state, a PAN and the rest; upper and lower case, formats and texts are
  left out, as is the password, which is hashed before the transaction opens.
* *The owner, the profile and COMMIT* are one step: nobody else can see their rows.

Modelling decisions in Directory:

* *A write is one step*: its transaction is one statement and a read of the same row. A
  request that breaks `uq_party_tenant_gstin` or the identity rules is answered with an
  error and is no step.
* *Order.* Names and ids are numbers, which stand for their order in the database. An id
  is a random UUID, so a new party may come anywhere among those of its name. `ORDER BY
  name, id LIMIT n` is the set of rows before which there are fewer than `n` others:
  no rule reads the order within a page but for its last row.
* *A prefix* is the set of names that start with it; the cursor's encoding is
  one-to-one and left out, its refusal of a malformed cursor is no step.
* *History.* `listing.returned` and `steady` record what a client got and which parties
  stayed on its list under one name since it began; nothing depends on them.

## 3. What is checked

| Run | Instance | Shows |
|---|---|---|
| `ledger` | 3 documents, 2 payments, 1 refund; totals 1 and 3 paise, amounts 1 and 2; one customer who may be deactivated, one year, cash, one bank reference | `TypeOK`, `LedgerMatchesRows`, `LedgerWithinBounds`, `StatusMatchesLedger`, `NoOrphanedMoney`, `LedgerNeverCorrupt`, `CancelRefusalTrue`, `CreditsArePermanent`, `DocumentsPermanent`, and that the core implements `Receivables` (about 293 000 states) |
| `transactions` | 2 sessions; 3 documents of 2 paise, 2 payments and a refund of 1; a party that may be deactivated | `TransactionsTypeOK`, `NoWaitCycle`, `CancellationsWork`, `PaymentDuplicateCheckHolds`, `NumbersGapless`, `NoTwinCreditNotes`, and that overlapping handlers implement `Billing` (about 582 000 states) |
| `submissions` | 3 attempts; one key of `create_invoice`, two of `record_payment`; two invoices; no symmetry | `TypeOK`, `WorkDoneOnce`, `AnswersTrue`, `NumbersGapless`, `ProcessingNeverSeen`, `SeedRaceAbsorbed`, that the shell implements `ExactlyOnce`, and `EveryAttemptEnds` under `FairSpec` (about 300 000 states) |
| `registration` | 3 requests of 4 businesses that share a PAN, an e-mail or nothing | `RegistrationAnswersTrue`, `RegisteredWhole` (about 2 800 states) |
| `directory` | 2 tenants, 3 parties, 2 names, a registered and an unregistered identity, pages of one row, two filters | `DirectoryTypeOK`, `SteadyListedOnce`, and, under `FairSpec`, `ListingEnds` once nobody adds or renames a party any more (about 96 000 states) |
| `figures` | up to 3 of 9 lines, 16 headers, 11 declared totals; tenths and halves; columns that hold 200 paise | `TypeOK`, `FailsForSizeOnly`, `HeaderAddsUp`, `HonestTotalAccepted`, `TaxIndependentOfRoute` (about 53 000 states) |
| `sessions` | 4 attempts, 2 users, 2 refresh tokens, clock to 5 | `SessionsTypeOK`, `ServedUntilLogoutOrExpiry`, `LoggedOutStaysOut`, `SessionBounded` (about 680 000 states) |
| `purchase_credit` | one vendor, two ids | violation, finding 1 |
| `debit_of_draft` | two ids | violation, finding 2 |
| `card_reference` | one invoice, one payment, two references | violation, finding 3 |
| `reverse_charge` | as `figures` | violation, finding 4 |
| `inactive_party` | two sessions, one document | violation, finding 5 |

Why the bounds are enough for the interesting cases: three documents allow an
original with two credit notes, or a note of a note; totals of 1 and 3 against amounts
1 and 2 give partial payment, exact payment, overshoot, partial and exact credit, and
the refund cycle (pay 3 of 3, credit 1, refund 1, pay again). With two payments and
one refund a payment can be cancelled with and without the refund needing it, next to
another payment that stays. In `transactions` two sessions are two payments, a payment
and a credit note, two cancellations or a note and the sending of another on one
invoice; the third document is the second note of an original. `NoWaitCycle` is checked
for two transactions, where the mutant with one counter for all documents of a year
shows the cycle the code avoids: a debit note holds its counter when it waits for its
original, whose holder must not need that counter. A third party adds nothing new:
note, original, counter is the order of all who hold two rows and wait, but that debit
note, and its counter is wanted by nobody who holds an invoice. Three attempts in `submissions` allow two keys in
a race for one counter with a duplicate of one of them, or one key tried three times,
and three suffice for a cycle of waits with somebody at its edge. Payment keys meet on one
invoice or on two, an invoice key brings the savepoint retry and a second series,
so that a transaction that locks an invoice but not the same counter takes part. (That
an existing counter is read under a lock tells only from the third payment on, the
first two being in the race for the seed; `transactions` shows it.) In
`registration` the third request meets two that are still open or have committed. In
`directory` pages of one row of three put a cursor between any two parties, of one name
or of two, while the third is added or renamed around it. Ids are UUIDs no rule
compares, so runs of safety properties use symmetry on them; `submissions` and
`directory` check liveness, for which it is unsound, and `directory` compares its ids.
`ledger` and `transactions` set `CHECK_DEADLOCK FALSE` because an instance with its ids
used up and every row final really has nothing left to do. `submissions` and
`registration` set it because the attempts of an instance are finitely many and nothing is
left to do when each has its answer; that no attempt of `submissions` is left waiting is
`EveryAttemptEnds`. The same holds of `figures`, where a request ends with its
invoice, and `sessions`, whose clock and attempts are finite. `directory` never stops.

The nine lines of `figures` put each rounding on either side of a half, reach the ends
of the discount and cess ranges, and include lines whose deviation from a client that
rounds once is the greatest found, 3 paise, in both directions; the tolerance grows by
5 paise a line, and three lines are more than its constant part could hide. The
declared totals lie just inside and just outside the tolerance of one and two lines, and
on either side of what `quantize` returns. A column of 200 paise is exceeded by one line
or by several together, by the subtotal alone (after a full discount), by the total alone
(after tax), or by both.
In `sessions`, a refresh token lives two ticks, an access token one and a second has
two, so a token expires between two steps of one refresh; four attempts are two
logins with a refresh and a logout that overlap, or one login, two refreshes and a
logout.

Fairness: Billing and BillingTransactions assume none. Every action is a request, and nothing obliges a
client to make one. `FairSpec` of Submissions assumes weak fairness of each session's
own statements (`Execute(a)`), because the event loop resumes a coroutine whose
query has returned and PostgreSQL wakes a waiter when the row is free. It assumes
nothing of `Send`, `Reject`, `LockTimeout` and `Crash`: a client need not send, and
progress must not be owed to a timeout that breaks a deadlock. Weak fairness is
enough although rows are contended, because each attempt holds a row once and
attempts are finitely many. `FairSpec` of Directory assumes weak fairness of
`FetchPage` alone: the client it speaks of keeps asking. `ListingEnds` has a premise,
that from some moment on no party is added or renamed, because nothing in
`list_parties` bounds the list: as long as parties are added beyond the cursor as fast as
it advances, there is a next page (`party_service.py:168-174`). Three ids and two names
are too few to show that, so the premise says it. What TLC does show is that the writes
before that moment, and deactivations and reactivations at any time, send no client round
in circles.

### Findings

1. *Purchases cannot be credited.* `ledger_rules.py:38` names sales and purchase
   invoices as creditable, but `create_invoice` demands a customer for a credit note
   and the original's own party, which for a purchase is a vendor.
2. *A debit note may correct a draft.* The docstring of `_create_invoice_body`
   (line 106) demands a submitted original of credit and debit notes; the code checks
   it for credit notes only, and reads a debit note's original without a lock.
3. *A card reference is hard-unique.* `schemas/payment.py:10-11` says a credit card
   reference has no hard uniqueness check; the partial index covers any active
   payment that has a reference.
4. *Every sale to a consumer is a reverse charge supply.* The comment at
   `models/invoice.py:218` gives reverse charge to purchases from unregistered
   dealers; `_create_invoice_atomic` sets the flag from the party's missing GSTIN,
   whatever the type of the invoice.
5. *A deactivated party gets a new invoice.* `party_service.py:135` says a deactivated
   party cannot be used on new invoices and that `invoice_service` checks it. The check
   at `invoice_service.py:130` reads without a lock and is not repeated, so an invoice
   whose transaction was waiting, for an original or for a number, is inserted after the
   deactivation has been committed and answered.

## 4. What is proved

Every invariant, action property and refinement the passing runs check is a theorem, for
every value of the constants the named assumptions allow. What a run shows of a small
instance, the theorem says of any number of documents, attempts, lines or parties and of
all amounts. The assumptions stand next to the constants, TLC evaluates them in every run,
and each says what the schema or the database guarantees: totals are natural numbers of
paise and amounts are positive, percentages lie within the request schema's limits, NULL is
none of the values it is compared with, a key belongs to one endpoint.

### Billing: `BillingProofs`, `LedgerSumsProofs`

| Theorem | States |
|---|---|
| `Invariance` | `Spec => []IInv` |
| `TypeCorrect` | `Spec => []TypeOK` |
| `LedgerCorrect` | `Spec => []LedgerMatchesRows` |
| `BoundsCorrect` | `Spec => []LedgerWithinBounds` |
| `StatusCorrect` | `Spec => []StatusMatchesLedger` |
| `NothingOrphaned` | `Spec => []NoOrphanedMoney` |
| `CorruptionUnreachable` | `Spec => []LedgerNeverCorrupt` |
| `CreditsKept`, `DocumentsKept` | `Spec => CreditsArePermanent`, `Spec => DocumentsPermanent` |
| `RefusalsTrue` | `Spec => []CancelRefusalTrue` |
| `TwinsImpossible` | `Spec => []NoTwinCreditNotes` |
| `NumbersWithoutGap` | `Spec => []NumbersGapless` |
| `ImplementsReceivables` | `Spec => ReceivablesSpec` |

`IInv` is the conjunction of the type invariant and the four ledger invariants, and none
of the latter is inductive alone:

* `LedgerMatchesRows` is what lets a cancellation, which recomputes from the
  rows, be seen as a change of one column: cancelling a payment lowers `paid_amount`
  by its amount and leaves the other two alone.
* `LedgerWithinBounds` needs its last conjunct, *refunded <= credited*, which no
  CHECK constraint states. A payment may go up to the balance, `total - credited -
  paid + refunded`, so afterwards `paid <= total - credited + refunded`; that is at
  most the total only if refunds stay within credits, and a refund does, because it
  cannot exceed `credited + paid - refunded - total` and `paid <= total`.
* `void_invoice` looks at the status and `paid_amount` only. `StatusMatchesLedger`
  makes "sent" mean that nothing is paid net and nothing credited, and then an
  empty sum of positive rows means there is no row, which is `NoOrphanedMoney`.
* `NoOrphanedMoney` in turn lets the cancel and send actions assume that the invoice
  they write to is a live receivable, so that the status they write is right.
* `LedgerNeverCorrupt` and `CancelRefusalTrue` are not part of `IInv`: they follow from
  it. The recomputed position has the credited amount of the row, which is within the
  total, so that of its conditions only *refunded <= paid* can fail; with the refunds
  reversed not even that one.

There is one lemma per action, and under each one step per conjunct of `IInv`.
The laws of sums they use (`SumAdd`, `SumRemove`, `SumZero` and so on) are proved in
`LedgerSumsProofs` from the library's facts about cardinality.

The other theorems follow what a step does to the tables, told once per handler: a *move*
changes the ledger of one invoice, a *restatement* its status, an *insert* adds one row.
From that the permanence of rows and credits is a case for each kind. The numbers
of a series are proved to be an initial segment by counting: the step that takes a number
adds one document and the next number, so as many documents as numbers stay there, and
every other step leaves both alone. In the refinement each kind of move is one of the seven
of `Receivables`; a credit note is no account, so drafting one is a stutter and sending it
a credit on its original.

All of these lemmas are stated for `NextForAnyParty`, a next-state relation in which a new
document may name an inactive party, because that is the step a commit of
`BillingTransactions` makes (finding 5). `AnyParty` says it covers `Next`.

### Transactions: `TransactionProofs`

| Theorem | States, after `SpecTransactions =>` |
|---|---|
| `TransactionsTypeCorrect` | `[]TransactionsTypeOK` |
| `NoDeadlock` | `[]NoWaitCycle` |
| `CancellationsCancel` | `[]CancellationsWork` |
| `DuplicateCheckStands` | `[]PaymentDuplicateCheckHolds` |
| `CommitsAreAtomic` | `AtomicSpec` |
| `LedgerRightAtOnce` | the conjuncts of Billing's `IInv`, always |
| `NumbersWithoutGapAtOnce`, `TwinsImpossibleAtOnce` | `[]NumbersGapless`, `[]NoTwinCreditNotes` |
| `DocumentsKeptAtOnce` | `CreditsArePermanent /\ DocumentsPermanent` |
| `ReceivablesAtOnce` | `ReceivablesSpec` |

The invariant `TInv` says two things of each open transaction. Its *shape* speaks of the
transaction alone: which statement it is at, which locks that implies, what it computed
from the rows it has read. That it *fits* speaks of the committed tables: the rows it
has read are still theirs, its number is still the next one, the facts its checks
established still hold. A step of the transaction itself establishes both; the work is in
the steps of the others. A commit leaves alone every invoice, row and counter outside its
own locks, and `LocksExclusive` says no row has two holders, so whatever a transaction
relies on, and has locked, survives. What it relies on and has *not* locked is dealt with
by hand: an original is never deleted and keeps its type and its party, which is all a debit
note needs of it.
`CommitsAreAtomic` is then direct: what a transaction has computed is what Billing's
handler computes from the committed tables at that moment.

`NoDeadlock` gives each transaction a rank by its statement (`wait_rank`, 0 to 4), from those
that wait with nothing in hand to those that wait for nothing more, and shows that who waits
is of lower rank than whom it waits for. In any set somebody has the highest rank.

### Submissions: `SubmissionProofs`

| Theorem | States, after `Spec =>` |
|---|---|
| `TypeCorrect` | `[]TypeOK` |
| `ExactlyOneDocument` | `[]WorkDoneOnce` |
| `AnswersCorrect` | `[]AnswersTrue` |
| `NumbersWithoutGap` | `[]NumbersGapless` |
| `ProcessingInvisible` | `[]ProcessingNeverSeen` |
| `OneRetrySuffices` | `[]SeedRaceAbsorbed` |
| `ImplementsExactlyOnce` | `ExactlyOnceSpec` |

The invariant says what an open transaction may rely on. Between its reservation and
its end it holds the row of its key, which nobody has committed; once it has a number it
holds the counter, which still stands one below; and whoever lost the race for a counter
finds it committed the next time, so it cannot lose again. The committed documents are
exactly those the reservations name, and each counter equals their number, which gives
`WorkDoneOnce` and `NumbersGapless` together. In the refinement a COMMIT of new work is the
step of `ExactlyOnce` that does it and answers, a replay the step that answers again.

### Figures: `InvoiceDraftProofs`

| Theorem | States |
|---|---|
| `DiscountFits` | the discount of a line never exceeds its rounded value, so the uncaught ValueError of `calculate_taxable_amount` is unreachable |
| `RouteNeutral` | `Spec => []TaxIndependentOfRoute` |
| `DraftTypeCorrect` | `Spec => []TypeOK` |
| `ServerErrorsAreOfSize` | `Spec => FailsForSizeOnly` |
| `HeadersAddUp` | `Spec => []HeaderAddsUp` |
| `HonestTotalsAccepted` | `Spec => []HonestTotalAccepted` |

The facts about one line rest on `RoundBracket`, which encloses the rounding of *n/d*
between *(2n - d)/2d* and *(2n + d)/2d*. A percentage of at most 100 keeps the exact
discount below the exact value of its line, and rounding is monotone. Two halves, each
within half a paisa of the exact half, add up to within one paisa of the exact tax, and
the tax rounded once lies within half a paisa of it; as all are whole paise, at most one is
between them.

The facts about a whole invoice are sums over its lines. They need no induction over the
list: the invariant carries them from line to line. `DraftInv` says that the sums of the
columns add up (`taxable + taxes = total`, `subtotal - discount = taxable`) and that the
server's sum and that of a client which rounds each line once, at the end, differ by at most
4 paise a line; `PriceLine` adds one line to each sum (`SumAdd`), and one line satisfies
them (`LateRounding`). The 4 paise are the bracket again: the taxable value of a line
deviates by at most one paisa, its tax and its cess, at rates of at most 100 %, each by one
for that, and the two halves by one more. The tolerance grows by 5 paise a line, so the
honest total is accepted for any number of lines. The theorem needs the schema's limit of
100 % on a cess rate; without it a paisa of the taxable value could be any number of paise
of cess. The greatest deviation in the TLC instance is 3 paise.

`ServerErrorsAreOfSize` says of two errors that they never happen and of two what they
need. When subtotal and total of the header fit a column, all else fits: discount and
taxable value are parts of the subtotal, each tax is a part of the total, and each
amount of a line is one of the terms of a sum in the header (`LineWithinTally`). The
discrepancy of two totals that fit a column fits one, too, so `quantize` can return it.

### Sessions: `SessionProofs`

`TypeCorrect` (`[]SessionsTypeOK`), `SessionsServed` (`[]ServedUntilLogoutOrExpiry`), `LogoutsFinal`
(`[]LoggedOutStaysOut`) and `SessionsEnd` (`[]SessionBounded`), for all lifetimes of the
tokens and any length of a second. The properties say how an attempt may end; the invariant
adds what an attempt knows on its way there and why that stays true: no step turns the
clock back, changes a signed token, a row's owner or expiry, or takes back a revocation
(`Kept`). A row read before an await may be stale about a logout that overlaps it, and about
nothing else. The row expires no earlier than the token, even though its expiry is computed
later and the token's is compared in whole seconds.

### Registration: `RegistrationProofs`

`Whole` (`Spec => []RegisteredWhole`) and `Truthful` (`Spec => []RegistrationAnswersTrue`),
for any set of requests. The invariant behind them (`Invariance`) adds what the unique
indexes keep apart while it is not committed: two open inserts, or an open insert and a
tenant, share no GSTIN, no PAN and no e-mail. That makes the owner's e-mail free when it is
inserted. A reported duplicate stays true because nothing removes a tenant; and the e-mail
found in `users` is a tenant's, because every tenant has its owner. No assumption is used.

### Directory: `DirectoryProofs`

`DirectoryCorrect` (`Spec => []DirectoryTypeOK`) and `SteadyPartiesListedOnce`
(`Spec => SteadyListedOnce`). The invariant of a traversal: a steady party has been returned
exactly when its key is not beyond the cursor. A write keeps it because steady parties keep
their keys, whatever is written around them. A page keeps it because it is the part of
what lies beyond the old cursor that does not lie beyond the new one: the order of the keys
is total, and in a finite set the numbers of preceding rows are 0, 1, 2 and so on without a
gap (`IndexOnto`, by counting), so that the row the cursor is taken from exists and is the
last of its page.

### Only model-checked

The two liveness properties, `EveryAttemptEnds` and `ListingEnds`: they rest on fairness and
ENABLED, which the provers do not support. The five violations are counterexamples and
need no proof. Out of reach as well, and not needed so far, is what a recursive definition
computes for every input (induction over data); no module with a RECURSIVE operator exists.


## 5. Not modelled, and why

The audit log (nothing writes it), routers and settings keep no state the
properties speak of. The compliance router is not included by `main.py`,
so no request reaches its service today; the profile a registration creates is in
Registration. Migrations are run once by an operator. The lists of invoices and
payments page by the same cursor as that of parties, over a date that never changes;
only the harder one, over a name that does, is modelled. The length of a number is in
the model (`validate_invoice_number_format` guards `send_invoice`), but no run counts
to the 10 000th document of a year, whose 17 characters can be stored and never sent.
The digits that the decimal context of Python drops from products too large for any
column, or of a cess rate with very many decimals, are left out.

## 6. Plan

In this order, the most important behaviour first:

1. *(done)* the billing core, its abstract book, its inductive invariant.
2. *(done)* **Submissions**: idempotency and numbering under interleaving, crashes,
   timeouts and retries; refinement of **ExactlyOnce**; progress.
3. *(done)* **BillingTransactions**: the handlers statement by statement, with row
   locks, waits, reads without a lock and rollback; implements `Billing`.
4. *(done)* **TaxEngine**, **InvoiceDraft**, **Sessions**, **Registration**, **Directory**.
5. *(done)* Proofs of every safety property and refinement the passing runs check.
6. An abstract book of sessions (a session is open, closing or closed) and of tenants (a
   set of whole businesses), with Sessions and Registration shown to implement them, and
   a traversal of a frozen list as the abstract form of Directory's.
7. More lemmas on the operators: the number format against the counter, the place of
   supply against the supply type.

## 7. Running it

    tlc -workers 2 -config MCBilling_ledger.cfg MCBilling
    tlapm BillingProofs.tla
    tlc -workers 2 -config MCBillingTransactions_transactions.cfg MCBillingTransactions
    tlapm TransactionProofs.tla
    tlc -workers 2 -config MCSubmissions_submissions.cfg MCSubmissions
    tlapm SubmissionProofs.tla
    tlc -workers 2 -config MCRegistration_registration.cfg MCRegistration
    tlapm RegistrationProofs.tla
    tlc -workers 2 -config MCDirectory_directory.cfg MCDirectory
    tlapm DirectoryProofs.tla
    tlc -workers 2 -config MCInvoiceDraft_figures.cfg MCInvoiceDraft
    tlapm InvoiceDraftProofs.tla
    tlc -workers 2 -config MCSessions_sessions.cfg MCSessions
    tlapm SessionProofs.tla
