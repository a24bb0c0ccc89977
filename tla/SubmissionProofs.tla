-------------------------- MODULE SubmissionProofs --------------------------
(***************************************************************************)
(* What Submissions promises of interleaved, repeated and interrupted      *)
(* requests, for every number of attempts, keys and invoices.              *)
(*                                                                         *)
(* The invariant says what an open transaction may rely on: it holds the   *)
(* row of its key, which nobody has reserved; once it has a number, it     *)
(* holds the counter the number came from, which still stands one below;   *)
(* and whoever lost a race for a counter finds it there the next time.     *)
(***************************************************************************)
EXTENDS SubmissionProperties, FiniteSetTheorems, TLAPS

\* A session that is not idle has a request, one that is has done nothing,
\* one that has not ended has no answer, and the two answers of try_reserve
\* and of the retry loop that must not be given are not.
begun(a) ==
    /\ pc[a] # "idle" => key[a] \in Keys /\ payload[a] \in Payloads
    /\ pc[a] = "idle" => retries[a] = 0
    /\ pc[a] # "done" => answer[a].kind = "none"
    /\ pc[a] = "lookup" => key[a] \in DOMAIN idempotency_keys
    /\ answer[a].kind \notin {"in_progress", "race"}

\* Between its reservation and its end a session owns its key.
owns_key(a) ==
    pc[a] \in {"lock", "select", "insert", "write"} =>
        /\ holder[KeyRow(key[a])] = a
        /\ key[a] \notin DOMAIN idempotency_keys

\* A number that is not committed yet is the next one.
owns_number(a) ==
    pc[a] = "write" =>
        /\ holder[CounterRow(series(a))] = a
        /\ number[a] = last_number[series(a)] + 1

\* The loser of a race for a counter is not in another one.
lost_once(a) ==
    retries[a] > 0 => last_number[series(a)] > 0 /\ pc[a] # "insert"

answer_true(a) ==
    answered(a) =>
        [key |-> key[a], payload |-> payload[a], number |-> answer[a].number] \in documents

consistent(a) ==
    /\ begun(a)
    /\ owns_key(a)
    /\ owns_number(a)
    /\ lost_once(a)
    /\ answer_true(a)

Completed == \A k \in DOMAIN idempotency_keys : idempotency_keys[k].status = "completed"

\* The documents are what the reservations name.
document(k) ==
    [key |-> k, payload |-> idempotency_keys[k].request_hash,
     number |-> idempotency_keys[k].number]

DocumentsReserved == documents = {document(k) : k \in DOMAIN idempotency_keys}

\* The counter has counted the keys of its series, and their documents.
keys_of(s) == {k \in DOMAIN idempotency_keys : SeriesOf(k) = s}

counted(s) ==
    /\ IsFiniteSet(keys_of(s)) /\ Cardinality(keys_of(s)) = last_number[s]
    /\ IsFiniteSet(numbered(s)) /\ Cardinality(numbered(s)) = last_number[s]
    /\ {d.number : d \in numbered(s)} = 1..last_number[s]

IInv ==
    /\ TypeOK
    /\ \A a \in Attempts : consistent(a)
    /\ Completed
    /\ DocumentsReserved
    /\ \A s \in Series : counted(s)

LEMMA RowsDiffer ==
    /\ \A k, l : KeyRow(k) = KeyRow(l) <=> k = l
    /\ \A s, u : CounterRow(s) = CounterRow(u) <=> s = u
    /\ \A k, s, i : /\ KeyRow(k) # CounterRow(s)
                    /\ KeyRow(k) # InvoiceRow(i)
                    /\ CounterRow(s) # InvoiceRow(i)
BY DEF KeyRow, CounterRow, InvoiceRow

LEMMA RowTypes ==
    ASSUME TypeOK, NEW a \in Attempts, consistent(a), pc[a] # "idle"
    PROVE  /\ key[a] \in Keys /\ payload[a] \in Payloads
           /\ series(a) \in Series
           /\ KeyRow(key[a]) \in Rows
           /\ CounterRow(series(a)) \in Rows
           /\ invoice_row(a) \in Rows
           /\ last_number[series(a)] \in Nat
BY DEF TypeOK, consistent, begun, series, SeriesOf, Series, Rows, invoice_row, Payloads, Keys

-----------------------------------------------------------------------------
(* A step of one session that commits nothing. *)

\* Only a moves; it may take rows that are free and give back its own.
only(a) ==
    /\ UNCHANGED tables
    /\ \A b \in Attempts \ {a} :
          /\ pc'[b] = pc[b] /\ key'[b] = key[b] /\ payload'[b] = payload[b]
          /\ retries'[b] = retries[b] /\ number'[b] = number[b] /\ answer'[b] = answer[b]
    /\ \A row \in Rows :
          \/ holder'[row] = holder[row]
          \/ holder[row] \in {a, Nobody} /\ holder'[row] \in {a, Nobody}

LEMMA OthersUnmoved ==
    ASSUME IInv, NEW a \in Attempts, only(a), TypeOK', consistent(a)'
    PROVE  IInv'
<1>1. ASSUME NEW b \in Attempts \ {a} PROVE consistent(b)'
  <2>1. consistent(b) /\ b # Nobody
    BY NobodyAssumption DEF IInv
  <2>2. pc[b] # "idle" => KeyRow(key[b]) \in Rows /\ CounterRow(series(b)) \in Rows
    BY <2>1, RowTypes DEF IInv
  <2>3. begun(b)'
    BY <2>1 DEF only, tables, consistent, begun
  <2>4. owns_key(b)'
    BY <2>1, <2>2 DEF only, tables, consistent, owns_key
  <2>5. owns_number(b)'
    BY <2>1, <2>2 DEF only, tables, consistent, owns_number, series
  <2>6. lost_once(b)'
    BY <2>1 DEF only, tables, consistent, lost_once, series
  <2>7. answer_true(b)'
    BY <2>1 DEF only, tables, consistent, answer_true, answered
  <2> QED BY <2>3, <2>4, <2>5, <2>6, <2>7 DEF consistent
<1>2. Completed' /\ DocumentsReserved'
  BY DEF IInv, only, tables, Completed, DocumentsReserved, document
<1>3. \A s \in Series : counted(s)'
  BY DEF IInv, only, tables, counted, keys_of, numbered
<1> QED BY <1>1, <1>2, <1>3 DEF IInv

LEMMA SendInv == ASSUME IInv, NEW a \in Attempts, Send(a) PROVE IInv'
<1>1. only(a)
  BY DEF Send, goto, only, tables, IInv, TypeOK
<1>2. TypeOK'
  BY DEF Send, goto, IInv, TypeOK, tables, Statements
<1>3. consistent(a)'
  <2>1. /\ pc'[a] = "reserve" /\ key'[a] \in Keys /\ payload'[a] \in Payloads
        /\ retries'[a] = 0 /\ answer'[a].kind = "none"
    BY DEF Send, goto, IInv, TypeOK, consistent, begun
  <2> QED BY <2>1
          DEF consistent, begun, owns_key, owns_number, lost_once, answer_true, answered
<1> QED BY <1>1, <1>2, <1>3, OthersUnmoved

LEMMA RollBackInv ==
    ASSUME IInv, NEW a \in Attempts, pc[a] \in Statements,
           NEW kind \in {"rejected", "timeout", "crash"}, roll_back(a, kind)
    PROVE  IInv'
<1>1. only(a)
  BY DEF roll_back, respond, release, goto, only, tables, IInv, TypeOK, request
<1>2. TypeOK'
  BY NobodyAssumption
     DEF roll_back, respond, release, goto, request, IInv, TypeOK, tables, Answers
<1>3. consistent(a)'
  BY DEF roll_back, respond, release, goto, request, IInv, TypeOK, tables, consistent,
         begun, owns_key, owns_number, lost_once, answer_true, answered, series, Statements
<1> QED BY <1>1, <1>2, <1>3, OthersUnmoved

LEMMA ReserveInv == ASSUME IInv, NEW a \in Attempts, Reserve(a) PROVE IInv'
<1>1. KeyRow(key[a]) \in Rows /\ pc[a] = "reserve"
  BY RowTypes DEF Reserve, IInv
<1>2. only(a)
  BY <1>1 DEF Reserve, goto, take, taken, only, tables, IInv, TypeOK, request
<1>3. TypeOK'
  BY <1>1, NobodyAssumption
     DEF Reserve, goto, take, request, IInv, TypeOK, tables, Statements
<1>4. consistent(a)'
  BY <1>1 DEF Reserve, goto, take, reserved_before, request, IInv, TypeOK, tables,
         consistent, begun, owns_key, owns_number, lost_once, answer_true, answered, series
<1> QED BY <1>2, <1>3, <1>4, OthersUnmoved

LEMMA LookupInv == ASSUME IInv, NEW a \in Attempts, Lookup(a) PROVE IInv'
<1> DEFINE row == idempotency_keys[key[a]]
           outcome == reservation_outcome(row, payload[a])
<1>1. /\ pc[a] = "lookup" /\ key[a] \in DOMAIN idempotency_keys
      /\ row.status = "completed" /\ row.number \in Nat \ {0}
      /\ document(key[a]) \in documents
  BY DEF Lookup, IInv, TypeOK, consistent, begun, Completed, DocumentsReserved
<1>2. \/ outcome = [kind |-> "reused"]
      \/ outcome = [kind |-> "replayed", number |-> row.number] /\ row.request_hash = payload[a]
  BY <1>1 DEF reservation_outcome
<1>3. only(a)
  BY DEF Lookup, respond, release, goto, only, tables, IInv, TypeOK, request
<1>4. outcome \in Answers
  BY <1>1, <1>2 DEF Answers
<1> HIDE DEF outcome
<1>5. TypeOK'
  BY <1>4, NobodyAssumption
     DEF Lookup, respond, release, goto, request, IInv, TypeOK, tables, outcome
<1>6. consistent(a)'
  <2>1. /\ pc'[a] = "done" /\ answer'[a] = outcome
        /\ key' = key /\ payload' = payload /\ retries' = retries /\ number' = number
        /\ idempotency_keys' = idempotency_keys /\ documents' = documents
        /\ last_number' = last_number
    BY DEF Lookup, respond, goto, request, tables, IInv, TypeOK, outcome
  <2>2. begun(a)' /\ owns_key(a)' /\ owns_number(a)' /\ lost_once(a)'
    BY <1>1, <1>2, <2>1
       DEF IInv, consistent, begun, owns_key, owns_number, lost_once, series
  <2>3. answer_true(a)'
    BY <1>1, <1>2, <2>1 DEF answer_true, answered, document
  <2> QED BY <2>2, <2>3 DEF consistent
<1> QED BY <1>3, <1>5, <1>6, OthersUnmoved

LEMMA LockInvoiceInv == ASSUME IInv, NEW a \in Attempts, LockInvoice(a) PROVE IInv'
<1>1. /\ pc[a] = "lock" /\ key[a] \in Keys
      /\ KeyRow(key[a]) \in Rows /\ KeyRow(key[a]) # invoice_row(a)
      /\ invoice_row(a) \in Rows
  BY RowTypes, RowsDiffer DEF LockInvoice, IInv, invoice_row
<1>2. only(a)
  BY <1>1 DEF LockInvoice, goto, take, taken, only, tables, IInv, TypeOK, request
<1>3. TypeOK'
  BY <1>1, NobodyAssumption
     DEF LockInvoice, goto, take, request, IInv, TypeOK, tables, Statements
<1>4. consistent(a)'
  <2>1. /\ pc'[a] = "select" /\ holder'[KeyRow(key[a])] = holder[KeyRow(key[a])]
        /\ key' = key /\ payload' = payload /\ retries' = retries /\ answer' = answer
        /\ idempotency_keys' = idempotency_keys /\ documents' = documents
        /\ last_number' = last_number
    BY <1>1 DEF LockInvoice, goto, take, request, tables, IInv, TypeOK
  <2> QED BY <1>1, <2>1 DEF IInv, consistent, begun, owns_key, owns_number, lost_once,
                            answer_true, answered, series
<1> QED BY <1>2, <1>3, <1>4, OthersUnmoved

LEMMA SelectCounterInv == ASSUME IInv, NEW a \in Attempts, SelectCounter(a) PROVE IInv'
<1> DEFINE n == last_number[series(a)]
           row == CounterRow(series(a))
<1>1. /\ pc[a] = "select" /\ key[a] \in Keys /\ n \in Nat
      /\ KeyRow(key[a]) \in Rows /\ row \in Rows /\ KeyRow(key[a]) # row
  BY RowTypes, RowsDiffer DEF SelectCounter, IInv
<1>2. \/ /\ n = 0 /\ pc' = [pc EXCEPT ![a] = "insert"]
         /\ holder' = holder /\ number' = number
      \/ /\ n # 0 /\ pc' = [pc EXCEPT ![a] = "write"]
         /\ holder[row] \in {a, Nobody} /\ holder' = [holder EXCEPT ![row] = a]
         /\ number' = [number EXCEPT ![a] = n + 1]
  BY DEF SelectCounter, goto, lock_counter, take, taken
<1>3. UNCHANGED <<idempotency_keys, documents, last_number, key, payload, retries, answer>>
  BY DEF SelectCounter, tables, request
<1> HIDE DEF n, row
<1>4. only(a)
  BY <1>1, <1>2, <1>3 DEF only, tables, IInv, TypeOK
<1>5. TypeOK'
  BY <1>1, <1>2, <1>3, NobodyAssumption DEF IInv, TypeOK, Statements
<1>6. consistent(a)'
  <2>1. holder'[KeyRow(key[a])] = holder[KeyRow(key[a])]
    BY <1>1, <1>2 DEF IInv, TypeOK
  <2>2. begun(a)' /\ owns_key(a)' /\ answer_true(a)'
    BY <1>1, <1>2, <1>3, <2>1
       DEF IInv, TypeOK, consistent, begun, owns_key, answer_true, answered
  <2>3. lost_once(a)'
    BY <1>1, <1>2, <1>3 DEF IInv, TypeOK, consistent, lost_once, series, n
  <2>4. owns_number(a)'
    BY <1>1, <1>2, <1>3 DEF IInv, TypeOK, owns_number, series, n, row
  <2> QED BY <2>2, <2>3, <2>4 DEF consistent
<1> QED BY <1>4, <1>5, <1>6, OthersUnmoved

LEMMA SeedCounterInv == ASSUME IInv, NEW a \in Attempts, SeedCounter(a) PROVE IInv'
<1> DEFINE row == CounterRow(series(a))
<1>1. /\ pc[a] = "insert" /\ key[a] \in Keys /\ last_number[series(a)] = 0
      /\ KeyRow(key[a]) \in Rows /\ row \in Rows /\ KeyRow(key[a]) # row
  BY RowTypes, RowsDiffer DEF SeedCounter, IInv
<1>2. /\ pc' = [pc EXCEPT ![a] = "write"]
      /\ holder[row] \in {a, Nobody} /\ holder' = [holder EXCEPT ![row] = a]
      /\ number' = [number EXCEPT ![a] = 1]
      /\ UNCHANGED <<idempotency_keys, documents, last_number, key, payload, retries, answer>>
  BY DEF SeedCounter, goto, take, taken, tables, request
<1> HIDE DEF row
<1>3. only(a)
  BY <1>1, <1>2 DEF only, tables, IInv, TypeOK
<1>4. TypeOK'
  BY <1>1, <1>2, NobodyAssumption DEF IInv, TypeOK, Statements
<1>5. consistent(a)'
  <2>1. holder'[KeyRow(key[a])] = holder[KeyRow(key[a])]
    BY <1>1, <1>2
  <2>2. begun(a)' /\ owns_key(a)' /\ answer_true(a)'
    BY <1>1, <1>2, <2>1
       DEF IInv, TypeOK, consistent, begun, owns_key, answer_true, answered
  <2>3. lost_once(a)'
    BY <1>1, <1>2 DEF IInv, TypeOK, consistent, lost_once, series
  <2>4. owns_number(a)'
    BY <1>1, <1>2 DEF IInv, TypeOK, owns_number, series, row
  <2> QED BY <2>2, <2>3, <2>4 DEF consistent
<1> QED BY <1>3, <1>4, <1>5, OthersUnmoved

\* One retry is enough: who has lost a race is never in a second one.
LEMMA LoseSeedRaceInv == ASSUME IInv, NEW a \in Attempts, LoseSeedRace(a) PROVE IInv'
<1>1. /\ pc[a] = "insert" /\ key[a] \in Keys /\ last_number[series(a)] > 0
      /\ KeyRow(key[a]) \in Rows /\ retries[a] \in Nat
  BY RowTypes DEF LoseSeedRace, IInv, TypeOK
<1>2. retries[a] = 0
  BY <1>1 DEF IInv, consistent, lost_once
<1>3. /\ retries' = [retries EXCEPT ![a] = 1]
      /\ UNCHANGED <<idempotency_keys, documents, last_number, key, payload, number, answer>>
      /\ \/ pc' = [pc EXCEPT ![a] = "select"] /\ holder' = holder
         \/ /\ pc' = [pc EXCEPT ![a] = "reserve"]
            /\ holder' = [row \in Rows |-> IF holder[row] = a THEN Nobody ELSE holder[row]]
  BY <1>2 DEF LoseSeedRace, may_retry, _MAX_SEQUENCE_RETRIES, goto, release, tables, request
<1>4. only(a)
  BY <1>1, <1>3 DEF only, tables, IInv, TypeOK
<1>5. TypeOK'
  BY <1>1, <1>3, NobodyAssumption DEF IInv, TypeOK, Statements, _MAX_SEQUENCE_RETRIES
<1>6. consistent(a)'
  BY <1>1, <1>3 DEF IInv, TypeOK, consistent, begun, owns_key, owns_number, lost_once,
                    answer_true, answered, series
<1> QED BY <1>4, <1>5, <1>6, OthersUnmoved

-----------------------------------------------------------------------------
(* The commit. *)

\* The document with the next number.
LEMMA NextDocument ==
    ASSUME NEW D, NEW n \in Nat, IsFiniteSet(D), Cardinality(D) = n,
           {d.number : d \in D} = 1..n, NEW e, e.number = n + 1
    PROVE  /\ IsFiniteSet(D \cup {e}) /\ Cardinality(D \cup {e}) = n + 1
           /\ {d.number : d \in D \cup {e}} = 1..(n + 1)
<1>1. e \notin D
  <2> SUFFICES ASSUME e \in D PROVE FALSE
    OBVIOUS
  <2>1. e.number \in 1..n
    OBVIOUS
  <2> QED BY <2>1
<1>2. IsFiniteSet(D \cup {e}) /\ Cardinality(D \cup {e}) = n + 1
  BY <1>1, FS_AddElement
<1>3. {d.number : d \in D \cup {e}} = {d.number : d \in D} \cup {n + 1}
  OBVIOUS
<1>4. 1..(n + 1) = 1..n \cup {n + 1}
  OBVIOUS
<1> QED BY <1>2, <1>3, <1>4

\* What a commit does, in terms of the session that commits.
commits(a) ==
    /\ key[a] \in Keys /\ payload[a] \in Payloads
    /\ key[a] \notin DOMAIN idempotency_keys
    /\ holder[KeyRow(key[a])] = a
    /\ holder[CounterRow(series(a))] = a
    /\ last_number[series(a)] \in Nat
    /\ number[a] = last_number[series(a)] + 1
    /\ last_number' = [last_number EXCEPT ![series(a)] = number[a]]
    /\ documents' = documents \cup
          {[key |-> key[a], payload |-> payload[a], number |-> number[a]]}
    /\ DOMAIN idempotency_keys' = DOMAIN idempotency_keys \cup {key[a]}
    /\ \A k \in DOMAIN idempotency_keys : idempotency_keys'[k] = idempotency_keys[k]
    /\ idempotency_keys'[key[a]] =
          [request_hash |-> payload[a], status |-> "completed", number |-> number[a]]
    /\ pc' = [pc EXCEPT ![a] = "done"]
    /\ holder' = [row \in Rows |-> IF holder[row] = a THEN Nobody ELSE holder[row]]
    /\ answer' = [answer EXCEPT ![a] = [kind |-> "created", number |-> number[a]]]
    /\ UNCHANGED <<key, payload, retries, number>>

LEMMA CommitCommits == ASSUME IInv, NEW a \in Attempts, Commit(a) PROVE commits(a)
<1>1. pc[a] = "write" /\ consistent(a) /\ TypeOK
  BY DEF Commit, IInv
<1>2. /\ key[a] \in Keys /\ payload[a] \in Payloads
      /\ key[a] \notin DOMAIN idempotency_keys
      /\ holder[KeyRow(key[a])] = a
      /\ holder[CounterRow(series(a))] = a
      /\ last_number[series(a)] \in Nat
      /\ number[a] = last_number[series(a)] + 1
  BY <1>1, RowTypes DEF consistent, owns_key, owns_number
<1> QED BY <1>2 DEF Commit, commits, counter_after, completed_row, respond, goto, release,
                    request

LEMMA CommitTypes == ASSUME IInv, NEW a \in Attempts, commits(a) PROVE TypeOK'
<1>1. TypeOK /\ number[a] \in Nat \ {0}
  BY DEF IInv, commits
<1>2. \A k \in DOMAIN idempotency_keys' :
         idempotency_keys'[k] \in [request_hash : Payloads, number : Nat \ {0},
                                   status : {"processing", "completed"}]
  BY <1>1 DEF commits, TypeOK
<1>3. documents' \subseteq [key : Keys, payload : Payloads, number : Nat \ {0}]
  BY <1>1 DEF commits, TypeOK
<1>4. answer' \in [Attempts -> Answers]
  BY <1>1 DEF commits, TypeOK, Answers
<1>5. /\ DOMAIN idempotency_keys' \subseteq Keys
      /\ last_number' \in [Series -> Nat]
      /\ holder' \in [Rows -> Attempts \cup {Nobody}]
      /\ pc' \in [Attempts -> Statements \cup {"idle", "done"}]
      /\ \A row \in Rows : holder'[row] # Nobody => pc'[holder'[row]] \in Statements
  BY <1>1, NobodyAssumption DEF commits, TypeOK
<1> QED BY <1>1, <1>2, <1>3, <1>4, <1>5 DEF commits, TypeOK

LEMMA CommitSessions ==
    ASSUME IInv, NEW a \in Attempts, commits(a), pc[a] = "write", NEW b \in Attempts
    PROVE  consistent(b)'
<1>1. TypeOK /\ consistent(a) /\ consistent(b) /\ b # Nobody /\ a # Nobody
  BY NobodyAssumption DEF IInv
<1>2. /\ key'[b] = key[b] /\ payload'[b] = payload[b] /\ retries'[b] = retries[b]
      /\ number'[b] = number[b] /\ series(b)' = series(b)
  BY DEF commits, series
<1>3. CASE b = a
  <2>1. /\ pc'[b] = "done"
        /\ answer'[b] = [kind |-> "created", number |-> number[b]]
        /\ [key |-> key[b], payload |-> payload[b], number |-> number[b]] \in documents'
        /\ key[b] \in Keys /\ payload[b] \in Payloads
    BY <1>1, <1>3 DEF commits, TypeOK
  <2>2. retries[b] > 0 => last_number'[series(b)] > 0
    BY <1>1, <1>3, RowTypes DEF commits, TypeOK
  <2> QED BY <1>2, <2>1, <2>2 DEF consistent, begun, owns_key, owns_number, lost_once,
                                  answer_true, answered
<1>4. CASE b # a
  <2>1. pc'[b] = pc[b] /\ answer'[b] = answer[b]
    BY <1>1, <1>4 DEF commits, TypeOK
  <2>2. pc[b] # "idle" => /\ KeyRow(key[b]) \in Rows /\ CounterRow(series(b)) \in Rows
                          /\ series(b) \in Series
    BY <1>1, RowTypes
  <2>3. begun(b)'
    BY <1>1, <1>2, <2>1 DEF commits, consistent, begun
  <2>4. owns_key(b)'
    BY <1>1, <1>2, <1>4, <2>1, <2>2, RowsDiffer DEF commits, consistent, owns_key
  <2>5. owns_number(b)'
    <3>1. SUFFICES ASSUME pc[b] = "write"
                   PROVE  /\ holder'[CounterRow(series(b))] = b
                          /\ number[b] = last_number'[series(b)] + 1
      BY <1>2, <2>1 DEF owns_number
    <3>2. holder[CounterRow(series(b))] = b /\ number[b] = last_number[series(b)] + 1
      BY <1>1, <3>1 DEF consistent, owns_number
    <3>3. series(b) # series(a)
      BY <1>4, <3>2 DEF commits
    <3> QED BY <1>1, <1>4, <2>2, <3>1, <3>2, <3>3 DEF commits, TypeOK
  <2>6. lost_once(b)'
    <3>1. SUFFICES ASSUME retries[b] > 0
                   PROVE  last_number'[series(b)] > 0 /\ pc[b] # "insert"
      BY <1>2, <2>1 DEF lost_once
    <3>2. last_number[series(b)] > 0 /\ pc[b] # "insert" /\ series(b) \in Series
      BY <1>1, <2>2, <3>1 DEF consistent, lost_once, begun, TypeOK
    <3> QED BY <1>1, <3>2 DEF commits, TypeOK
  <2>7. answer_true(b)'
    BY <1>1, <1>2, <2>1 DEF commits, consistent, answer_true, answered
  <2> QED BY <2>3, <2>4, <2>5, <2>6, <2>7 DEF consistent
<1> QED BY <1>3, <1>4

LEMMA CommitCounts ==
    ASSUME IInv, NEW a \in Attempts, commits(a), NEW s \in Series
    PROVE  counted(s)'
<1> DEFINE d == [key |-> key[a], payload |-> payload[a], number |-> number[a]]
           n == last_number[s]
<1>1. TypeOK /\ counted(s) /\ n \in Nat
  BY DEF IInv, TypeOK
<1>2. CASE s = series(a)
  <2>1. keys_of(s)' = keys_of(s) \cup {key[a]} /\ key[a] \notin keys_of(s)
    BY <1>2 DEF commits, keys_of, series
  <2>2. numbered(s)' = numbered(s) \cup {d}
    BY <1>2 DEF commits, numbered, series
  <2>3. d.number = n + 1 /\ last_number'[s] = n + 1
    BY <1>1, <1>2 DEF commits, TypeOK
  <2> HIDE DEF d, n
  <2>4. IsFiniteSet(keys_of(s)') /\ Cardinality(keys_of(s)') = n + 1
    BY <1>1, <2>1, FS_AddElement DEF counted, n
  <2>5. /\ IsFiniteSet(numbered(s)') /\ Cardinality(numbered(s)') = n + 1
        /\ {e.number : e \in numbered(s)'} = 1..(n + 1)
    BY <1>1, <2>2, <2>3, NextDocument DEF counted, n
  <2> QED BY <2>3, <2>4, <2>5 DEF counted
<1>3. CASE s # series(a)
  <2>1. keys_of(s)' = keys_of(s) /\ numbered(s)' = numbered(s)
    BY <1>3 DEF commits, keys_of, numbered, series
  <2>2. last_number'[s] = last_number[s]
    BY <1>1, <1>3 DEF commits, TypeOK
  <2> QED BY <1>1, <2>1, <2>2 DEF counted
<1> QED BY <1>2, <1>3

LEMMA CommitInv == ASSUME IInv, NEW a \in Attempts, Commit(a) PROVE IInv'
<1>1. commits(a) /\ pc[a] = "write"
  BY CommitCommits DEF Commit
<1>2. Completed'
  BY <1>1 DEF IInv, commits, Completed
<1>3. DocumentsReserved'
  <2> DEFINE new == idempotency_keys'
             d == [key |-> key[a], payload |-> payload[a], number |-> number[a]]
             named(k) == [key |-> k, payload |-> new[k].request_hash, number |-> new[k].number]
  <2>1. documents = {document(k) : k \in DOMAIN idempotency_keys}
    BY DEF IInv, DocumentsReserved
  <2>2. \A k \in DOMAIN idempotency_keys : named(k) = document(k)
    BY <1>1 DEF commits, document
  <2>3. named(key[a]) = d
    BY <1>1 DEF commits
  <2>4. /\ documents' = documents \cup {d}
        /\ DOMAIN new = DOMAIN idempotency_keys \cup {key[a]}
    BY <1>1 DEF commits
  <2> HIDE DEF named, d, new
  <2>5. documents' = {named(k) : k \in DOMAIN new}
    BY <2>1, <2>2, <2>3, <2>4
  <2> QED BY <2>5 DEF DocumentsReserved, document, named, new
<1> QED BY <1>1, <1>2, <1>3, CommitTypes, CommitSessions, CommitCounts DEF IInv

-----------------------------------------------------------------------------
(* The invariant. *)

LEMMA InitInv == Init => IInv
<1> SUFFICES ASSUME Init PROVE IInv
  OBVIOUS
<1>1. TypeOK
  BY DEF Init, TypeOK, Answers, _MAX_SEQUENCE_RETRIES
<1>2. \A a \in Attempts : consistent(a)
  BY DEF Init, consistent, begun, owns_key, owns_number, lost_once, answer_true, answered
<1>3. Completed /\ DocumentsReserved
  BY DEF Init, Completed, DocumentsReserved
<1>4. ASSUME NEW s \in Series PROVE counted(s)
  <2>1. keys_of(s) = {} /\ numbered(s) = {} /\ last_number[s] = 0
    BY DEF Init, keys_of, numbered
  <2> QED BY <2>1, FS_EmptySet DEF counted
<1> QED BY <1>1, <1>2, <1>3, <1>4 DEF IInv

LEMMA StepInv == IInv /\ [Next]_vars => IInv'
<1> SUFFICES ASSUME IInv, [Next]_vars PROVE IInv'
  OBVIOUS
<1>1. CASE UNCHANGED vars
  <2>1. TypeOK'
    BY <1>1 DEF vars, tables, request, IInv, TypeOK
  <2>2. \A a \in Attempts : consistent(a)'
    BY <1>1 DEF vars, tables, request, IInv, consistent, begun, owns_key, owns_number,
                series, lost_once, answer_true, answered
  <2>3. Completed' /\ DocumentsReserved'
    BY <1>1 DEF vars, tables, IInv, Completed, DocumentsReserved, document
  <2>4. \A s \in Series : counted(s)'
    BY <1>1 DEF vars, tables, IInv, counted, keys_of, numbered
  <2> QED BY <2>1, <2>2, <2>3, <2>4 DEF IInv
<1>2. ASSUME NEW a \in Attempts, Execute(a) PROVE IInv'
  BY <1>2, ReserveInv, LookupInv, LockInvoiceInv, SelectCounterInv, SeedCounterInv,
     LoseSeedRaceInv, CommitInv DEF Execute
<1>3. ASSUME NEW a \in Attempts, Reject(a) \/ LockTimeout(a) \/ Crash(a) PROVE IInv'
  <2>1. pc[a] \in Statements
    BY <1>3 DEF Reject, LockTimeout, Crash, awaited, taken, Statements
  <2> QED BY <1>3, <2>1, RollBackInv DEF Reject, LockTimeout, Crash
<1> QED BY <1>1, <1>2, <1>3, SendInv DEF Next

THEOREM Invariance == Spec => []IInv
BY InitInv, StepInv, PTL DEF Spec

(***************************************************************************)
(* Session state and columns are typed, and only running transactions hold *)
(* rows: nothing is left locked, whoever crashed or timed out.             *)
(***************************************************************************)
THEOREM TypeCorrect == Spec => []TypeOK
BY Invariance, PTL DEF IInv

(***************************************************************************)
(* The work of a key is done at most once, however its attempts overlap,   *)
(* crash and are repeated, and is there exactly if the key is reserved.    *)
(***************************************************************************)
THEOREM ExactlyOneDocument == Spec => []WorkDoneOnce
<1>1. IInv => WorkDoneOnce
  BY DEF IInv, DocumentsReserved, document, WorkDoneOnce
<1> QED BY <1>1, Invariance, PTL

(***************************************************************************)
(* Who is told of a document is told of one that was committed for this    *)
(* key and this request.                                                   *)
(***************************************************************************)
THEOREM AnswersCorrect == Spec => []AnswersTrue
<1>1. IInv => AnswersTrue
  BY DEF IInv, consistent, answer_true, AnswersTrue
<1> QED BY <1>1, Invariance, PTL

(***************************************************************************)
(* The committed numbers of each series are 1, 2, 3, ..., each once,       *)
(* although transactions that had taken one roll back.                     *)
(***************************************************************************)
THEOREM NumbersWithoutGap == Spec => []NumbersGapless
<1>1. IInv => NumbersGapless
  BY DEF IInv, counted, NumbersGapless
<1> QED BY <1>1, Invariance, PTL

(***************************************************************************)
(* A reservation without its answer is never seen by another transaction,  *)
(* and the row an insert collided with is there when it is read.           *)
(***************************************************************************)
THEOREM ProcessingInvisible == Spec => []ProcessingNeverSeen
<1>1. IInv => ProcessingNeverSeen
  BY DEF IInv, consistent, begun, ProcessingNeverSeen
<1> QED BY <1>1, Invariance, PTL

(***************************************************************************)
(* One retry is enough, for any number of attempts at the first number of  *)
(* a series: nobody is answered with the lost race.                        *)
(***************************************************************************)
THEOREM OneRetrySuffices == Spec => []SeedRaceAbsorbed
<1>1. IInv => SeedRaceAbsorbed
  BY DEF IInv, consistent, begun, SeedRaceAbsorbed
<1> QED BY <1>1, Invariance, PTL

-----------------------------------------------------------------------------
(* Interleaved attempts do what a server that takes one at a time would.   *)

\* The register and the replies ExactlyOnce is given, before and after a step.
the_register ==
    [k \in DOMAIN idempotency_keys |->
        [payload |-> idempotency_keys[k].request_hash,
         number |-> idempotency_keys[k].number]]
register_after ==
    [k \in DOMAIN idempotency_keys' |->
        [payload |-> idempotency_keys'[k].request_hash,
         number |-> idempotency_keys'[k].number]]
the_replies ==
    {<<key[a], payload[a], answer[a].number>> : a \in {b \in Attempts : answered(b)}}
replies_after ==
    {<<key'[a], payload'[a], answer'[a].number>> :
        a \in {b \in Attempts : answer'[b].kind \in {"created", "replayed"}}}

\* Others are answered as before, and a was not answered yet.
LEMMA OneReply ==
    ASSUME IInv, NEW a \in Attempts, pc[a] # "done",
           \A b \in Attempts \ {a} :
              key'[b] = key[b] /\ payload'[b] = payload[b] /\ answer'[b] = answer[b]
    PROVE  replies_after =
              IF answer'[a].kind \in {"created", "replayed"}
              THEN the_replies \cup {<<key'[a], payload'[a], answer'[a].number>>}
              ELSE the_replies
<1>1. ~answered(a)
  BY DEF IInv, consistent, begun, answered
<1> QED BY <1>1 DEF the_replies, replies_after, answered

LEMMA ReplayRefines ==
    ASSUME IInv, NEW a \in Attempts, Lookup(a)
    PROVE  Promise!Next \/ (register_after = the_register /\ replies_after = the_replies)
<1> DEFINE row == idempotency_keys[key[a]]
           outcome == reservation_outcome(row, payload[a])
<1>1. /\ pc[a] = "lookup" /\ key[a] \in Keys /\ payload[a] \in Payloads
      /\ key[a] \in DOMAIN idempotency_keys /\ row.status = "completed"
  BY DEF Lookup, IInv, consistent, begun, Completed
<1>2. \/ outcome = [kind |-> "reused"]
      \/ outcome = [kind |-> "replayed", number |-> row.number] /\ row.request_hash = payload[a]
  BY <1>1 DEF reservation_outcome
<1>3. /\ answer' = [answer EXCEPT ![a] = outcome] /\ DOMAIN answer = Attempts
      /\ key' = key /\ payload' = payload /\ idempotency_keys' = idempotency_keys
  BY DEF Lookup, respond, tables, request, IInv, TypeOK
<1> HIDE DEF outcome
<1>4. register_after = the_register
  BY <1>3 DEF the_register, register_after
<1>5. replies_after = IF answer'[a].kind \in {"created", "replayed"}
                      THEN the_replies \cup {<<key[a], payload[a], answer'[a].number>>}
                      ELSE the_replies
  BY <1>1, <1>3, OneReply
<1>6. CASE outcome = [kind |-> "reused"]
  BY <1>3, <1>4, <1>5, <1>6
<1>7. CASE outcome = [kind |-> "replayed", number |-> row.number] /\ row.request_hash = payload[a]
  <2>1. /\ key[a] \in DOMAIN the_register
        /\ the_register[key[a]].payload = payload[a]
        /\ replies_after = the_replies \cup {<<key[a], payload[a], the_register[key[a]].number>>}
    BY <1>1, <1>3, <1>5, <1>7 DEF the_register
  <2> PICK k \in Keys, p \in Payloads : k = key[a] /\ p = payload[a]
    BY <1>1
  <2>2. Promise!Replay(k, p)
    BY <1>4, <2>1 DEF Promise!Replay, Promise!served, the_register, register_after,
                      the_replies, replies_after, answered
  <2> QED BY <2>2 DEF Promise!Next
<1> QED BY <1>2, <1>6, <1>7

LEMMA ExecuteRefines ==
    ASSUME IInv, NEW a \in Attempts, Commit(a)
    PROVE  Promise!Next
<1>1. commits(a) /\ pc[a] = "write" /\ TypeOK
  BY CommitCommits DEF Commit, IInv
<1> PICK k \in Keys, p \in Payloads : k = key[a] /\ p = payload[a]
  BY <1>1 DEF commits
<1> DEFINE n == number[a]
           s == series(a)
<1>2. s \in Series /\ k \notin DOMAIN the_register
  BY <1>1, RowTypes DEF IInv, commits, the_register
<1>3. n = 1 + Cardinality({j \in DOMAIN the_register : SeriesOf(j) = SeriesOf(k)})
  <2>1. keys_of(s) = {j \in DOMAIN the_register : SeriesOf(j) = SeriesOf(k)}
    BY DEF keys_of, the_register, series
  <2>2. Cardinality(keys_of(s)) = last_number[s] /\ last_number[s] \in Nat
    BY <1>1, <1>2 DEF IInv, counted, commits
  <2>3. n = last_number[s] + 1
    BY <1>1 DEF commits
  <2> QED BY <2>1, <2>2, <2>3
<1>4. register_after = [j \in DOMAIN the_register \cup {k} |->
          IF j \in DOMAIN the_register THEN the_register[j]
          ELSE [payload |-> p, number |-> n]]
  BY <1>1 DEF commits, the_register, register_after
<1>5. replies_after = the_replies \cup {<<k, p, n>>}
  <2>1. /\ answer' = [answer EXCEPT ![a] = [kind |-> "created", number |-> n]]
        /\ DOMAIN answer = Attempts /\ key' = key /\ payload' = payload
    BY <1>1 DEF commits, TypeOK
  <2> QED BY <1>1, <2>1, OneReply
<1>6. Promise!Execute(k, p)
  <2>1. \A j : Promise!served(j) <=> j \in DOMAIN the_register
    BY DEF Promise!served, the_register
  \* ExactlyOnce's own copy of Cardinality: expanded, the two are the same function.
  <2>2. Promise!following(k) = n
    BY <1>3 DEF Promise!following, the_register, Promise!Cardinality, Cardinality
  <2> QED BY <1>2, <1>4, <1>5, <2>1, <2>2
          DEF Promise!Execute, the_register, register_after, the_replies, replies_after,
              answered
<1> QED BY <1>6 DEF Promise!Next

\* Every statement executes a request, replays one, or is none of the client's business.
LEMMA RefinesStep ==
    IInv /\ [Next]_vars =>
        Promise!Next \/ (register_after = the_register /\ replies_after = the_replies)
<1> SUFFICES ASSUME IInv, [Next]_vars
             PROVE  \/ Promise!Next
                    \/ register_after = the_register /\ replies_after = the_replies
  OBVIOUS
<1>1. CASE UNCHANGED vars
  BY <1>1 DEF vars, tables, request, the_register, register_after, the_replies,
              replies_after, answered
<1>2. ASSUME NEW a \in Attempts,
             \/ Send(a) \/ Reserve(a) \/ LockInvoice(a) \/ SelectCounter(a)
             \/ SeedCounter(a) \/ LoseSeedRace(a)
      PROVE  register_after = the_register /\ replies_after = the_replies
  <2>1. /\ pc[a] # "done" /\ UNCHANGED tables
        /\ \A b \in Attempts \ {a} : key'[b] = key[b] /\ payload'[b] = payload[b]
    BY <1>2 DEF Send, Reserve, LockInvoice, SelectCounter, SeedCounter, LoseSeedRace,
                roll_back, request, tables, IInv, TypeOK
  <2>2. CASE answer' = answer
    <3>1. answer'[a].kind = "none"
      BY <2>1, <2>2 DEF IInv, consistent, begun
    <3> QED BY <2>1, <2>2, <3>1, OneReply DEF tables, the_register, register_after
  <2>3. CASE answer' # answer
    <3>1. LoseSeedRace(a) /\ roll_back(a, "race")
      BY <1>2, <2>3 DEF Send, Reserve, LockInvoice, SelectCounter, SeedCounter, LoseSeedRace
    <3>2. answer' = [answer EXCEPT ![a] = [kind |-> "race"]] /\ DOMAIN answer = Attempts
      BY <3>1 DEF roll_back, respond, IInv, TypeOK
    <3> QED BY <2>1, <3>2, OneReply DEF tables, the_register, register_after
  <2> QED BY <2>2, <2>3
<1>3. ASSUME NEW a \in Attempts, Reject(a) \/ LockTimeout(a) \/ Crash(a)
      PROVE  register_after = the_register /\ replies_after = the_replies
  <2>1. /\ pc[a] # "done"
        /\ \E kind \in {"rejected", "timeout", "crash"} : roll_back(a, kind)
    BY <1>3 DEF Reject, LockTimeout, Crash, awaited, taken, Statements
  <2>2. /\ UNCHANGED tables /\ key' = key /\ payload' = payload
        /\ \E kind \in {"rejected", "timeout", "crash"} :
              answer' = [answer EXCEPT ![a] = [kind |-> kind]]
        /\ DOMAIN answer = Attempts
    BY <2>1 DEF roll_back, respond, request, IInv, TypeOK
  <2> QED BY <2>1, <2>2, OneReply DEF tables, the_register, register_after
<1> QED BY <1>1, <1>2, <1>3, ReplayRefines, ExecuteRefines DEF Next, Execute

(***************************************************************************)
(* Seen through the committed reservations and the answers, any number of  *)
(* interleaved, repeated, crashed and timed out attempts do what a server  *)
(* that takes one request at a time would do.                              *)
(***************************************************************************)
THEOREM ImplementsExactlyOnce == Spec => ExactlyOnceSpec
<1>1. Init => Promise!Init
  <2> SUFFICES ASSUME Init PROVE the_register = << >> /\ the_replies = {}
    BY DEF Promise!Init, the_register, the_replies
  <2> QED BY DEF Init, the_register, the_replies, answered
<1>2. IInv /\ [Next]_vars => [Promise!Next]_<<the_register, the_replies>>
  BY RefinesStep DEF the_register, register_after, the_replies, replies_after, answered
<1> QED BY <1>1, <1>2, Invariance, PTL
        DEF Spec, ExactlyOnceSpec, Promise!Spec, the_register, the_replies

=============================================================================
