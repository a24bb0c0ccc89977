------------------------ MODULE SubmissionProperties ------------------------
(***************************************************************************)
(* What must hold of interleaved, repeated and interrupted requests.       *)
(***************************************************************************)
EXTENDS Submissions

numbered(s) == {d \in documents : SeriesOf(d.key) = s}

answered(a) == answer[a].kind \in {"created", "replayed"}

(***************************************************************************)
(* Columns and session state are typed, and only the open transaction of   *)
(* an attempt that is still running holds rows.                            *)
(***************************************************************************)
TypeOK ==
    /\ DOMAIN idempotency_keys \subseteq Keys
    /\ \A k \in DOMAIN idempotency_keys :
          idempotency_keys[k] \in [request_hash : Payloads, number : Nat \ {0},
                                   status : {"processing", "completed"}]
    /\ documents \subseteq [key : Keys, payload : Payloads, number : Nat \ {0}]
    /\ last_number \in [Series -> Nat]
    /\ holder \in [Rows -> Attempts \cup {Nobody}]
    /\ pc \in [Attempts -> Statements \cup {"idle", "done"}]
    /\ key \in [Attempts -> Keys \cup {NoKey}]
    /\ payload \in [Attempts -> Payloads \cup {NoPayload}]
    /\ retries \in [Attempts -> 0.._MAX_SEQUENCE_RETRIES]
    /\ number \in [Attempts -> Nat]
    /\ answer \in [Attempts -> Answers]
    /\ \A row \in Rows : holder[row] # Nobody => pc[holder[row]] \in Statements

(***************************************************************************)
(* IdempotencyKey's docstring: one logical client operation executes at    *)
(* most once.  A key has its document if and only if it is reserved, and   *)
(* the reservation names that document; an attempt that was rejected,      *)
(* timed out, crashed or lost a race leaves neither behind.                *)
(***************************************************************************)
WorkDoneOnce ==
    \A k \in Keys :
        {d \in documents : d.key = k} =
            {[key |-> k, payload |-> idempotency_keys[j].request_hash,
              number |-> idempotency_keys[j].number] :
                j \in DOMAIN idempotency_keys \cap {k}}

(***************************************************************************)
(* Whoever is told of a document is told of one that exists and that is    *)
(* what this request asked for, also when another attempt did the work.    *)
(***************************************************************************)
AnswersTrue ==
    \A a \in Attempts : answered(a) =>
        [key |-> key[a], payload |-> payload[a], number |-> answer[a].number] \in documents

(***************************************************************************)
(* get_next_invoice_number: "No gaps, no reuse", with the first number of  *)
(* a series raced for and transactions rolled back after they took one.    *)
(***************************************************************************)
NumbersGapless ==
    \A s \in Series :
        /\ {d.number : d \in numbered(s)} = 1..last_number[s]
        /\ Cardinality(numbered(s)) = last_number[s]

(***************************************************************************)
(* try_reserve's last two branches are unreachable: a reservation without  *)
(* its answer is never visible to another transaction, and the row an      *)
(* insert collided with is still there when it is read.                    *)
(***************************************************************************)
ProcessingNeverSeen ==
    \A a \in Attempts :
        /\ answer[a].kind # "in_progress"
        /\ pc[a] = "lookup" => key[a] \in DOMAIN idempotency_keys

(***************************************************************************)
(* One retry is enough: nobody is told of invoice_sequences_pkey.          *)
(***************************************************************************)
SeedRaceAbsorbed == \A a \in Attempts : answer[a].kind # "race"

(***************************************************************************)
(* Waiting for rows ends: no cycle of attempts waits for each other and    *)
(* nobody finishes with a row in hand.                                     *)
(***************************************************************************)
EveryAttemptEnds == \A a \in Attempts : pc[a] = "reserve" ~> pc[a] = "done"

-----------------------------------------------------------------------------

Promise == INSTANCE ExactlyOnce WITH
    register <- [k \in DOMAIN idempotency_keys |->
                   [payload |-> idempotency_keys[k].request_hash,
                    number |-> idempotency_keys[k].number]],
    replies <- {<<key[a], payload[a], answer[a].number>> :
                  a \in {b \in Attempts : answered(b)}}

(***************************************************************************)
(* Seen through the committed reservations and the answers, interleaved    *)
(* attempts do what a server that takes one request at a time would do.    *)
(***************************************************************************)
ExactlyOnceSpec == Promise!Spec

=============================================================================
