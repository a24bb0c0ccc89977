---------------------------- MODULE ExactlyOnce ----------------------------
(***************************************************************************)
(* What a client that sends an Idempotency-Key is promised: the work of a  *)
(* key is done at most once, takes the next number of its series, and      *)
(* whoever is answered under that key is answered with that one document.  *)
(* Submissions implements it (Submissions!ExactlyOnceSpec).                *)
(***************************************************************************)
EXTENDS Integers, FiniteSets

CONSTANTS Keys, Payloads, SeriesOf(_)

VARIABLES
    register,   \* key -> [payload, number] of the work done under it
    replies     \* the answers given: <<key, payload, number>>

Init == register = << >> /\ replies = {}

served(k) == k \in DOMAIN register

following(k) ==
    1 + Cardinality({j \in DOMAIN register : SeriesOf(j) = SeriesOf(k)})

Execute(k, payload) ==
    /\ ~served(k)
    /\ register' = [j \in DOMAIN register \cup {k} |->
                      IF served(j) THEN register[j]
                      ELSE [payload |-> payload, number |-> following(k)]]
    /\ replies' = replies \cup {<<k, payload, following(k)>>}

Replay(k, payload) ==
    /\ served(k)
    /\ register[k].payload = payload
    /\ replies' = replies \cup {<<k, payload, register[k].number>>}
    /\ UNCHANGED register

Next == \E k \in Keys, payload \in Payloads : Execute(k, payload) \/ Replay(k, payload)

Spec == Init /\ [][Next]_<<register, replies>>

=============================================================================
