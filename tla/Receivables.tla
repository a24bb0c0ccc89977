---------------------------- MODULE Receivables ----------------------------
(***************************************************************************)
(* What the billing core promises about money, with no tables behind it:   *)
(* a book of accounts, one per sale, purchase or debit note.  An account   *)
(* is opened, issued, and then money moves on it in seven ways, each of    *)
(* which changes one account and one of its amounts, within the limits     *)
(* below.  Billing implements it (BillingProperties!ReceivablesSpec).      *)
(***************************************************************************)
EXTENDS Integers

CONSTANTS Accounts, Values

VARIABLE book   \* account -> [total, collected, credited, returned, stage]

larger(a, b) == IF a > b THEN a ELSE b

\* What the counterparty still owes, and what it is owed.
owed(acc) == larger(acc.total - acc.credited - acc.collected + acc.returned, 0)
due(acc) == larger(acc.credited + acc.collected - acc.returned - acc.total, 0)

\* No money has ever stayed on the account.
untouched(acc) == acc.collected = 0 /\ acc.credited = 0 /\ acc.returned = 0

issued(a) == a \in DOMAIN book /\ book[a].stage = "issued"

Init == book = << >>

Open(a, total) ==
    /\ a \notin DOMAIN book
    /\ book' = [x \in DOMAIN book \cup {a} |->
                  IF x = a
                  THEN [total |-> total, collected |-> 0, credited |-> 0,
                        returned |-> 0, stage |-> "draft"]
                  ELSE book[x]]

Issue(a) ==
    /\ a \in DOMAIN book
    /\ book[a].stage = "draft"
    /\ book' = [book EXCEPT ![a].stage = "issued"]

\* Only an account no money stays on is withdrawn.
Withdraw(a) ==
    /\ issued(a)
    /\ untouched(book[a])
    /\ book' = [book EXCEPT ![a].stage = "void"]

\* Cash comes in, never more than is owed.
Collect(a) ==
    /\ issued(a)
    /\ \E amount \in 1..owed(book[a]) :
          book' = [book EXCEPT ![a].collected = @ + amount]

\* Recorded cash is taken back, never below what was paid out of it.
Reverse(a) ==
    /\ issued(a)
    /\ \E amount \in 1..(book[a].collected - book[a].returned) :
          book' = [book EXCEPT ![a].collected = @ - amount]

\* The account is corrected downwards, never below nothing.
Credit(a) ==
    /\ issued(a)
    /\ \E amount \in 1..(book[a].total - book[a].credited) :
          book' = [book EXCEPT ![a].credited = @ + amount]

\* Cash goes back, never more than is due.
Return(a) ==
    /\ issued(a)
    /\ \E amount \in 1..due(book[a]) :
          book' = [book EXCEPT ![a].returned = @ + amount]

\* A pay-out that did not happen is struck out.
Restore(a) ==
    /\ issued(a)
    /\ \E amount \in 1..book[a].returned :
          book' = [book EXCEPT ![a].returned = @ - amount]

Next ==
    \E a \in Accounts :
        \/ \E total \in Values : Open(a, total)
        \/ Issue(a)
        \/ Withdraw(a)
        \/ Collect(a)
        \/ Reverse(a)
        \/ Credit(a)
        \/ Return(a)
        \/ Restore(a)

Spec == Init /\ [][Next]_book

=============================================================================
