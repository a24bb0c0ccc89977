----------------------------- MODULE LedgerSums -----------------------------
(***************************************************************************)
(* Partial-function tables and the SUM() aggregate of the repositories.    *)
(*                                                                         *)
(* A database table is a function from the ids in use to rows.  Money is   *)
(* counted in paise: every amount is Numeric(17, 2), so an amount is an    *)
(* integer number of hundredths and adding two amounts never rounds.       *)
(***************************************************************************)
EXTENDS Integers, FiniteSets

\* The table with a row added (or replaced).
Insert(table, id, row) ==
    [x \in DOMAIN table \cup {id} |-> IF x = id THEN row ELSE table[x]]

\* One element for every paisa of the rows `ids'.
Paise(ids, amount) == UNION {{x} \X (1..amount[x]) : x \in ids}

(***************************************************************************)
(* COALESCE(SUM(amount), 0) over the rows `ids': the number of paise in    *)
(* them.  Counting instead of recursing keeps the definition within the    *)
(* provers' reach; LedgerSumsProofs has the laws, MCBilling compares it    *)
(* with the fold of the community modules.                                 *)
(***************************************************************************)
Sum(ids, amount) == Cardinality(Paise(ids, amount))

=============================================================================
