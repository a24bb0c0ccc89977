-------------------------- MODULE LedgerSumsProofs --------------------------
(***************************************************************************)
(* The laws of SUM(amount) over a finite set of rows: what the ledger      *)
(* proofs need to know of Sum, and the only place its definition is used.  *)
(***************************************************************************)
EXTENDS LedgerSums, FunctionTheorems, FiniteSetTheorems, TLAPS

\* The paise of finitely many rows are finitely many.
LEMMA PaiseFinite ==
    ASSUME NEW S, IsFiniteSet(S), NEW amount \in [S -> Nat]
    PROVE  IsFiniteSet(Paise(S, amount))
<1> DEFINE row(x) == {x} \X (1..amount[x])
           f == [x \in S |-> row(x)]
           rows == {row(x) : x \in S}
<1>1. f \in Surjection(S, rows)
  BY DEF Surjection
<1>2. IsFiniteSet(rows)
  <2> HIDE DEF f, rows
  <2> QED BY <1>1, FS_Surjection
<1>3. ASSUME NEW x \in S PROVE IsFiniteSet(row(x))
  <2>1. amount[x] \in Int
    OBVIOUS
  <2>2. IsFiniteSet({x})
    BY FS_Singleton
  <2>3. IsFiniteSet(1..amount[x])
    BY <2>1, FS_Interval
  <2> QED BY <2>2, <2>3, FS_Product
<1>4. \A T \in rows : IsFiniteSet(T)
  BY <1>3
<1>5. Paise(S, amount) = UNION rows
  BY DEF Paise
<1> QED
  <2> HIDE DEF rows
  <2> QED BY <1>2, <1>4, <1>5, FS_UNION

\* COALESCE(SUM(amount), 0) of no rows is 0, and of any rows is a natural.
LEMMA SumType ==
    ASSUME NEW S, IsFiniteSet(S), NEW amount \in [S -> Nat]
    PROVE  Sum(S, amount) \in Nat
BY PaiseFinite, FS_CardinalityType DEF Sum

LEMMA SumEmpty ==
    ASSUME NEW amount
    PROVE  Sum({}, amount) = 0
<1>1. Paise({}, amount) = {}
  BY DEF Paise
<1> QED BY <1>1, FS_EmptySet DEF Sum

\* Only the amounts of the rows summed matter.
LEMMA SumSame ==
    ASSUME NEW S, NEW f, NEW g, \A x \in S : f[x] = g[x]
    PROVE  Sum(S, f) = Sum(S, g)
<1>1. Paise(S, f) = Paise(S, g)
  BY DEF Paise
<1> QED BY <1>1 DEF Sum

\* One more row adds its amount.
LEMMA SumAdd ==
    ASSUME NEW S, IsFiniteSet(S), NEW x, x \notin S,
           NEW amount \in [S \cup {x} -> Nat]
    PROVE  Sum(S \cup {x}, amount) = Sum(S, amount) + amount[x]
<1> DEFINE row == {x} \X (1..amount[x])
<1>1. Paise(S \cup {x}, amount) = Paise(S, amount) \cup row
  BY DEF Paise
<1>2. Paise(S, amount) \cap row = {}
  BY DEF Paise
<1>3. IsFiniteSet(Paise(S, amount))
  <2> DEFINE a == [y \in S |-> amount[y]]
  <2>1. a \in [S -> Nat]
    OBVIOUS
  <2>2. Paise(S, a) = Paise(S, amount)
    BY DEF Paise
  <2> HIDE DEF a
  <2> QED BY <2>1, <2>2, PaiseFinite
<1>4. amount[x] \in Nat
  OBVIOUS
<1>5. IsFiniteSet(row) /\ Cardinality(row) = amount[x]
  <2>1. IsFiniteSet({x}) /\ Cardinality({x}) = 1
    BY FS_Singleton
  <2>2. IsFiniteSet(1..amount[x]) /\ Cardinality(1..amount[x]) = amount[x]
    BY <1>4, FS_Interval
  <2>3. Cardinality(row) = Cardinality({x}) * Cardinality(1..amount[x])
    BY <2>1, <2>2, FS_Product
  <2>4. IsFiniteSet(row)
    BY <2>1, <2>2, FS_Product
  <2>5. 1 * amount[x] = amount[x]
    BY <1>4
  <2> QED BY <2>1, <2>2, <2>3, <2>4, <2>5
<1>6. Cardinality({}) = 0
  BY FS_EmptySet
<1>7. Cardinality(Paise(S, amount)) \in Nat
  BY <1>3, FS_CardinalityType
<1> HIDE DEF row
<1>8. Cardinality(Paise(S, amount) \cup row)
        = Cardinality(Paise(S, amount)) + Cardinality(row)
            - Cardinality(Paise(S, amount) \cap row)
  BY <1>3, <1>5, FS_Union
<1>9. Cardinality(Paise(S, amount) \cap row) = 0
  BY <1>2, <1>6, Zenon
<1>10. Sum(S \cup {x}, amount) = Cardinality(Paise(S, amount) \cup row)
  BY <1>1, Zenon DEF Sum
<1> DEFINE both == Cardinality(Paise(S, amount) \cup row)
           common == Cardinality(Paise(S, amount) \cap row)
           old == Cardinality(Paise(S, amount))
<1>11. /\ Sum(S \cup {x}, amount) = both
       /\ Sum(S, amount) = old
       /\ both = old + Cardinality(row) - common
       /\ common = 0 /\ old \in Nat
  BY <1>7, <1>8, <1>9, <1>10 DEF Sum
<1> HIDE DEF both, common, old
<1> QED BY <1>4, <1>5, <1>11

\* One row less takes its amount away.
LEMMA SumRemove ==
    ASSUME NEW S, IsFiniteSet(S), NEW x \in S, NEW amount \in [S -> Nat]
    PROVE  Sum(S \ {x}, amount) = Sum(S, amount) - amount[x]
<1>1. IsFiniteSet(S \ {x}) /\ x \notin S \ {x} /\ (S \ {x}) \cup {x} = S
  BY FS_RemoveElement
<1>2. Sum((S \ {x}) \cup {x}, amount) = Sum(S \ {x}, amount) + amount[x]
  BY <1>1, SumAdd
<1>3. Sum(S \ {x}, amount) \in Nat
  <2> DEFINE a == [y \in S \ {x} |-> amount[y]]
  <2>1. Sum(S \ {x}, a) = Sum(S \ {x}, amount)
    BY SumSame
  <2>2. Sum(S \ {x}, a) \in Nat
    BY <1>1, SumType
  <2> QED BY <2>1, <2>2
<1>4. amount[x] \in Nat
  OBVIOUS
<1>5. Sum((S \ {x}) \cup {x}, amount) = Sum(S, amount)
  BY <1>1, Zenon
<1> DEFINE less == Sum(S \ {x}, amount)
<1>6. Sum(S, amount) = less + amount[x] /\ less \in Nat
  BY <1>2, <1>3, <1>5
<1> HIDE DEF less
<1>7. less = Sum(S, amount) - amount[x]
  BY <1>4, <1>6
<1> QED BY <1>7 DEF less

\* A sum of 0 is a sum of zeros.
LEMMA SumZero ==
    ASSUME NEW S, IsFiniteSet(S), NEW amount, \A x \in S : amount[x] \in Nat,
           Sum(S, amount) = 0
    PROVE  \A x \in S : amount[x] = 0
<1> TAKE x \in S
<1> DEFINE f == [y \in S |-> amount[y]]
<1>1. f \in [S -> Nat] /\ f[x] = amount[x] /\ f[x] \in Nat
  OBVIOUS
<1>2. Sum(S, f) = 0
  BY SumSame
<1> HIDE DEF f
<1>3. IsFiniteSet(S \ {x})
  BY FS_RemoveElement
<1>4. Sum(S \ {x}, f) = Sum(S, f) - f[x]
  BY <1>1, SumRemove
<1>5. Sum(S \ {x}, f) \in Nat
  <2> DEFINE g == [y \in S \ {x} |-> f[y]]
  <2>1. g \in [S \ {x} -> Nat]
    BY <1>1
  <2>2. Sum(S \ {x}, g) = Sum(S \ {x}, f)
    BY SumSame
  <2> HIDE DEF g
  <2> QED BY <1>3, <2>1, <2>2, SumType
<1> QED BY <1>1, <1>2, <1>4, <1>5

=============================================================================
